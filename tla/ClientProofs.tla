--------------------------- MODULE ClientProofs ---------------------------
(***************************************************************************)
(* Proofs about the components of the client that share no state with each *)
(* other, for every value of their constants. Each is instantiated under   *)
(* its own name, and its variables have theirs here, with the component in *)
(* front where two components use one name.                                *)
(* For each component: what is assumed of its constants, the inductive     *)
(* invariant, the lemmas on its steps, and the theorem.                    *)
(***************************************************************************)
EXTENDS Naturals, Sequences, FiniteSets, FiniteSetTheorems, TLAPS

CONSTANTS Tasks, Urls, UI, Channels, None, MaxTasks, Communities, Dm,
    NavClicks, Queries, Nothing, MaxResults, Trending, MaxMatches, Devices,
    Cameras, ShareClicks, MaxRefusals, Webcams, Screens, Polls, MaxHandlers,
    MaxFrames, MaxLosses, MaxTries, Attachments, Length, MaxPlays, MaxSeeks

VARIABLES queue, guards, ui, seen, pc, url, image, fetched,
    compose_selected, drafts, compose_tasks, compose_drawn, compose_view,
    box, compose_mode, files, sent, left, raced, known, channels, community,
    channel, saved, restored, socket, stream, connecting, nav_tasks,
    crossed, switcher, search, entered, open, gif_query, last, loading,
    trending, error, results, requests, slot, mention_text, matches, active,
    dismissed, mention_query, mention_selected, used, slipped, set_view,
    set, file, plugged, listed, test, preview, set_joined, set_was, call,
    detector, apart, share_joined, flag, wants, video, share_row, frame,
    share_was, share_drawn, picker, capturing, camera, share_pc, refusals,
    share_odd, watching, texture, track, handled, frames, poll, todo,
    handlers, blind, passed, sending, captured, inside, encoded, writing,
    wire, router, tries, video_joined, buffer, torn, handed, alone, came,
    gone, made, attachment, playing, generation, current, shown, sink,
    trackers, seeks, over, player_odd, failed

State == INSTANCE ClientState
Compose == INSTANCE Compose WITH
    selected <- compose_selected, tasks <- compose_tasks,
    drawn <- compose_drawn, view <- compose_view, mode <- compose_mode
Nav == INSTANCE Navigation WITH
    tasks <- nav_tasks, Clicks <- NavClicks
Pick == INSTANCE Pickers
Gif == INSTANCE GifPicker WITH
    query <- gif_query
Mention == INSTANCE Mentions WITH
    query <- mention_query, selected <- mention_selected,
    text <- mention_text
Set == INSTANCE Settings WITH
    view <- set_view, joined <- set_joined, was <- set_was
Share == INSTANCE ScreenShare WITH
    pc <- share_pc, joined <- share_joined, row <- share_row,
    was <- share_was, drawn <- share_drawn, odd <- share_odd,
    Clicks <- ShareClicks
Tracks == INSTANCE RemoteTracks
Video == INSTANCE VideoStream WITH
    joined <- video_joined
Player == INSTANCE AudioPlayer WITH
    odd <- player_odd

-----------------------------------------------------------------------------
(* The client's shared state (ClientState).                                *)

(* The UI thread is none of the runtime's tasks.                           *)
StateAssumption == UI \notin Tasks

(* The actions of Next, one by one.                                        *)
LEMMA StateCases ==
    ASSUME State!Next, NEW G,
           ASSUME State!Grant PROVE G,
           ASSUME State!StartFrame PROVE G,
           ASSUME State!AskTyping PROVE G,
           ASSUME State!EndRead PROVE G,
           ASSUME State!EndFrame PROVE G,
           ASSUME NEW u \in Urls, State!Look(u) PROVE G,
           ASSUME NEW u \in Urls, NEW t \in Tasks, State!StartFetch(u, t) PROVE G,
           ASSUME NEW t \in Tasks, NEW r \in {"good", "bad"}, State!Answer(t, r) PROVE G,
           ASSUME NEW t \in Tasks, State!Event(t) PROVE G,
           ASSUME NEW t \in Tasks, State!Apply(t) PROVE G
    PROVE  G
  BY DEF State!Next

-----------------------------------------------------------------------------
(* The queue.  Who asks comes last and who is granted was first.           *)
QueueInv ==
    /\ queue \in Seq(State!Processes \X State!Modes)
    /\ \A i, j \in 1..Len(queue) : queue[i][1] = queue[j][1] => i = j
    /\ \A i \in 1..Len(queue) : queue[i][2] = IF queue[i][1] = UI THEN "read" ELSE "write"

(* Who asks, and did not wait, waits at the end of the queue.              *)
LEMMA AskKeeps ==
    ASSUME QueueInv, NEW p \in State!Processes, NEW mode \in State!Modes, State!Ask(p, mode), ~State!Waiting(p),
           mode = IF p = UI THEN "read" ELSE "write"
    PROVE  QueueInv' /\ \A q : State!Waiting(q)' <=> State!Waiting(q) \/ q = p
<1> DEFINE m == <<p, mode>>
<1>1. /\ queue \in Seq(State!Processes \X State!Modes) /\ m \in State!Processes \X State!Modes
      /\ queue' = Append(queue, m)
  BY DEF QueueInv, State!Ask
<1>2. /\ Len(queue) \in Nat /\ Len(queue') = Len(queue) + 1
      /\ queue' \in Seq(State!Processes \X State!Modes)
      /\ \A i \in 1..Len(queue) : queue'[i] = queue[i]
      /\ queue'[Len(queue) + 1] = m
      /\ DOMAIN queue = 1..Len(queue) /\ DOMAIN queue' = 1..Len(queue')
  BY <1>1
<1>3. 1..(Len(queue) + 1) = 1..Len(queue) \cup {Len(queue) + 1}
  BY <1>2
<1>4. m[1] = p /\ m[2] = mode
  OBVIOUS
<1>5. \A q : State!Waiting(q)' <=> State!Waiting(q) \/ q = p
  <2> SUFFICES ASSUME NEW q PROVE State!Waiting(q)' <=> State!Waiting(q) \/ q = p
    OBVIOUS
  <2>1. State!Waiting(q)' <=> \E i \in 1..Len(queue) \cup {Len(queue) + 1} : queue'[i][1] = q
    BY <1>2, <1>3 DEF State!Waiting
  <2>2. State!Waiting(q) <=> \E i \in 1..Len(queue) : queue[i][1] = q
    BY <1>2 DEF State!Waiting
  <2> QED
    BY <1>2, <1>4, <2>1, <2>2
<1>6. \A i, j \in 1..Len(queue') : queue'[i][1] = queue'[j][1] => i = j
  <2>1. \A i \in 1..Len(queue) : queue'[i][1] # queue'[Len(queue) + 1][1]
    BY <1>2, <1>4 DEF State!Waiting
  <2>2. \A i, j \in 1..Len(queue) : queue'[i][1] = queue'[j][1] => i = j
    BY <1>2 DEF QueueInv
  <2> QED
    BY <1>2, <1>3, <2>1, <2>2
<1>7. \A i \in 1..Len(queue') : queue'[i][2] = IF queue'[i][1] = UI THEN "read" ELSE "write"
  BY <1>2, <1>3, <1>4 DEF QueueInv
<1> QED
  BY <1>2, <1>5, <1>6, <1>7 DEF QueueInv

(* Who is at the head of the queue, and is served, waits no more.          *)
LEMMA GrantKeeps ==
    ASSUME QueueInv, queue # <<>>, queue' = Tail(queue), NEW p, NEW mode,
           p = Head(queue)[1], mode = Head(queue)[2]
    PROVE  /\ QueueInv' /\ p \in State!Processes
           /\ mode = IF p = UI THEN "read" ELSE "write"
           /\ \A q : State!Waiting(q) <=> State!Waiting(q)' \/ q = p
           /\ ~State!Waiting(p)'
<1>1. /\ Len(queue) \in Nat \ {0} /\ Len(queue') = Len(queue) - 1
      /\ queue' \in Seq(State!Processes \X State!Modes)
      /\ \A i \in 1..Len(queue') : queue'[i] = queue[i + 1] /\ i + 1 \in 1..Len(queue)
      /\ Head(queue) = queue[1] /\ 1 \in 1..Len(queue)
      /\ DOMAIN queue = 1..Len(queue) /\ DOMAIN queue' = 1..Len(queue')
  BY DEF QueueInv
<1>2. \A i \in 1..Len(queue) : i = 1 \/ (i - 1 \in 1..Len(queue') /\ queue[i] = queue'[i - 1])
  BY <1>1
<1>3. queue[1] \in State!Processes \X State!Modes
  BY <1>1 DEF QueueInv
<1>4. ASSUME NEW q PROVE State!Waiting(q) <=> State!Waiting(q)' \/ q = p
  <2>1. State!Waiting(q)' <=> \E i \in 1..Len(queue') : queue'[i][1] = q
    BY <1>1 DEF State!Waiting
  <2>2. State!Waiting(q) <=> \E i \in 1..Len(queue) : queue[i][1] = q
    BY <1>1 DEF State!Waiting
  <2>3. State!Waiting(q) => State!Waiting(q)' \/ q = p
    BY <1>1, <1>2, <2>1, <2>2
  <2>4. State!Waiting(q)' \/ q = p => State!Waiting(q)
    BY <1>1, <2>1, <2>2
  <2> QED
    BY <2>3, <2>4
<1>5. ~State!Waiting(p)'
  <2> SUFFICES ASSUME NEW i \in 1..Len(queue'), queue'[i][1] = p PROVE FALSE
    BY <1>1 DEF State!Waiting
  <2>1. queue[i + 1][1] = queue[1][1] /\ i + 1 \in 1..Len(queue) /\ i + 1 # 1
    BY <1>1
  <2> QED
    BY <1>1, <2>1 DEF QueueInv
<1>6. \A i, j \in 1..Len(queue') : queue'[i][1] = queue'[j][1] => i = j
  <2> SUFFICES ASSUME NEW i \in 1..Len(queue'), NEW j \in 1..Len(queue'), queue'[i][1] = queue'[j][1]
               PROVE  i = j
    OBVIOUS
  <2>1. i + 1 = j + 1
    BY <1>1 DEF QueueInv
  <2> QED
    BY <2>1
<1>7. \A i \in 1..Len(queue') : queue'[i][2] = IF queue'[i][1] = UI THEN "read" ELSE "write"
  BY <1>1 DEF QueueInv
<1> QED
  BY <1>1, <1>3, <1>4, <1>5, <1>6, <1>7 DEF QueueInv

-----------------------------------------------------------------------------
(* Who holds and who waits: a task asks once and then applies, with no     *)
(* guard before; the UI thread reads only, and holds nothing outside the   *)
(* part of the frame that reads.                                           *)
TaskInv ==
    \A t \in Tasks :
        /\ guards[t] # <<>> => ~State!Waiting(t)
        /\ pc[t] \in {"new", "asking"} => ~State!Waiting(t) /\ guards[t] = <<>>

UIInv ==
    /\ guards[UI] \in Seq({"read"})
    /\ State!Waiting(UI) /\ guards[UI] # <<>> => ui = "nested"
    /\ ui \in {"frame", "paint"} => ~State!Waiting(UI) /\ guards[UI] = <<>>

LockInv == State!TypeOK /\ QueueInv /\ TaskInv /\ UIInv

(* A guard is one of those in the queue.                                   *)
LEMMA QueueStays ==
    ASSUME UNCHANGED queue
    PROVE  (QueueInv => QueueInv') /\ \A q : State!Waiting(q)' <=> State!Waiting(q)
  BY DEF QueueInv, State!Waiting

(* Nobody holds or waits at the start.                                     *)
LEMMA LockInitially == StateAssumption /\ State!Init => LockInv
<1> SUFFICES ASSUME State!Init PROVE LockInv
  OBVIOUS
<1>1. State!TypeOK /\ QueueInv
  BY DEF State!Init, State!TypeOK, QueueInv, State!Processes
<1>2. \A q : ~State!Waiting(q)
  BY DEF State!Init, State!Waiting
<1> QED
  BY <1>1, <1>2 DEF State!Init, LockInv, TaskInv, UIInv, State!Processes

(* Every action keeps it.                                                  *)
LEMMA LockStep == ASSUME StateAssumption, LockInv, State!Next PROVE LockInv'
<1> USE DEF State!Processes, State!Modes
<1>0. State!TypeOK /\ QueueInv /\ TaskInv /\ UIInv
  BY DEF LockInv
<1>1. ASSUME State!Grant PROVE LockInv'
  <2>0. /\ queue # <<>> /\ queue' = Tail(queue)
        /\ UNCHANGED <<ui, seen, pc, url, image, fetched>>
        /\ guards' = [guards EXCEPT ![Head(queue)[1]] = Append(@, Head(queue)[2])]
    BY <1>1 DEF State!Grant
  <2> DEFINE p == Head(queue)[1]
             mode == Head(queue)[2]
  <2>1. /\ QueueInv' /\ p \in State!Processes /\ mode = (IF p = UI THEN "read" ELSE "write")
        /\ \A q : State!Waiting(q) <=> State!Waiting(q)' \/ q = p
    BY <1>0, <2>0, GrantKeeps
  <2>2. \A q \in State!Processes : q = p => ~State!Waiting(q)'
    BY <1>0, <2>0, GrantKeeps
  <2>3. State!TypeOK'
    BY <1>0, <2>0, <2>1 DEF State!TypeOK, QueueInv
  <2>4. TaskInv'
    BY <1>0, <2>0, <2>1, <2>2 DEF TaskInv, State!TypeOK
  <2>5. UIInv'
    BY <1>0, <2>0, <2>1, <2>2 DEF UIInv, State!TypeOK
  <2> QED
    BY <2>1, <2>3, <2>4, <2>5 DEF LockInv
<1>2. ASSUME State!StartFrame PROVE LockInv'
  <2>1. State!Ask(UI, "read") /\ ui = "frame" /\ ui' = "read"
        /\ UNCHANGED <<guards, pc, url, image, fetched>> /\ seen' = {}
    BY <1>2 DEF State!StartFrame
  <2>2. QueueInv' /\ \A q : State!Waiting(q)' <=> State!Waiting(q) \/ q = UI
    BY <1>0, <2>1, AskKeeps DEF UIInv
  <2> QED
    BY <1>0, <2>1, <2>2 DEF LockInv, State!TypeOK, QueueInv, TaskInv, UIInv, StateAssumption
<1>3. ASSUME State!AskTyping PROVE LockInv'
  <2>1. State!Ask(UI, "read") /\ ~State!Waiting(UI) /\ ui' = "nested"
        /\ UNCHANGED <<guards, seen, pc, url, image, fetched>>
    BY <1>3 DEF State!AskTyping
  <2>2. QueueInv' /\ \A q : State!Waiting(q)' <=> State!Waiting(q) \/ q = UI
    BY <1>0, <2>1, AskKeeps
  <2> QED
    BY <1>0, <2>1, <2>2 DEF LockInv, State!TypeOK, QueueInv, TaskInv, UIInv, StateAssumption
<1>4. ASSUME State!EndRead PROVE LockInv'
  <2>1. ~State!Waiting(UI) /\ ui' = "paint" /\ guards' = [guards EXCEPT ![UI] = <<>>]
        /\ UNCHANGED <<queue, seen, pc, url, image, fetched>>
    BY <1>4 DEF State!EndRead
  <2>2. QueueInv' /\ \A q : State!Waiting(q)' <=> State!Waiting(q)
    BY <1>0, <2>1, QueueStays
  <2> QED
    BY <1>0, <2>1, <2>2 DEF LockInv, State!TypeOK, TaskInv, UIInv, StateAssumption
<1>5. ASSUME State!EndFrame PROVE LockInv'
  <2>1. ui = "paint" /\ ui' = "frame" /\ UNCHANGED <<queue, guards, seen, pc, url, image, fetched>>
    BY <1>5 DEF State!EndFrame
  <2>2. QueueInv' /\ \A q : State!Waiting(q)' <=> State!Waiting(q)
    BY <1>0, <2>1, QueueStays
  <2> QED
    BY <1>0, <2>1, <2>2 DEF LockInv, State!TypeOK, TaskInv, UIInv
<1>6. ASSUME NEW u \in Urls, State!Look(u) PROVE LockInv'
  <2>1. UNCHANGED <<queue, guards, ui, pc, url, image, fetched>> /\ seen' = seen \cup {u}
    BY <1>6 DEF State!Look
  <2>2. QueueInv' /\ \A q : State!Waiting(q)' <=> State!Waiting(q)
    BY <1>0, <2>1, QueueStays
  <2> QED
    BY <1>0, <2>1, <2>2 DEF LockInv, State!TypeOK, TaskInv, UIInv
<1>7. ASSUME NEW u \in Urls, NEW t \in Tasks, State!StartFetch(u, t) PROVE LockInv'
  <2>1. /\ UNCHANGED <<queue, guards, ui>> /\ pc[t] = "new"
        /\ pc' = [pc EXCEPT ![t] = "asking"] /\ seen' = seen \cup {u}
        /\ url' = [url EXCEPT ![t] = {u}] /\ image' = [image EXCEPT ![u] = "pending"]
        /\ fetched' = [fetched EXCEPT ![u] = @ + 1]
    BY <1>7 DEF State!StartFetch
  <2>2. QueueInv' /\ \A q : State!Waiting(q)' <=> State!Waiting(q)
    BY <1>0, <2>1, QueueStays
  <2> QED
    BY <1>0, <2>1, <2>2 DEF LockInv, State!TypeOK, TaskInv, UIInv
<1>8. ASSUME NEW t \in Tasks, NEW r \in {"good", "bad"}, State!Answer(t, r) PROVE LockInv'
  <2>1. /\ State!Ask(t, "write") /\ pc[t] = "asking" /\ pc' = [pc EXCEPT ![t] = r]
        /\ UNCHANGED <<guards, ui, seen, url, image, fetched>>
    BY <1>8 DEF State!Answer
  <2>2. QueueInv' /\ \A q : State!Waiting(q)' <=> State!Waiting(q) \/ q = t
    BY <1>0, <2>1, AskKeeps DEF TaskInv, StateAssumption
  <2> QED
    BY <1>0, <2>1, <2>2 DEF LockInv, State!TypeOK, QueueInv, TaskInv, UIInv, StateAssumption
<1>9. ASSUME NEW t \in Tasks, State!Event(t) PROVE LockInv'
  <2>1. /\ State!Ask(t, "write") /\ pc[t] = "new" /\ pc' = [pc EXCEPT ![t] = "event"]
        /\ UNCHANGED <<guards, ui, seen, url, image, fetched>>
    BY <1>9 DEF State!Event
  <2>2. QueueInv' /\ \A q : State!Waiting(q)' <=> State!Waiting(q) \/ q = t
    BY <1>0, <2>1, AskKeeps DEF TaskInv, StateAssumption
  <2> QED
    BY <1>0, <2>1, <2>2 DEF LockInv, State!TypeOK, QueueInv, TaskInv, UIInv, StateAssumption
<1>10. ASSUME NEW t \in Tasks, State!Apply(t) PROVE LockInv'
  <2>1. /\ guards[t] # <<>> /\ guards' = [guards EXCEPT ![t] = <<>>]
        /\ pc' = [pc EXCEPT ![t] = "done"] /\ UNCHANGED <<queue, ui, seen, url, fetched>>
    BY <1>10 DEF State!Apply
  <2>2. QueueInv' /\ \A q : State!Waiting(q)' <=> State!Waiting(q)
    BY <1>0, <2>1, QueueStays
  <2>3. image' \in [Urls -> {"unknown", "pending", "cached", "failed"}]
    BY <1>0, <1>10 DEF State!Apply, State!TypeOK
  <2> QED
    BY <1>0, <2>1, <2>2, <2>3 DEF LockInv, State!TypeOK, TaskInv, UIInv, StateAssumption
<1> QED
  BY StateCases, <1>1, <1>2, <1>3, <1>4, <1>5, <1>6, <1>7, <1>8, <1>9, <1>10

(* Types and who holds what, for any number of tasks and images.           *)
THEOREM LockInvariance == ASSUME StateAssumption PROVE State!Spec => []LockInv
<1>1. LockInv /\ UNCHANGED State!vars => LockInv'
  BY QueueStays DEF LockInv, State!TypeOK, TaskInv, UIInv, State!vars
<1>2. LockInv /\ [State!Next]_(State!vars) => LockInv'
  BY <1>1, LockStep
<1> QED
  BY LockInitially, <1>2, PTL DEF State!Spec

(* The UI thread's nested read is the only place where everybody can wait  *)
(* for the state in a circle: get_typing_users under the guard of the      *)
(* frame (ui/chat.rs), with a writer in between.  For any number of tasks. *)
THEOREM OnlyTheFrameBlocks == ASSUME StateAssumption PROVE State!Spec => [](State!TypeOK /\ State!OnlyItselfBlocks)
<1>1. ASSUME LockInv PROVE State!OnlyItselfBlocks
  <2> SUFFICES ASSUME State!Circle
               PROVE  ui = "nested" /\ State!Holders = {UI} /\ Head(queue)[2] = "write"
    BY DEF State!OnlyItselfBlocks
  <2>1. QueueInv /\ TaskInv /\ UIInv /\ State!TypeOK
    BY <1>1 DEF LockInv
  <2>2. /\ Len(queue) \in Nat \ {0} /\ Head(queue) = queue[1] /\ queue[1] \in State!Processes \X State!Modes
    BY <2>1 DEF State!Circle, QueueInv
  <2>3. State!Holders \subseteq {UI}
    BY <2>1 DEF State!Circle, State!Holders, State!Processes, TaskInv
  <2>4. State!Holders # {}
    BY <2>2 DEF State!Circle, State!Grantable, State!Written, State!Modes
  <2>5. State!Holders = {UI} /\ State!Waiting(UI) /\ guards[UI] # <<>>
    BY <2>3, <2>4 DEF State!Circle, State!Holders
  <2>6. ui = "nested"
    BY <2>1, <2>5 DEF UIInv
  <2>7. ~State!Written
    BY <2>1, <2>5 DEF State!Written, UIInv
  <2>8. Head(queue)[2] = "write"
    BY <2>2, <2>7 DEF State!Circle, State!Grantable, State!Modes
  <2> QED
    BY <2>5, <2>6, <2>8
<1>2. LockInv => State!TypeOK
  BY DEF LockInv
<1> QED
  BY <1>1, <1>2, LockInvariance, PTL

-----------------------------------------------------------------------------
(* Marking and asking are one step, and a mark never goes back.            *)
MarkInv == \A u \in Urls : fetched[u] = 0 \/ (fetched[u] = 1 /\ image[u] # "unknown")

(* A mark does not go back, so nothing is fetched again.                   *)
LEMMA MarkStep == ASSUME State!TypeOK, MarkInv, State!Next PROVE MarkInv'
<1>1. ASSUME NEW u \in Urls, NEW t \in Tasks, State!StartFetch(u, t) PROVE MarkInv'
  BY <1>1 DEF State!StartFetch, State!MayMark, MarkInv, State!TypeOK
<1>2. ASSUME NEW t \in Tasks, State!Apply(t) PROVE MarkInv'
  BY <1>2 DEF State!Apply, MarkInv, State!TypeOK
<1>3. ASSUME UNCHANGED <<image, fetched>> PROVE MarkInv'
  BY <1>3 DEF MarkInv
<1> QED
  BY StateCases, <1>1, <1>2, <1>3
     DEF State!Grant, State!StartFrame, State!AskTyping, State!EndRead, State!EndFrame, State!Look, State!Answer, State!Event

(* An image is asked of the network once, however often lookups fail       *)
(* because the lock is taken.                                              *)
THEOREM ImagesFetchedOnce == ASSUME StateAssumption PROVE State!Spec => []State!FetchedOnce
<1>1. State!Init => MarkInv
  BY DEF State!Init, MarkInv
<1>2. State!TypeOK /\ MarkInv /\ [State!Next]_(State!vars) => MarkInv'
  <2>1. MarkInv /\ UNCHANGED State!vars => MarkInv'
    BY DEF MarkInv, State!vars
  <2> QED
    BY <2>1, MarkStep
<1>3. MarkInv => State!FetchedOnce
  BY DEF MarkInv, State!FetchedOnce
<1>4. LockInv => State!TypeOK
  BY DEF LockInv
<1> QED
  BY <1>1, <1>2, <1>3, <1>4, LockInvariance, PTL DEF State!Spec

-----------------------------------------------------------------------------
(* The message box and its drafts (Compose).                               *)

(* None is no channel and no request.                                      *)
ComposeAssumption == None \notin Channels \cup Compose!Requests

(* What a task will save was typed for its channel, and is what the box had *)
(* when the channel was left, for the channels the parts speak of.         *)
TasksInv ==
    /\ \A t \in compose_tasks : t.text \in {Compose!Empty, Compose!Remnant, Compose!New(t.channel)}
    /\ \A t \in compose_tasks : t.channel \notin raced /\ t.channel # compose_view => t.text = left[t.channel]

ComposeInv == Compose!TypeOK /\ Compose!ComposeAgrees /\ TasksInv

(* A text says what it was typed as.                                       *)
LEMMA TextsApart ==
    /\ Compose!Empty # Compose!Remnant
    /\ \A c, d : /\ Compose!New(c) # Compose!Edit(d) /\ Compose!New(c) # Compose!Empty /\ Compose!New(c) # Compose!Remnant
                 /\ Compose!Edit(c) # Compose!Empty /\ Compose!Edit(c) # Compose!Remnant
                 /\ Compose!New(c) = Compose!New(d) => c = d
                 /\ Compose!Edit(c) = Compose!Edit(d) => c = d
  BY DEF Compose!Empty, Compose!Remnant, Compose!New, Compose!Edit

(* A text is nothing, a remnant, or was typed as a message or as an edit   *)
(* of a channel.                                                           *)
LEMMA TextCases ==
    ASSUME NEW text \in Compose!Texts
    PROVE  \/ text \in {Compose!Empty, Compose!Remnant}
           \/ \E c \in Channels : text = Compose!New(c)
           \/ \E c \in Channels : text = Compose!Edit(c)
  BY DEF Compose!Texts

(* An edit's text that is left behind is nobody's.                         *)
LEMMA LeftBehind ==
    ASSUME NEW text \in Compose!Texts
    PROVE  /\ Compose!AfterEdit(text) \in {Compose!Empty, Compose!Remnant} \cup {Compose!New(c) : c \in Channels}
           /\ \A c : Compose!AfterEdit(text) = Compose!New(c) => text = Compose!New(c)
           /\ Compose!AfterEdit(text) \in Compose!Texts
<1> HIDE DEF Compose!Empty, Compose!Remnant, Compose!New, Compose!Edit
<1>1. CASE text \in {Compose!Edit(c) : c \in Channels}
  BY <1>1, TextsApart DEF Compose!AfterEdit, Compose!Texts
<1>2. CASE text \notin {Compose!Edit(c) : c \in Channels}
  BY <1>2, TextsApart DEF Compose!AfterEdit, Compose!Texts
<1> QED
  BY <1>1, <1>2

(* ComposeInv holds at first.                                              *)
LEMMA ComposeInitially == Compose!Init => ComposeInv
<1> SUFFICES ASSUME Compose!Init PROVE ComposeInv
  OBVIOUS
<1>1. Compose!Empty \in Compose!Texts
  BY DEF Compose!Texts
<1>2. Compose!TypeOK
  BY <1>1 DEF Compose!Init, Compose!TypeOK
<1> QED
  BY <1>2, TextsApart DEF Compose!Init, ComposeInv, Compose!ComposeAgrees, Compose!BoxIsOfView, Compose!DraftsAreOwn, Compose!DraftsKept,
     Compose!SentWhereTyped, TasksInv, Compose!Pending

(* What a spawned task does to the parts about drafts: a channel with two   *)
(* tasks, or with one and not in view, is raced.                           *)
LEMMA Spawning ==
    ASSUME ComposeInv, NEW c \in Channels, NEW text \in {Compose!Empty, Compose!Remnant, Compose!New(c)}, Compose!Spawn(c, text),
           NEW v, compose_view' = v, UNCHANGED drafts,
           \/ v = compose_view /\ left' = left
           \/ c = compose_view /\ v # compose_view /\ left' = [left EXCEPT ![c] = text]
    PROVE  Compose!DraftsKept' /\ TasksInv' /\ raced' \subseteq Channels
           /\ compose_tasks' \subseteq [channel : Channels, text : Compose!Texts]
<1> DEFINE new == [channel |-> c, text |-> text]
<1>1. /\ compose_tasks' = compose_tasks \cup {new} /\ new.channel = c /\ new.text = text
      /\ raced' = IF Compose!Pending(c) \/ c # compose_view THEN raced \cup {c} ELSE raced \ {c}
  BY DEF Compose!Spawn
<1>2. Compose!TypeOK /\ Compose!DraftsKept /\ TasksInv
  BY DEF ComposeInv, Compose!ComposeAgrees
<1>3. text \in Compose!Texts
  BY DEF Compose!Texts
<1>4. raced' \subseteq Channels /\ compose_tasks' \subseteq [channel : Channels, text : Compose!Texts]
  BY <1>1, <1>2, <1>3 DEF Compose!TypeOK
<1>5. \A d : Compose!Pending(d)' <=> Compose!Pending(d) \/ d = c
  BY <1>1 DEF Compose!Pending
<1>6. \A d \in Channels : d # c => left'[d] = left[d]
  BY <1>2 DEF Compose!TypeOK
<1>7. Compose!DraftsKept'
  <2> SUFFICES ASSUME NEW d \in Channels, d \notin raced', d # v, ~Compose!Pending(d)'
               PROVE  drafts[d] = left'[d]
    BY DEF Compose!DraftsKept
  <2>1. d # c /\ ~Compose!Pending(d) /\ d \notin raced
    BY <1>1, <1>5
  <2>2. d # compose_view
    BY <2>1
  <2> QED
    BY <1>2, <1>6, <2>1, <2>2 DEF Compose!DraftsKept
<1>8. TasksInv'
  <2>1. \A t \in compose_tasks' : t.text \in {Compose!Empty, Compose!Remnant, Compose!New(t.channel)}
    BY <1>1, <1>2 DEF TasksInv
  <2>2. ASSUME NEW t \in compose_tasks', t.channel \notin raced', t.channel # v
        PROVE  t.text = left'[t.channel]
    <3>0. t.channel \in Channels
      BY <1>4
    <3>1. CASE t.channel = c
      <4>1. c = compose_view /\ ~Compose!Pending(c) /\ v # compose_view
        BY <1>1, <2>2, <3>1
      <4>2. t = new
        BY <1>1, <3>1, <4>1 DEF Compose!Pending
      <4> QED
        BY <1>1, <1>2, <4>1, <4>2 DEF Compose!TypeOK
    <3>2. CASE t.channel # c
      <4>1. t \in compose_tasks /\ t.channel \notin raced /\ t.channel # compose_view
        BY <1>1, <2>2, <3>2
      <4> QED
        BY <1>2, <1>6, <3>0, <3>2, <4>1 DEF TasksInv
    <3> QED
      BY <3>1, <3>2
  <2> QED
    BY <2>1, <2>2 DEF TasksInv
<1> QED
  BY <1>4, <1>7, <1>8

(* The frame's own actions: the box and what it is for.                    *)
LEMMA BoxStep ==
    ASSUME ComposeInv, ComposeAssumption, Compose!Drawing,
           Compose!Type \/ Compose!Erase \/ Compose!PickFile \/ Compose!RemoveFile \/ Compose!AskReply \/ Compose!AskEdit \/ Compose!CancelReply \/ Compose!CancelEdit
    PROVE  ComposeInv'
<1>0. /\ Compose!TypeOK /\ Compose!BoxIsOfView /\ Compose!DraftsAreOwn /\ Compose!DraftsKept /\ TasksInv /\ compose_drawn \in Channels
      /\ compose_drawn = compose_view => compose_view \in Channels
  BY DEF ComposeInv, Compose!ComposeAgrees, Compose!TypeOK, Compose!Drawing
<1>1. /\ sent' = None /\ UNCHANGED <<compose_selected, drafts, compose_tasks, compose_drawn, compose_view, left, raced>>
  BY DEF Compose!Type, Compose!Erase, Compose!PickFile, Compose!RemoveFile, Compose!AskReply, Compose!AskEdit, Compose!CancelReply, Compose!CancelEdit, Compose!Elsewhere
<1>2. SUFFICES Compose!BoxIsOfView' /\ box' \in Compose!Texts /\ compose_mode' \in {"new", "reply", "edit"} /\ files' \in BOOLEAN
  BY <1>0, <1>1 DEF ComposeInv, Compose!ComposeAgrees, Compose!TypeOK, Compose!DraftsAreOwn, Compose!DraftsKept, TasksInv, Compose!SentWhereTyped,
     Compose!Pending
<1>3. Compose!Empty \in Compose!Texts /\ Compose!Remnant \in Compose!Texts
  BY DEF Compose!Texts
<1>4. compose_drawn = compose_view => Compose!New(compose_view) \in Compose!Texts /\ Compose!Edit(compose_view) \in Compose!Texts
  BY <1>0 DEF Compose!Texts
<1>5. CASE Compose!Type
  <2>1. \/ box' = box
        \/ box' = Compose!Remnant
        \/ compose_drawn = compose_view /\ box' = IF compose_mode = "edit" THEN Compose!Edit(compose_view) ELSE Compose!New(compose_view)
    BY <1>5 DEF Compose!Type
  <2>2. compose_mode' = compose_mode /\ files' = files
    BY <1>5 DEF Compose!Type
  <2> QED
    BY <1>0, <1>1, <1>3, <1>4, <2>1, <2>2, TextsApart DEF Compose!BoxIsOfView, Compose!TypeOK
<1>6. CASE Compose!Erase
  BY <1>0, <1>3, <1>6, TextsApart DEF Compose!Erase, Compose!BoxIsOfView, Compose!TypeOK
<1>7. CASE Compose!PickFile \/ Compose!RemoveFile
  BY <1>0, <1>1, <1>7 DEF Compose!PickFile, Compose!RemoveFile, Compose!BoxIsOfView, Compose!TypeOK
<1>8. CASE Compose!AskReply
  <2>1. compose_mode' = "reply" /\ files' = files /\ box' = IF compose_mode = "edit" THEN Compose!AfterEdit(box) ELSE box
    BY <1>8 DEF Compose!AskReply, Compose!StartReply
  <2>2. Compose!AfterEdit(box) \in Compose!Texts
        /\ Compose!AfterEdit(box) \in {Compose!Empty, Compose!Remnant} \cup {Compose!New(c) : c \in Channels}
        /\ \A c : Compose!AfterEdit(box) = Compose!New(c) => box = Compose!New(c)
    BY <1>0, LeftBehind DEF Compose!TypeOK
  <2> QED
    BY <1>0, <1>1, <2>1, <2>2, TextsApart DEF Compose!BoxIsOfView, Compose!TypeOK
<1>9. CASE Compose!AskEdit
  BY <1>0, <1>1, <1>3, <1>4, <1>9, TextsApart DEF Compose!AskEdit, Compose!StartEdit, Compose!BoxIsOfView, Compose!TypeOK
<1>10. CASE Compose!CancelReply
  BY <1>0, <1>1, <1>10 DEF Compose!CancelReply, Compose!BoxIsOfView, Compose!TypeOK
<1>11. CASE Compose!CancelEdit
  BY <1>0, <1>1, <1>3, <1>11, TextsApart DEF Compose!CancelEdit, Compose!BoxIsOfView, Compose!TypeOK
<1> QED
  BY <1>5, <1>6, <1>7, <1>8, <1>9, <1>10, <1>11

(* Every frame, key and task keeps ComposeInv.                             *)
LEMMA ComposeStep == ASSUME ComposeAssumption, ComposeInv, [Compose!Next]_(Compose!vars) PROVE ComposeInv'
<1>0. Compose!TypeOK /\ Compose!BoxIsOfView /\ Compose!DraftsAreOwn /\ Compose!DraftsKept /\ Compose!SentWhereTyped /\ TasksInv
  BY DEF ComposeInv, Compose!ComposeAgrees
<1>00. Compose!Empty \in Compose!Texts /\ Compose!Remnant \in Compose!Texts
  BY DEF Compose!Texts
<1>1. ASSUME NEW c \in Channels \cup {None}, Compose!Select(c) PROVE ComposeInv'
  BY <1>0, <1>1 DEF Compose!Select, ComposeInv, Compose!ComposeAgrees, Compose!TypeOK, Compose!BoxIsOfView, Compose!DraftsAreOwn, Compose!DraftsKept,
     Compose!SentWhereTyped, TasksInv, Compose!Pending
<1>2. ASSUME NEW t \in compose_tasks, Compose!Save(t) PROVE ComposeInv'
  <2>0. t.channel \in Channels /\ t.text \in Compose!Texts /\ t.text \in {Compose!Empty, Compose!Remnant, Compose!New(t.channel)}
    BY <1>0 DEF Compose!TypeOK, TasksInv
  <2>1. /\ drafts' = [drafts EXCEPT ![t.channel] = t.text] /\ compose_tasks' = compose_tasks \ {t} /\ sent' = None
        /\ UNCHANGED <<compose_selected, compose_drawn, compose_view, box, compose_mode, files, left, raced>>
    BY <1>2 DEF Compose!Save, Compose!Saved
  <2>2. Compose!TypeOK'
    BY <1>0, <2>0, <2>1 DEF Compose!TypeOK
  <2>3. Compose!DraftsAreOwn'
    BY <1>0, <2>0, <2>1 DEF Compose!DraftsAreOwn, Compose!TypeOK
  <2>4. Compose!DraftsKept'
    <3> SUFFICES ASSUME NEW c \in Channels, c \notin raced, c # compose_view, ~Compose!Pending(c)'
                 PROVE  drafts'[c] = left[c]
      BY <2>1 DEF Compose!DraftsKept
    <3>1. CASE c = t.channel
      BY <1>0, <2>0, <2>1, <3>1 DEF Compose!TypeOK, TasksInv
    <3>2. CASE c # t.channel
      <4>1. ~Compose!Pending(c)
        BY <2>1, <3>2 DEF Compose!Pending
      <4> QED
        BY <1>0, <2>1, <3>2, <4>1 DEF Compose!DraftsKept, Compose!TypeOK
    <3> QED
      BY <3>1, <3>2
  <2>5. Compose!BoxIsOfView' /\ TasksInv' /\ Compose!SentWhereTyped'
    BY <1>0, <2>1 DEF Compose!BoxIsOfView, TasksInv, Compose!SentWhereTyped
  <2> QED
    BY <2>2, <2>3, <2>4, <2>5 DEF ComposeInv, Compose!ComposeAgrees
<1>3. CASE Compose!Stay
  <2>1. /\ compose_selected' \in Channels \cup {None} /\ compose_drawn' = compose_selected' /\ sent' = None
        /\ UNCHANGED <<drafts, compose_tasks, compose_view, box, compose_mode, files, left, raced>>
    BY <1>0, <1>3 DEF Compose!Stay, Compose!Look, Compose!TypeOK
  <2> QED
    BY <1>0, <2>1 DEF ComposeInv, Compose!ComposeAgrees, Compose!TypeOK, Compose!BoxIsOfView, Compose!DraftsAreOwn, Compose!DraftsKept,
       Compose!SentWhereTyped, TasksInv, Compose!Pending
<1>4. CASE Compose!Switch
  <2>1. /\ compose_selected # compose_view /\ compose_view' = compose_selected /\ compose_mode' = "new"
        /\ compose_selected' \in Channels \cup {None} /\ compose_drawn' = compose_selected' /\ sent' = None
        /\ UNCHANGED <<drafts, files>>
        /\ box' = IF compose_selected = None THEN Compose!Empty ELSE drafts[compose_selected]
    BY <1>0, <1>4 DEF Compose!Switch, Compose!Look, Compose!TypeOK
  <2>2. /\ box' \in {Compose!Empty, Compose!Remnant} \cup {Compose!New(c) : c \in {compose_selected} \ {None}}
        /\ box' \in Compose!Texts
    BY <1>0, <1>00, <2>1 DEF Compose!DraftsAreOwn, Compose!TypeOK
  <2>3. Compose!BoxIsOfView'
    BY <2>1, <2>2, TextsApart DEF Compose!BoxIsOfView
  <2>4. Compose!DraftsKept' /\ TasksInv' /\ raced' \subseteq Channels /\ left' \in [Channels -> Compose!Texts]
        /\ compose_tasks' \subseteq [channel : Channels, text : Compose!Texts]
    <3>1. CASE compose_view = None
      <4>1. UNCHANGED <<compose_tasks, left, raced>>
        BY <1>4, <3>1 DEF Compose!Switch
      <4> QED
        BY <1>0, <2>1, <3>1, <4>1 DEF Compose!DraftsKept, TasksInv, Compose!Pending, Compose!TypeOK, ComposeAssumption
    <3>2. CASE compose_view # None
      <4>1. Compose!Spawn(compose_view, Compose!AfterEdit(box)) /\ left' = [left EXCEPT ![compose_view] = Compose!AfterEdit(box)]
        BY <1>4, <3>2 DEF Compose!Switch
      <4>2. compose_view \in Channels
        BY <1>0, <3>2 DEF Compose!TypeOK
      <4>3. Compose!AfterEdit(box) \in {Compose!Empty, Compose!Remnant, Compose!New(compose_view)} /\ Compose!AfterEdit(box) \in Compose!Texts
        BY <1>0, LeftBehind DEF Compose!TypeOK, Compose!BoxIsOfView
      <4>4. left' \in [Channels -> Compose!Texts]
        BY <1>0, <4>1, <4>3 DEF Compose!TypeOK
      <4> QED
        BY <2>1, <4>1, <4>2, <4>3, <4>4, Spawning
    <3> QED
      BY <3>1, <3>2
  <2>5. Compose!TypeOK' /\ Compose!DraftsAreOwn' /\ Compose!SentWhereTyped'
    BY <1>0, <2>1, <2>2, <2>4 DEF Compose!TypeOK, Compose!DraftsAreOwn, Compose!SentWhereTyped
  <2> QED
    BY <2>3, <2>4, <2>5 DEF ComposeInv, Compose!ComposeAgrees
<1>5. CASE Compose!Type \/ Compose!Erase \/ Compose!PickFile \/ Compose!RemoveFile \/ Compose!AskReply \/ Compose!AskEdit \/ Compose!CancelReply \/ Compose!CancelEdit
  <2>1. Compose!Drawing
    BY <1>5 DEF Compose!Type, Compose!Erase, Compose!PickFile, Compose!RemoveFile, Compose!AskReply, Compose!AskEdit, Compose!CancelReply, Compose!CancelEdit
  <2> QED
    BY <1>5, <2>1, BoxStep
<1>6. CASE Compose!Send
  <2>1. /\ compose_drawn \in Channels /\ Compose!Spawn(compose_drawn, Compose!Empty) /\ box' = Compose!Empty /\ files' = FALSE /\ compose_mode' = "new"
        /\ sent' \in {None, Compose!Request}
        /\ UNCHANGED <<compose_selected, drafts, compose_drawn, compose_view, left>>
    BY <1>0, <1>6 DEF Compose!Send, Compose!Drawing, Compose!TypeOK
  <2>2. Compose!Request \in Compose!Requests
    BY <1>0, <2>1 DEF Compose!Request, Compose!Requests, Compose!TypeOK
  <2>3. Compose!DraftsKept' /\ TasksInv' /\ raced' \subseteq Channels
        /\ compose_tasks' \subseteq [channel : Channels, text : Compose!Texts]
    BY <2>1, Spawning
  <2>4. Compose!TypeOK'
    BY <1>0, <1>00, <2>1, <2>2, <2>3 DEF Compose!TypeOK
  <2>5. Compose!BoxIsOfView' /\ Compose!DraftsAreOwn'
    BY <1>0, <2>1, TextsApart DEF Compose!BoxIsOfView, Compose!DraftsAreOwn
  <2>6. Compose!SentWhereTyped'
    <3>1. /\ Compose!Request.torn = (compose_drawn # compose_view) /\ Compose!Request.update = (compose_mode = "edit")
          /\ Compose!Request.text = box /\ Compose!Request.channel = compose_drawn
      BY DEF Compose!Request
    <3>2. compose_drawn = compose_view => box \in {Compose!Empty, Compose!Remnant, IF compose_mode = "edit" THEN Compose!Edit(compose_drawn) ELSE Compose!New(compose_drawn)}
      BY <1>0, TextCases DEF Compose!TypeOK, Compose!BoxIsOfView
    <3>3. CASE sent' = None
      BY <3>3 DEF Compose!SentWhereTyped
    <3>4. CASE sent' = Compose!Request
      <4> HIDE DEF Compose!Request
      <4> QED
        BY <3>1, <3>2, <3>4 DEF Compose!SentWhereTyped
    <3> QED
      BY <2>1, <3>3, <3>4
  <2> QED
    BY <2>3, <2>4, <2>5, <2>6 DEF ComposeInv, Compose!ComposeAgrees
<1>7. CASE UNCHANGED Compose!vars
  BY <1>0, <1>7 DEF Compose!vars, ComposeInv, Compose!ComposeAgrees, Compose!TypeOK, Compose!BoxIsOfView, Compose!DraftsAreOwn, Compose!DraftsKept,
     Compose!SentWhereTyped, TasksInv, Compose!Pending
<1> QED
  BY <1>1, <1>2, <1>3, <1>4, <1>5, <1>6, <1>7 DEF Compose!Next

(* For any channels and any number of tasks: the box holds what was typed  *)
(* for the channel in view, a channel that was left finds its draft again, *)
(* and a request takes to a channel only what was typed for it, but for    *)
(* the channels and the torn frames excepted.                              *)
THEOREM ComposeSound ==
    ASSUME ComposeAssumption
    PROVE  Compose!Spec => [](Compose!TypeOK /\ Compose!ComposeAgrees)
<1>1. Compose!Init => ComposeInv
  BY ComposeInitially
<1>2. ComposeInv /\ [Compose!Next]_(Compose!vars) => ComposeInv'
  BY ComposeStep
<1>3. ComposeInv => Compose!TypeOK /\ Compose!ComposeAgrees
  BY DEF ComposeInv
<1> QED
  BY <1>1, <1>2, <1>3, PTL DEF Compose!Spec

-----------------------------------------------------------------------------
(* Selecting channels (Navigation).                                        *)

(* None names nothing, and Dm is no community.                             *)
NavAssumption == None \notin Communities \cup {Dm} /\ Dm \notin Communities

NavFits == channel # None => community = Nav!CommunityOf(channel)

(* What a task is to select goes together, whatever the others do.         *)
TaskFits(t) ==
    nav_tasks[t] # Nav!Idle =>
        /\ nav_tasks[t].kind # "none"
        /\ nav_tasks[t].next = "start" => nav_tasks[t].kind \in {"switch", "search", "dm"}
        /\ nav_tasks[t].next = "choose" => nav_tasks[t].kind = "restore"
        /\ nav_tasks[t].next \in {"list", "choose"} => nav_tasks[t].community # None
        /\ nav_tasks[t].next \in {"channel", "page", "subscribe"} => nav_tasks[t].channel # None
        /\ nav_tasks[t].kind \in {"switch", "search", "dm", "channel"} => nav_tasks[t].channel # None
        /\ nav_tasks[t].community # None /\ nav_tasks[t].channel # None =>
               Nav!CommunityOf(nav_tasks[t].channel) = nav_tasks[t].community
        /\ nav_tasks[t].community = None =>
               nav_tasks[t].kind \in {"dm", "search"} /\ (nav_tasks[t].channel = Dm \/ crossed)

(* How far the only selection has come.                                    *)
StageFits(t) ==
    nav_tasks[t] # Nav!Idle =>
        /\ nav_tasks[t].next \in {"start", "page", "subscribe"} => NavFits
        /\ nav_tasks[t].next \in {"list", "choose"} => channel = None /\ community = nav_tasks[t].community
        /\ nav_tasks[t].next = "channel" => community = Nav!CommunityOf(nav_tasks[t].channel)

Served ==
    channel # None =>
        \/ channel \in stream
        \/ \E t \in Nav!Tasks : nav_tasks[t].channel = channel /\ nav_tasks[t].next \in {"page", "subscribe"}

NavInv ==
    /\ Nav!TypeOK
    /\ \A t \in Nav!Tasks : TaskFits(t)
    /\ ~crossed => /\ \A t, u \in Nav!Tasks : Nav!Selecting(t) /\ Nav!Selecting(u) => t = u
                   /\ \A t \in Nav!Tasks : StageFits(t)
                   /\ Nav!Quiet => NavFits
    /\ Served

NavState == [kind : Nav!Kinds, community : Communities \cup {None}, channel : Nav!Channels \cup {None}, next : Nav!Steps]

(* A task that begins, goes on or ends: what holds of it afterwards is all  *)
(* there is to see to, the rest being as before.                           *)
LEMMA NavMove ==
    ASSUME NavInv, Nav!TypeOK', NEW t \in Nav!Tasks, NEW new \in NavState,
           nav_tasks' = [nav_tasks EXCEPT ![t] = new],
           ~crossed' => (~crossed /\ Nav!Selecting(t)) \/ Nav!Alone(t),
           crossed => crossed' \/ Nav!Alone(t),
           TaskFits(t)',
           ~crossed' => StageFits(t)' /\ (new = Nav!Idle => NavFits'),
           Served'
    PROVE  NavInv'
<1>1. /\ nav_tasks'[t] = new
      /\ \A u \in Nav!Tasks : u # t => nav_tasks'[u] = nav_tasks[u]
  BY DEF NavInv, Nav!TypeOK
<1>2. \A u \in Nav!Tasks : TaskFits(u)'
  <2> SUFFICES ASSUME NEW u \in Nav!Tasks, u # t PROVE TaskFits(u)'
    OBVIOUS
  <2>1. CASE Nav!Alone(t)
    <3>1. nav_tasks[u] = Nav!Idle
      BY <2>1 DEF Nav!Alone, Nav!Selecting
    <3> QED
      BY <1>1, <3>1 DEF TaskFits, Nav!Idle
  <2>2. CASE ~Nav!Alone(t)
    BY <1>1, <2>2 DEF TaskFits, NavInv, Nav!Idle
  <2> QED
    BY <2>1, <2>2
<1>3. ASSUME ~crossed' PROVE \A u \in Nav!Tasks : u # t => nav_tasks'[u] = Nav!Idle
  <2>1. CASE ~crossed /\ Nav!Selecting(t)
    BY <1>1, <2>1 DEF NavInv, Nav!Selecting
  <2>2. CASE Nav!Alone(t)
    BY <1>1, <2>2 DEF Nav!Alone, Nav!Selecting
  <2> QED
    BY <1>3, <2>1, <2>2
<1>4. ~crossed' => \A u, w \in Nav!Tasks : Nav!Selecting(u)' /\ Nav!Selecting(w)' => u = w
  BY <1>3 DEF Nav!Selecting, Nav!Idle
<1>5. ~crossed' => \A u \in Nav!Tasks : StageFits(u)'
  BY <1>3 DEF StageFits, Nav!Idle
<1>6. ~crossed' => (Nav!Quiet' => NavFits')
  BY <1>1 DEF Nav!Quiet, Nav!Selecting, Nav!Idle
<1> QED
  BY <1>2, <1>4, <1>5, <1>6 DEF NavInv

(* A click, or the restore, spawns its task.                               *)
LEMMA NavSpawn ==
    ASSUME NavAssumption, NavInv, NEW t \in Nav!Tasks, Nav!Untouched,
           saved' \in Communities \cup {None}, restored' \in BOOLEAN, crossed' \in BOOLEAN,
           NEW kind \in Nav!Kinds, NEW c \in Communities \cup {None}, NEW ch \in Nav!Channels \cup {None},
           NEW step \in {"start", "community", "channel"}, Nav!Spawn(t, kind, c, ch, step),
           ~crossed' => ~crossed /\ Nav!Quiet,
           kind # "none",
           step = "start" => kind \in {"switch", "search", "dm"},
           step = "channel" => ch # None /\ community = Nav!CommunityOf(ch),
           kind \in {"switch", "search", "dm", "channel"} => ch # None,
           c # None /\ ch # None => Nav!CommunityOf(ch) = c,
           c = None => kind \in {"dm", "search"} /\ (ch = Dm \/ crossed')
    PROVE  NavInv'
<1> DEFINE new == [kind |-> kind, community |-> c, channel |-> ch, next |-> step]
<1>1. /\ nav_tasks[t] = Nav!Idle /\ nav_tasks' = [nav_tasks EXCEPT ![t] = new] /\ new \in NavState
      /\ new.kind = kind /\ new.community = c /\ new.channel = ch /\ new.next = step
      /\ UNCHANGED <<known, channels, community, channel, socket, stream, connecting>>
      /\ Nav!TypeOK
  BY DEF Nav!Spawn, Nav!Untouched, NavInv, NavState, Nav!Steps
<1> HIDE DEF new
<1>2. nav_tasks'[t] = new
  BY <1>1 DEF Nav!TypeOK
<1>3. Nav!TypeOK'
  BY <1>1 DEF Nav!TypeOK, NavState
<1>4. TaskFits(t)'
  BY <1>1, <1>2 DEF TaskFits, Nav!CommunityOf
<1>5. ~crossed' => StageFits(t)' /\ (new = Nav!Idle => NavFits')
  BY <1>1, <1>2 DEF StageFits, NavInv, NavFits, Nav!Idle, Nav!CommunityOf
<1>6. Served'
  <2> SUFFICES ASSUME channel # None, channel \notin stream
               PROVE  \E u \in Nav!Tasks : nav_tasks'[u].channel = channel /\ nav_tasks'[u].next \in {"page", "subscribe"}
    BY <1>1 DEF Served
  <2>1. PICK u \in Nav!Tasks : nav_tasks[u].channel = channel /\ nav_tasks[u].next \in {"page", "subscribe"}
    BY <1>1 DEF Served, NavInv
  <2>2. u # t
    BY <1>1, <2>1 DEF Nav!Idle
  <2> QED
    BY <1>1, <2>1, <2>2 DEF Nav!TypeOK
<1>7. ~crossed' => Nav!Alone(t)
  BY DEF Nav!Alone, Nav!Quiet
<1>8. (crossed => crossed' \/ Nav!Alone(t))
  BY <1>7
<1> QED
  BY <1>1, <1>3, <1>4, <1>5, <1>6, <1>7, <1>8, NavMove

(* NavInv holds at first.                                                  *)
LEMMA NavInitially == NavAssumption /\ Nav!Init => NavInv
<1> SUFFICES ASSUME NavAssumption, Nav!Init PROVE NavInv
  OBVIOUS
<1>1. Nav!TypeOK
  BY DEF Nav!Init, Nav!TypeOK, Nav!Idle, Nav!Kinds, Nav!Steps
<1> QED
  BY <1>1 DEF Nav!Init, NavInv, TaskFits, StageFits, Served, Nav!Selecting, NavFits, Nav!Idle

(* What others have in hand when t goes on.                                *)
LEMMA NavServed ==
    ASSUME NavInv, NEW t \in Nav!Tasks, NEW new \in NavState, nav_tasks' = [nav_tasks EXCEPT ![t] = new],
           channel' = channel, stream' = stream,
           nav_tasks[t].next \in {"page", "subscribe"} =>
               new.channel = nav_tasks[t].channel /\ new.next \in {"page", "subscribe"}
    PROVE  Served'
<1> SUFFICES ASSUME channel # None, channel \notin stream
             PROVE  \E u \in Nav!Tasks : nav_tasks'[u].channel = channel /\ nav_tasks'[u].next \in {"page", "subscribe"}
  BY DEF Served
<1>1. PICK u \in Nav!Tasks : nav_tasks[u].channel = channel /\ nav_tasks[u].next \in {"page", "subscribe"}
  BY DEF Served, NavInv
<1> QED
  BY <1>1 DEF NavInv, Nav!TypeOK

(* Every step of a task keeps NavInv, whatever the other tasks are at.     *)
LEMMA NavTask ==
    ASSUME NavAssumption, NavInv, NEW t \in Nav!Tasks,
           \/ Nav!StartSwitch(t) \/ Nav!StartDm(t) \/ Nav!ClearCommunity(t) \/ Nav!SelectCommunity(t)
           \/ Nav!ListChannels(t) \/ Nav!Choose(t) \/ Nav!SelectChannel(t) \/ Nav!GetPage(t) \/ Nav!Subscribe(t)
    PROVE  NavInv'
<1>0. /\ Nav!TypeOK /\ TaskFits(t) /\ (~crossed => StageFits(t)) /\ nav_tasks[t] \in NavState
      /\ Nav!Idle \in NavState
  BY DEF NavInv, Nav!TypeOK, NavState, Nav!Idle, Nav!Kinds, Nav!Steps
<1>1. /\ Nav!Selecting(t)
      /\ UNCHANGED <<known, socket, saved, restored, connecting>>
      /\ crossed' \in BOOLEAN
      /\ crossed' => crossed
      /\ ~crossed' => (~crossed /\ Nav!Selecting(t)) \/ Nav!Alone(t)
  <2>1. Nav!Selecting(t)
    <3>1. nav_tasks[t].kind # "none" \/ nav_tasks[t].next # "start"
      BY DEF Nav!StartSwitch, Nav!StartDm, Nav!ClearCommunity, Nav!SelectCommunity, Nav!ListChannels, Nav!Choose,
         Nav!SelectChannel, Nav!GetPage, Nav!Subscribe, Nav!Is
    <3> QED
      BY <3>1 DEF Nav!Selecting, Nav!Idle
  <2>2. CASE Nav!ClearCommunity(t)
    BY <1>0, <2>1, <2>2 DEF Nav!ClearCommunity, Nav!Kept, Nav!TypeOK
  <2>3. CASE Nav!SelectCommunity(t)
    BY <1>0, <2>1, <2>3 DEF Nav!SelectCommunity, Nav!Kept, Nav!TypeOK
  <2>4. CASE crossed' = crossed
    BY <1>0, <2>1, <2>4 DEF Nav!StartSwitch, Nav!StartDm, Nav!ClearCommunity, Nav!SelectCommunity, Nav!ListChannels, Nav!Choose,
       Nav!SelectChannel, Nav!GetPage, Nav!Subscribe, Nav!Same, Nav!Kept, Nav!TypeOK
  <2>5. CASE ~(Nav!ClearCommunity(t) \/ Nav!SelectCommunity(t))
    <3>1. crossed' = crossed
      BY <2>5 DEF Nav!StartSwitch, Nav!StartDm, Nav!ListChannels, Nav!Choose, Nav!SelectChannel, Nav!GetPage, Nav!Subscribe, Nav!Same
    <3> QED
      BY <3>1, <2>4
  <2> QED
    BY <2>2, <2>3, <2>5
<1> DEFINE goes(step) == [nav_tasks[t] EXCEPT !.next = step]
<1>2. \A step \in Nav!Steps : /\ goes(step) \in NavState /\ goes(step).next = step
                              /\ goes(step).kind = nav_tasks[t].kind
                              /\ goes(step).community = nav_tasks[t].community
                              /\ goes(step).channel = nav_tasks[t].channel
  BY <1>0 DEF NavState
<1>3. \A step : Nav!Goes(t, step) => nav_tasks' = [nav_tasks EXCEPT ![t] = goes(step)]
  BY <1>0 DEF Nav!Goes
<1> HIDE DEF goes
<1>4. \A step : goes(step) # Nav!Idle \/ nav_tasks[t].kind = "none" \/ step \notin Nav!Steps
  BY <1>2 DEF Nav!Idle
<1>5. nav_tasks[t].kind # "none"
  BY <1>0, <1>1 DEF TaskFits, Nav!Selecting
<1>6. ASSUME NEW new, new \in NavState, nav_tasks' = [nav_tasks EXCEPT ![t] = new] PROVE nav_tasks'[t] = new /\ nav_tasks' \in [Nav!Tasks -> NavState]
  BY <1>0, <1>6 DEF Nav!TypeOK, NavState
<1>7. CASE Nav!StartSwitch(t)
  <2>1. PICK step \in {"community", "channel"} : /\ nav_tasks' = [nav_tasks EXCEPT ![t] = goes(step)]
                                                 /\ step = "channel" => community = nav_tasks[t].community
    BY <1>3, <1>7 DEF Nav!StartSwitch, Nav!NeedsCommunity
  <2>2. /\ goes(step) \in NavState /\ nav_tasks'[t] = goes(step) /\ nav_tasks[t].next = "start"
        /\ UNCHANGED <<channels, community, channel, stream, crossed>>
        /\ nav_tasks[t].kind \in {"switch", "search"} /\ nav_tasks[t].community # None
    BY <1>2, <1>6, <1>7, <2>1 DEF Nav!StartSwitch, Nav!Same, Nav!Steps, Nav!Is
  <2>3. Nav!TypeOK'
    BY <1>0, <1>1, <1>6, <2>1, <2>2 DEF Nav!TypeOK, NavState
  <2>4. TaskFits(t)'
    BY <1>0, <1>1, <1>2, <2>2 DEF TaskFits, Nav!Selecting, Nav!Steps, Nav!CommunityOf
  <2>5. ~crossed' => StageFits(t)'
    BY <1>0, <1>1, <1>2, <2>1, <2>2 DEF StageFits, TaskFits, Nav!Selecting, Nav!Steps
  <2>6. Served'
    BY <2>1, <2>2, NavServed
  <2> QED
    BY <1>1, <1>2, <1>4, <1>5, <2>1, <2>2, <2>3, <2>4, <2>5, <2>6, NavMove DEF Nav!Steps
<1>8. CASE Nav!StartDm(t)
  <2>1. /\ nav_tasks[t].next = "start" /\ nav_tasks[t].kind = "dm"
        /\ UNCHANGED <<channels, community, channel, stream, crossed>>
    BY <1>8 DEF Nav!StartDm, Nav!Same, Nav!Is
  <2>2. PICK new \in {goes("community"), Nav!Idle} : nav_tasks' = [nav_tasks EXCEPT ![t] = new]
    BY <1>3, <1>8 DEF Nav!StartDm, Nav!Ends
  <2>3. new \in NavState /\ nav_tasks'[t] = new
    BY <1>0, <1>2, <1>6, <2>2 DEF Nav!Steps
  <2>4. Nav!TypeOK'
    BY <1>0, <1>1, <1>6, <2>1, <2>2, <2>3 DEF Nav!TypeOK, NavState
  <2>5. TaskFits(t)'
    BY <1>0, <1>1, <1>2, <2>1, <2>2, <2>3 DEF TaskFits, Nav!Selecting, Nav!Steps, Nav!CommunityOf
  <2>6. ~crossed' => StageFits(t)' /\ (new = Nav!Idle => NavFits')
    BY <1>0, <1>1, <1>2, <2>1, <2>2, <2>3 DEF StageFits, Nav!Selecting, Nav!Steps, NavFits
  <2>7. Served'
    BY <2>1, <2>2, <2>3, NavServed
  <2> QED
    BY <1>1, <2>1, <2>2, <2>3, <2>4, <2>5, <2>6, <2>7, NavMove
<1>9. CASE Nav!ClearCommunity(t)
  <2>1. /\ nav_tasks[t].community = None
        /\ \/ nav_tasks[t].kind = "dm" /\ nav_tasks[t].next = "community"
           \/ nav_tasks[t].kind = "search" /\ nav_tasks[t].next = "start"
        /\ community' = None /\ channels' \in {channels, channels \cup {Dm}}
        /\ nav_tasks' = [nav_tasks EXCEPT ![t] = goes("channel")]
        /\ crossed' = (crossed /\ ~(Nav!Alone(t) /\ nav_tasks[t].channel = Dm))
        /\ UNCHANGED <<channel, stream>>
    BY <1>3, <1>9 DEF Nav!ClearCommunity, Nav!Is
  <2>3. goes("channel") \in NavState /\ nav_tasks'[t] = goes("channel")
    BY <1>0, <1>2, <1>6, <2>1 DEF Nav!Steps
  <2>4. Nav!TypeOK'
    BY <1>0, <1>1, <1>6, <2>1, <2>3 DEF Nav!TypeOK, NavState, Nav!Channels
  <2>5. TaskFits(t)'
    BY <1>0, <1>1, <1>2, <2>1, <2>3 DEF TaskFits, Nav!Selecting, Nav!Steps, Nav!CommunityOf
  <2>6. ~crossed' => StageFits(t)'
    BY <1>0, <1>1, <1>2, <2>1, <2>3 DEF StageFits, TaskFits, Nav!Selecting, Nav!Steps, Nav!CommunityOf
  <2>7. Served'
    BY <2>1, <2>3, NavServed
  <2> QED
    BY <1>1, <1>2, <1>4, <1>5, <2>1, <2>3, <2>4, <2>5, <2>6, <2>7, NavMove DEF Nav!Steps
<1>10. CASE Nav!SelectCommunity(t)
  <2>1. /\ nav_tasks[t].kind \in {"restore", "community", "switch", "search"} /\ nav_tasks[t].next = "community"
        /\ nav_tasks[t].community # None /\ community' = nav_tasks[t].community /\ channel' = None
        /\ nav_tasks' = [nav_tasks EXCEPT ![t] = goes("list")]
        /\ UNCHANGED <<channels, stream>>
    BY <1>3, <1>10 DEF Nav!SelectCommunity, Nav!Is
  <2>3. goes("list") \in NavState /\ nav_tasks'[t] = goes("list")
    BY <1>0, <1>2, <1>6, <2>1 DEF Nav!Steps
  <2>4. Nav!TypeOK'
    BY <1>0, <1>1, <1>6, <2>1, <2>3 DEF Nav!TypeOK, NavState, Nav!Channels
  <2>5. TaskFits(t)'
    BY <1>0, <1>1, <1>2, <2>1, <2>3 DEF TaskFits, Nav!Selecting, Nav!Steps, Nav!CommunityOf
  <2>6. ~crossed' => StageFits(t)'
    BY <1>0, <1>1, <1>2, <2>1, <2>3 DEF StageFits, TaskFits, Nav!Selecting, Nav!Steps
  <2>7. Served'
    BY <2>1 DEF Served
  <2> QED
    BY <1>1, <1>2, <1>4, <1>5, <2>1, <2>3, <2>4, <2>5, <2>6, <2>7, NavMove DEF Nav!Steps
<1>11. CASE Nav!ListChannels(t)
  <2>1. /\ nav_tasks[t].next = "list" /\ nav_tasks[t].community # None
        /\ channels' \in {channels, channels \cup {nav_tasks[t].community}}
        /\ UNCHANGED <<community, channel, stream, crossed>>
    BY <1>0, <1>1, <1>11 DEF Nav!ListChannels, Nav!Is, Nav!Same, TaskFits, Nav!Selecting
  <2>2. PICK new \in {goes("choose"), goes("channel"), Nav!Idle} :
           /\ nav_tasks' = [nav_tasks EXCEPT ![t] = new]
           /\ new = goes("choose") => nav_tasks[t].kind = "restore"
           /\ new = goes("channel") => nav_tasks[t].kind \notin {"restore", "community"}
    <3>1. goes("choose") # goes("channel") /\ goes("choose") # Nav!Idle /\ goes("channel") # Nav!Idle
      BY <1>2 DEF Nav!Steps, Nav!Idle
    <3>2. \/ nav_tasks[t].kind = "restore" /\ Nav!Goes(t, "choose")
          \/ nav_tasks[t].kind \notin {"restore", "community"} /\ Nav!Goes(t, "channel")
          \/ Nav!Ends(t)
      BY <1>11 DEF Nav!ListChannels
    <3> QED
      BY <1>3, <3>1, <3>2 DEF Nav!Ends
  <2>3. new \in NavState /\ nav_tasks'[t] = new
    BY <1>0, <1>2, <1>6, <2>2 DEF Nav!Steps
  <2>4. Nav!TypeOK'
    BY <1>0, <1>1, <1>6, <2>1, <2>2, <2>3 DEF Nav!TypeOK, NavState, Nav!Channels
  <2>5. TaskFits(t)'
    BY <1>0, <1>1, <1>2, <1>5, <2>1, <2>2, <2>3 DEF TaskFits, Nav!Selecting, Nav!Steps, Nav!CommunityOf, NavState, Nav!Kinds
  <2>6. ~crossed' => StageFits(t)' /\ (new = Nav!Idle => NavFits')
    BY <1>0, <1>1, <1>2, <2>1, <2>2, <2>3, <2>5 DEF StageFits, TaskFits, Nav!Selecting, Nav!Steps, NavFits
  <2>7. Served'
    BY <2>1, <2>2, <2>3, NavServed
  <2> QED
    BY <1>1, <2>1, <2>2, <2>3, <2>4, <2>5, <2>6, <2>7, NavMove
<1>12. CASE Nav!Choose(t)
  <2> DEFINE new == [nav_tasks[t] EXCEPT !.next = "channel", !.channel = nav_tasks[t].community]
  <2>1. /\ nav_tasks[t].kind = "restore" /\ nav_tasks[t].next = "choose" /\ nav_tasks[t].community # None
        /\ nav_tasks' = [nav_tasks EXCEPT ![t] = new]
        /\ UNCHANGED <<channels, community, channel, stream, crossed>>
    BY <1>0, <1>1, <1>12 DEF Nav!Choose, Nav!Is, Nav!Same, TaskFits, Nav!Selecting, Nav!TypeOK
  <2>2. /\ new \in NavState /\ new.next = "channel" /\ new.channel = nav_tasks[t].community
        /\ new.kind = "restore" /\ new.community = nav_tasks[t].community /\ new # Nav!Idle
    BY <1>0, <2>1 DEF NavState, Nav!Channels, Nav!Steps, Nav!Idle
  <2> HIDE DEF new
  <2>3. nav_tasks'[t] = new
    BY <1>6, <2>1, <2>2
  <2>4. Nav!TypeOK'
    BY <1>0, <1>1, <1>6, <2>1, <2>2, <2>3 DEF Nav!TypeOK, NavState
  <2>8. Nav!CommunityOf(nav_tasks[t].community) = nav_tasks[t].community
    BY <1>0, <2>1 DEF Nav!CommunityOf, NavAssumption, NavState
  <2>5. TaskFits(t)'
    BY <1>0, <1>1, <2>1, <2>2, <2>3, <2>8 DEF TaskFits, Nav!Selecting, Nav!CommunityOf
  <2>6. ~crossed' => StageFits(t)'
    BY <1>0, <1>1, <2>1, <2>2, <2>3, <2>8 DEF StageFits, Nav!Selecting, Nav!CommunityOf
  <2>7. Served'
    BY <2>1, <2>2, NavServed
  <2> QED
    BY <1>1, <2>1, <2>2, <2>3, <2>4, <2>5, <2>6, <2>7, NavMove
<1>13. CASE Nav!SelectChannel(t)
  <2>1. /\ nav_tasks[t].next = "channel" /\ channel' = nav_tasks[t].channel
        /\ nav_tasks' = [nav_tasks EXCEPT ![t] = goes("page")]
        /\ UNCHANGED <<channels, community, stream, crossed>>
    BY <1>3, <1>13 DEF Nav!SelectChannel, Nav!Is, Nav!Same
  <2>3. goes("page") \in NavState /\ nav_tasks'[t] = goes("page")
    BY <1>0, <1>2, <1>6, <2>1 DEF Nav!Steps
  <2>4. Nav!TypeOK'
    BY <1>0, <1>1, <1>6, <2>1, <2>3 DEF Nav!TypeOK, NavState
  <2>5. TaskFits(t)'
    BY <1>0, <1>1, <1>2, <2>1, <2>3 DEF TaskFits, Nav!Selecting, Nav!Steps, Nav!CommunityOf
  <2>6. ~crossed' => StageFits(t)'
    BY <1>0, <1>1, <1>2, <2>1, <2>3 DEF StageFits, Nav!Selecting, Nav!Steps, NavFits, Nav!CommunityOf
  <2>7. Served'
    BY <1>2, <2>1, <2>3 DEF Served, Nav!Steps
  <2> QED
    BY <1>1, <1>2, <1>4, <1>5, <2>1, <2>3, <2>4, <2>5, <2>6, <2>7, NavMove DEF Nav!Steps
<1>14. CASE Nav!GetPage(t)
  <2>1. /\ nav_tasks[t].next = "page" /\ nav_tasks' = [nav_tasks EXCEPT ![t] = goes("subscribe")]
        /\ UNCHANGED <<channels, community, channel, stream, crossed>>
    BY <1>3, <1>14 DEF Nav!GetPage, Nav!Is, Nav!Same
  <2>3. goes("subscribe") \in NavState /\ nav_tasks'[t] = goes("subscribe")
    BY <1>0, <1>2, <1>6, <2>1 DEF Nav!Steps
  <2>4. Nav!TypeOK'
    BY <1>0, <1>1, <1>6, <2>1, <2>3 DEF Nav!TypeOK, NavState
  <2>5. TaskFits(t)'
    BY <1>0, <1>1, <1>2, <2>1, <2>3 DEF TaskFits, Nav!Selecting, Nav!Steps, Nav!CommunityOf
  <2>6. ~crossed' => StageFits(t)'
    BY <1>0, <1>1, <1>2, <2>1, <2>3 DEF StageFits, Nav!Selecting, Nav!Steps, NavFits
  <2>7. Served'
    BY <1>2, <2>1, <2>3, NavServed DEF Nav!Steps
  <2> QED
    BY <1>1, <1>2, <1>4, <1>5, <2>1, <2>3, <2>4, <2>5, <2>6, <2>7, NavMove DEF Nav!Steps
<1>15. CASE Nav!Subscribe(t)
  <2>1. /\ nav_tasks[t].next = "subscribe" /\ nav_tasks[t].channel # None /\ nav_tasks' = [nav_tasks EXCEPT ![t] = Nav!Idle]
        /\ stream' = stream \cup {nav_tasks[t].channel}
        /\ UNCHANGED <<channels, community, channel, crossed>>
    BY <1>0, <1>1, <1>15 DEF Nav!Subscribe, Nav!Is, Nav!Same, Nav!Ends, TaskFits, Nav!Selecting
  <2>3. Nav!Idle \in NavState /\ nav_tasks'[t] = Nav!Idle
    BY <1>0, <1>6, <2>1
  <2>4. Nav!TypeOK'
    BY <1>0, <1>1, <1>6, <2>1, <2>3 DEF Nav!TypeOK, NavState
  <2>6. ~crossed' => StageFits(t)' /\ NavFits'
    BY <1>0, <1>1, <2>1, <2>3 DEF StageFits, Nav!Selecting, NavFits
  <2>7. Served'
    <3> SUFFICES ASSUME channel # None, channel \notin stream'
                 PROVE  \E u \in Nav!Tasks : nav_tasks'[u].channel = channel /\ nav_tasks'[u].next \in {"page", "subscribe"}
      BY <2>1 DEF Served
    <3>1. PICK u \in Nav!Tasks : nav_tasks[u].channel = channel /\ nav_tasks[u].next \in {"page", "subscribe"}
      BY <2>1 DEF Served, NavInv
    <3>2. u # t
      BY <2>1, <3>1
    <3> QED
      BY <1>0, <2>1, <3>1, <3>2 DEF Nav!TypeOK
  <2> QED
    BY <1>1, <2>1, <2>3, <2>4, <2>6, <2>7, NavMove DEF TaskFits
<1> QED
  BY <1>7, <1>8, <1>9, <1>10, <1>11, <1>12, <1>13, <1>14, <1>15

(* A frame, and what happens after the login, leave the selection alone.   *)
LEMMA NavRest ==
    ASSUME NavInv, known' \subseteq Communities, saved' \in Communities \cup {None},
           restored' \in BOOLEAN, socket' \in BOOLEAN,
           connecting' \in {"load", "connect", "again", "end"},
           UNCHANGED <<channels, community, channel, stream, nav_tasks, crossed>>
    PROVE  NavInv'
<1>1. Nav!TypeOK'
  BY DEF NavInv, Nav!TypeOK
<1> QED
  BY <1>1 DEF NavInv, TaskFits, StageFits, Served, Nav!Selecting, Nav!Quiet, NavFits

(* Every click, answer and step of a task keeps NavInv.                    *)
LEMMA NavStep == ASSUME NavAssumption, NavInv, [Nav!Next]_(Nav!vars) PROVE NavInv'
<1>0. Nav!TypeOK
  BY DEF NavInv
<1>1. CASE Nav!Load \/ Nav!Connect \/ Nav!LoadAgain \/ UNCHANGED Nav!vars \/ Nav!Frame
  <2>1. /\ known' \subseteq Communities /\ saved' \in Communities \cup {None}
        /\ restored' \in BOOLEAN /\ socket' \in BOOLEAN
        /\ connecting' \in {"load", "connect", "again", "end"}
        /\ UNCHANGED <<channels, community, channel, stream, nav_tasks, crossed>>
    BY <1>0, <1>1 DEF Nav!Load, Nav!Connect, Nav!LoadAgain, Nav!Frame, Nav!Untouched, Nav!vars, Nav!TypeOK
  <2> QED
    BY <2>1, NavRest
<1>2. CASE Nav!Restore
  <2>1. PICK c \in known : Nav!Spawn("restore", "restore", c, None, "community")
    BY <1>2 DEF Nav!Restore
  <2>2. c \in Communities /\ c # None /\ "restore" \in Nav!Tasks /\ "restore" \in Nav!Kinds
    BY <1>0, <2>1 DEF Nav!TypeOK, NavAssumption, Nav!Tasks, Nav!Kinds
  <2> QED
    BY <1>0, <1>2, <2>1, <2>2, NavSpawn DEF Nav!Restore, Nav!TypeOK
<1>3. ASSUME NEW t \in NavClicks, Nav!ClickCommunity(t) PROVE NavInv'
  <2>1. PICK c \in known : Nav!Spawn(t, "community", c, None, "community")
    BY <1>3 DEF Nav!ClickCommunity
  <2>2. c \in Communities /\ c # None /\ t \in Nav!Tasks /\ "community" \in Nav!Kinds
    BY <1>0, <2>1 DEF Nav!TypeOK, NavAssumption, Nav!Tasks, Nav!Kinds
  <2> QED
    BY <1>0, <1>3, <2>1, <2>2, NavSpawn DEF Nav!ClickCommunity, Nav!TypeOK
<1>4. ASSUME NEW t \in NavClicks, Nav!ClickChannel(t) PROVE NavInv'
  <2>1. PICK ch \in channels : /\ community # None /\ Nav!CommunityOf(ch) = community
                               /\ Nav!Spawn(t, "channel", community, ch, "channel")
    BY <1>4 DEF Nav!ClickChannel
  <2>2. ch \in Nav!Channels /\ ch # None /\ community \in Communities /\ t \in Nav!Tasks /\ "channel" \in Nav!Kinds
    BY <1>0, <2>1 DEF Nav!TypeOK, NavAssumption, Nav!Tasks, Nav!Kinds, Nav!Channels
  <2> QED
    BY <1>0, <1>4, <2>1, <2>2, NavSpawn DEF Nav!ClickChannel, Nav!TypeOK
<1>5. ASSUME NEW t \in NavClicks, Nav!ClickSwitcher(t) PROVE NavInv'
  <2>0. t \in Nav!Tasks /\ "dm" \in Nav!Kinds /\ "switch" \in Nav!Kinds /\ Dm \in Nav!Channels /\ Dm # None
    BY DEF Nav!Tasks, Nav!Kinds, Nav!Channels, NavAssumption
  <2>1. CASE Nav!Spawn(t, "dm", None, Dm, "start")
    BY <1>0, <1>5, <2>0, <2>1, NavSpawn DEF Nav!ClickSwitcher, Nav!TypeOK
  <2>2. ASSUME NEW ch \in known, ch # Dm, Nav!Spawn(t, "switch", ch, ch, "start") PROVE NavInv'
    <3>1. ch \in Communities /\ ch \in Nav!Channels /\ ch # None /\ Nav!CommunityOf(ch) = ch
      BY <1>0, <2>2 DEF Nav!TypeOK, NavAssumption, Nav!Channels, Nav!CommunityOf
    <3> QED
      BY <1>0, <1>5, <2>0, <2>2, <3>1, NavSpawn DEF Nav!ClickSwitcher, Nav!TypeOK
  <2> QED
    BY <1>5, <2>1, <2>2 DEF Nav!ClickSwitcher
<1>6. ASSUME NEW t \in NavClicks, Nav!ClickSearch(t) PROVE NavInv'
  <2>1. PICK ch \in Communities \cup {Dm} :
           LET c == IF ch \in channels THEN Nav!CommunityOf(ch) ELSE None IN
           /\ Nav!Spawn(t, "search", c, ch, "start")
           /\ crossed' = (crossed \/ ~Nav!Quiet \/ c # Nav!CommunityOf(ch))
    BY <1>6 DEF Nav!ClickSearch
  <2> DEFINE c == IF ch \in channels THEN Nav!CommunityOf(ch) ELSE None
  <2>2. /\ Nav!Spawn(t, "search", c, ch, "start") /\ crossed' = (crossed \/ ~Nav!Quiet \/ c # Nav!CommunityOf(ch))
    BY <2>1
  <2>3. /\ ch \in Nav!Channels /\ ch # None /\ c \in Communities \cup {None} /\ t \in Nav!Tasks
        /\ "search" \in Nav!Kinds /\ (c # None => Nav!CommunityOf(ch) = c)
        /\ Nav!CommunityOf(ch) = None => ch = Dm
    BY <2>1 DEF Nav!Channels, NavAssumption, Nav!CommunityOf, Nav!Tasks, Nav!Kinds
  <2>4. /\ crossed' \in BOOLEAN /\ (~crossed' => ~crossed /\ Nav!Quiet)
        /\ c = None => (ch = Dm \/ crossed')
    BY <1>0, <2>2, <2>3 DEF Nav!TypeOK
  <2>5. Nav!Untouched /\ saved' \in Communities \cup {None} /\ restored' \in BOOLEAN
    BY <1>0, <1>6 DEF Nav!ClickSearch, Nav!TypeOK
  <2> HIDE DEF c
  <2> QED
    BY <2>2, <2>3, <2>4, <2>5, NavSpawn
<1>7. ASSUME NEW t \in Nav!Tasks,
             \/ Nav!StartSwitch(t) \/ Nav!StartDm(t) \/ Nav!ClearCommunity(t) \/ Nav!SelectCommunity(t)
             \/ Nav!ListChannels(t) \/ Nav!Choose(t) \/ Nav!SelectChannel(t) \/ Nav!GetPage(t) \/ Nav!Subscribe(t)
      PROVE  NavInv'
  BY <1>7, NavTask
<1> QED
  BY <1>1, <1>2, <1>3, <1>4, <1>5, <1>6, <1>7 DEF Nav!Next

(* With no task on its way, NavInv is what is shown and what is            *)
(* subscribed.                                                             *)
LEMMA NavGives == NavInv => Nav!TypeOK /\ Nav!NavigationAgrees
<1> SUFFICES ASSUME NavInv, Nav!Quiet PROVE Nav!ChannelFits /\ Nav!ChannelServed
  BY DEF NavInv, Nav!NavigationAgrees
<1>1. \A t \in Nav!Tasks : nav_tasks[t].next = "start"
  BY DEF Nav!Quiet, Nav!Selecting, Nav!Idle
<1> QED
  BY <1>1 DEF NavInv, Nav!ChannelFits, Nav!ChannelServed, NavFits, Served

(* For any communities and any number of clicks: when the selections have  *)
(* come to rest, the stream of the channel shown was asked for, and unless *)
(* selections crossed the channel is one of the community shown.           *)
THEOREM NavigationSound ==
    ASSUME NavAssumption
    PROVE  Nav!Spec => [](Nav!TypeOK /\ Nav!NavigationAgrees)
<1>1. Nav!Init => NavInv
  BY NavInitially
<1>2. NavInv /\ [Nav!Next]_(Nav!vars) => NavInv'
  BY NavStep
<1>3. NavInv => Nav!TypeOK /\ Nav!NavigationAgrees
  BY NavGives
<1> QED
  BY <1>1, <1>2, <1>3, PTL DEF Nav!Spec

-----------------------------------------------------------------------------
(* The quick switcher and the message search (Pickers).                    *)

(* Some query may have a result.                                           *)
PickersAssumption == MaxResults \in Nat

(* While there is a list, the index is in it and it answers the query last *)
(* searched; a picker that is closed has no list.                          *)
PickersInv ==
    /\ Pick!TypeOK
    /\ Pick!PickersAgree
    /\ ~switcher.open => switcher = Pick!NoSwitcher
    /\ ~search.open => search = Pick!NoSearch

(* The operators on a picker.                                              *)
LEMMA LeastIn ==
    ASSUME NEW n \in Pick!Counts, NEW i \in Pick!Indexes, PickersAssumption
    PROVE  /\ Pick!Clamped(i, n) \in Pick!Indexes
           /\ n > 0 => Pick!Clamped(i, n) < n
  BY DEF Pick!Clamped, Pick!Least, Pick!Counts, Pick!Indexes, PickersAssumption

(* An index in a list stays in it when it is moved by one, as far as there *)
(* is room.                                                                *)
LEMMA Moved ==
    ASSUME NEW n \in Pick!Counts, NEW i \in Pick!Indexes, n > 0 => i < n, PickersAssumption
    PROVE  /\ n > 0 => /\ Pick!Least(i + 1, n - 1) \in Pick!Indexes
                       /\ Pick!Least(i + 1, n - 1) < n
           /\ i > 0 => i - 1 \in Pick!Indexes /\ (n > 0 => i - 1 < n)
  BY DEF Pick!Least, Pick!Counts, Pick!Indexes, PickersAssumption

(* PickersInv holds at first.                                              *)
LEMMA PickersInitially == PickersAssumption /\ Pick!Init => PickersInv
  BY DEF Pick!Init, PickersInv, PickersAssumption, Pick!TypeOK, Pick!PickersAgree, Pick!NoSwitcher, Pick!NoSearch, Pick!NoEntry,
         Pick!Texts, Pick!Counts, Pick!Indexes

Switcher == [open : BOOLEAN, typed : BOOLEAN, index : Pick!Indexes, results : Pick!Counts]
Search == [open : BOOLEAN, query : Pick!Texts, last : Pick!Texts, index : Pick!Indexes, results : Pick!Counts, of : Pick!Texts]

(* A switcher whose index is in its list, and a search with its list.      *)
GoodSwitcher(p) == p \in Switcher /\ (p.results > 0 => p.index < p.results)
GoodSearch(p)   == p \in Search /\ (p.results > 0 => p.index < p.results /\ p.of = p.last)

(* A switcher whose list is computed again has its index in the new list   *)
(* (quick_switcher.rs clamps it).                                          *)
LEMMA UpdatedGood ==
    ASSUME PickersAssumption, Pick!TypeOK, NEW n \in Pick!Counts
    PROVE  GoodSwitcher(Pick!Updated(n)) /\ Pick!Updated(n).open = switcher.open /\ Pick!Updated(n).results = n
<1>1. switcher.index \in Pick!Indexes
  BY DEF Pick!TypeOK
<1>2. Pick!Clamped(switcher.index, n) \in Pick!Indexes /\ (n > 0 => Pick!Clamped(switcher.index, n) < n)
  BY <1>1, LeastIn
<1> QED
  BY <1>2 DEF Pick!Updated, Pick!TypeOK, GoodSwitcher, Switcher

(* The arrow keys and the mouse leave the switcher's index in its list.    *)
LEMMA MovedSwitcher ==
    ASSUME PickersAssumption, NEW p, GoodSwitcher(p), NEW q \in {p, Pick!Up(p), Pick!Down(p)}, NEW h \in Pick!Hovered(q)
    PROVE  GoodSwitcher(h) /\ h.open = p.open
<1>0. p \in Switcher /\ p.index \in Pick!Indexes /\ p.results \in Pick!Counts
  BY DEF GoodSwitcher, Switcher
<1>1. GoodSwitcher(q) /\ q.open = p.open
  BY <1>0, Moved DEF GoodSwitcher, Switcher, Pick!Up, Pick!Down
<1> QED
  BY <1>1 DEF Pick!Hovered, GoodSwitcher, Switcher

(* They leave the index of the message search in its list.                 *)
LEMMA MovedSearch ==
    ASSUME PickersAssumption, NEW p, GoodSearch(p)
    PROVE  /\ \A q \in {p, Pick!Up(p), Pick!Down(p)} : GoodSearch(q) /\ q.open = p.open
           /\ \A h \in Pick!Hovered(p) : GoodSearch(h) /\ h.open = p.open
<1>0. p \in Search /\ p.index \in Pick!Indexes /\ p.results \in Pick!Counts
  BY DEF GoodSearch, Search
<1>1. \A q \in {p, Pick!Up(p), Pick!Down(p)} : GoodSearch(q) /\ q.open = p.open
  BY <1>0, Moved DEF GoodSearch, Search, Pick!Up, Pick!Down
<1> QED
  BY <1>1 DEF Pick!Hovered, GoodSearch, Search

(* A search that is done, or not needed, leaves the index in a list that   *)
(* answers the query.                                                      *)
LEMMA SearchedGood ==
    ASSUME PickersAssumption, NEW p, GoodSearch(p), NEW s \in Pick!Searched(p)
    PROVE  GoodSearch(s) /\ s.open = p.open
<1>0. 0 \in Pick!Counts /\ 0 \in Pick!Indexes /\ Nothing \in Pick!Texts /\ p \in Search
  BY DEF PickersAssumption, Pick!Counts, Pick!Indexes, GoodSearch, Pick!Texts
<1>1. CASE p.query \notin {Nothing, p.last}
  <2>1. PICK n \in Pick!Counts, m \in Pick!Indexes :
          /\ s = [p EXCEPT !.last = p.query, !.of = p.query, !.results = n, !.index = m]
          /\ n > 0 => m = 0
    <3>1. CASE s = [p EXCEPT !.last = p.query, !.of = p.query, !.results = 0]
      <4>1. s = [p EXCEPT !.last = p.query, !.of = p.query, !.results = 0, !.index = p.index]
        BY <1>0, <3>1 DEF Search
      <4>2. p.index \in Pick!Indexes /\ 0 \in Pick!Counts /\ ~(0 > 0)
        BY <1>0 DEF Search
      <4> QED
        BY <4>1, <4>2
    <3> QED
      BY <1>0, <1>1, <3>1 DEF Pick!Searched
  <2> QED
    BY <1>0, <2>1 DEF GoodSearch, Search, Pick!Counts
<1>2. CASE p.query \in {Nothing, p.last}
  <2>1. s = p \/ s = [p EXCEPT !.results = 0, !.last = Nothing, !.of = Nothing]
    BY <1>2 DEF Pick!Searched
  <2>2. CASE s = p
    BY <2>2
  <2>3. CASE s = [p EXCEPT !.results = 0, !.last = Nothing, !.of = Nothing]
    <3>1. s \in Search /\ s.results = 0 /\ s.open = p.open
      BY <1>0, <2>3 DEF Search
    <3> QED
      BY <3>1 DEF GoodSearch
  <2> QED
    BY <2>1, <2>2, <2>3
<1> QED
  BY <1>1, <1>2

(* Every frame and every key keeps PickersInv.                             *)
LEMMA PickersStep == ASSUME PickersAssumption, PickersInv, Pick!Next PROVE PickersInv'
<1>0. 0 \in Pick!Counts /\ 0 \in Pick!Indexes /\ Nothing \in Pick!Texts
  BY DEF PickersAssumption, Pick!Counts, Pick!Indexes, Pick!Texts
<1>1. /\ Pick!TypeOK
      /\ GoodSearch(search)
      /\ entered \in [index : Pick!Indexes, results : Pick!Counts]
  BY DEF PickersInv, Pick!TypeOK, Pick!PickersAgree, GoodSearch, Search
<1>2. /\ Pick!NoSwitcher \in Switcher /\ GoodSearch(Pick!NoSearch) /\ Pick!NoEntry \in [index : Pick!Indexes, results : Pick!Counts]
      /\ ~Pick!NoSwitcher.open /\ ~Pick!NoSearch.open
  BY <1>0 DEF Pick!NoSwitcher, Pick!NoSearch, Pick!NoEntry, Switcher, GoodSearch, Search
<1>3. SUFFICES /\ switcher' \in Switcher /\ GoodSearch(search)'
               /\ (~switcher.open => switcher = Pick!NoSwitcher)'
               /\ (~search.open => search = Pick!NoSearch)'
               /\ ~(switcher.open /\ search.open)'
               /\ entered' \in [index : Pick!Indexes, results : Pick!Counts]
               /\ (entered # Pick!NoEntry => entered.index < entered.results)'
  BY DEF PickersInv, Pick!TypeOK, Pick!PickersAgree, Switcher, GoodSearch, Search
<1>4. CASE Pick!ToggleSwitcher
  BY <1>0, <1>1, <1>2, <1>4 DEF Pick!ToggleSwitcher, PickersInv, Pick!NoSwitcher, Switcher, Pick!TypeOK
<1>5. CASE Pick!ToggleSearch
  <2>1. GoodSearch([Pick!NoSearch EXCEPT !.open = ~search.open])
    BY <1>0, <1>1 DEF Pick!NoSearch, GoodSearch, Search, Pick!TypeOK
  <2> QED
    BY <1>0, <1>1, <1>2, <1>5, <2>1 DEF Pick!ToggleSearch, Pick!NoSearch
<1>6. CASE Pick!SwitcherFrame
  <2>1. PICK n \in Pick!Counts :
          LET now == Pick!Updated(n) IN
          \/ \E p \in {now, Pick!Up(now), Pick!Down(now)} : switcher' \in Pick!Hovered(p)
          \/ switcher' = [now EXCEPT !.typed = TRUE, !.index = 0]
    BY <1>6 DEF Pick!SwitcherFrame
  <2>2. GoodSwitcher(Pick!Updated(n)) /\ Pick!Updated(n).open
    BY <1>1, <1>6, UpdatedGood DEF Pick!SwitcherFrame, PickersInv
  <2>3. CASE \E p \in {Pick!Updated(n), Pick!Up(Pick!Updated(n)), Pick!Down(Pick!Updated(n))} : switcher' \in Pick!Hovered(p)
    <3>1. GoodSwitcher(switcher') /\ switcher'.open
      BY <2>2, <2>3, MovedSwitcher
    <3> QED
      BY <1>2, <1>6, <3>1 DEF Pick!SwitcherFrame, GoodSwitcher, PickersInv, Pick!PickersAgree, GoodSearch, Pick!TypeOK, Search
  <2>4. CASE switcher' = [Pick!Updated(n) EXCEPT !.typed = TRUE, !.index = 0]
    <3>1. switcher' \in Switcher /\ switcher'.open
      BY <1>0, <2>2, <2>4 DEF GoodSwitcher, Switcher
    <3> QED
      BY <1>2, <1>6, <3>1 DEF Pick!SwitcherFrame, PickersInv, Pick!PickersAgree, GoodSearch, Pick!TypeOK, Search
  <2> QED
    BY <2>1, <2>3, <2>4
<1>7. CASE Pick!SwitcherEnds
  <2>1. PICK n \in Pick!Counts :
          entered' \in {Pick!NoEntry} \cup
              {[index |-> Pick!Updated(n).index, results |-> n] : m \in {k \in {n} : k > 0}}
    BY <1>7 DEF Pick!SwitcherEnds
  <2>2. GoodSwitcher(Pick!Updated(n)) /\ Pick!Updated(n).results = n
    BY UpdatedGood DEF PickersInv
  <2>3. entered' = Pick!NoEntry \/ (n > 0 /\ entered' = [index |-> Pick!Updated(n).index, results |-> n])
    BY <2>1
  <2>4. /\ entered' \in [index : Pick!Indexes, results : Pick!Counts]
        /\ entered' # Pick!NoEntry => entered'.index < entered'.results
    BY <1>2, <2>2, <2>3 DEF GoodSwitcher, Switcher
  <2> QED
    BY <1>1, <1>2, <1>7, <2>4 DEF Pick!SwitcherEnds, PickersInv
<1>8. CASE Pick!SearchFrame
  <2>1. PICK q \in {search, Pick!Up(search), Pick!Down(search)} : \E p \in Pick!Searched(q) :
          \/ search' \in IF p.query = Nothing THEN {p} ELSE Pick!Hovered(p)
          \/ \E text \in Pick!Texts : search' = [p EXCEPT !.query = text]
    BY <1>8 DEF Pick!SearchFrame
  <2>2. PICK p \in Pick!Searched(q) :
          \/ search' \in IF p.query = Nothing THEN {p} ELSE Pick!Hovered(p)
          \/ \E text \in Pick!Texts : search' = [p EXCEPT !.query = text]
    BY <2>1
  <2>3. GoodSearch(q) /\ q.open
    BY <1>1, <1>8, MovedSearch DEF Pick!SearchFrame
  <2>4. GoodSearch(p) /\ p.open
    BY <2>3, SearchedGood
  <2>5. GoodSearch(search') /\ search'.open
    <3>1. CASE search' \in IF p.query = Nothing THEN {p} ELSE Pick!Hovered(p)
      BY <2>4, <3>1, MovedSearch
    <3>2. CASE \E text \in Pick!Texts : search' = [p EXCEPT !.query = text]
      BY <2>4, <3>2 DEF GoodSearch, Search
    <3> QED
      BY <2>2, <3>1, <3>2
  <2> QED
    BY <1>1, <1>2, <1>8, <2>5 DEF Pick!SearchFrame, PickersInv, Pick!PickersAgree, Pick!TypeOK, Switcher, GoodSearch
<1>9. CASE Pick!SearchEnds
  <2>1. \/ entered' = Pick!NoEntry
        \/ search.results > 0 /\ entered' = [index |-> search.index, results |-> search.results]
    BY <1>9 DEF Pick!SearchEnds
  <2>2. /\ entered' \in [index : Pick!Indexes, results : Pick!Counts]
        /\ entered' # Pick!NoEntry => entered'.index < entered'.results
    BY <1>1, <1>2, <2>1 DEF GoodSearch, Search
  <2> QED
    BY <1>1, <1>2, <1>9, <2>2 DEF Pick!SearchEnds, PickersInv, Pick!TypeOK, Switcher, Pick!NoSearch
<1> QED
  BY <1>4, <1>5, <1>6, <1>7, <1>8, <1>9 DEF Pick!Next

(* The index of the quick switcher and of the message search is in the     *)
(* list, which answers the query last searched, for any queries and any    *)
(* number of results.                                                      *)
THEOREM PickersSound == ASSUME PickersAssumption PROVE Pick!Spec => [](Pick!TypeOK /\ Pick!PickersAgree)
<1>1. PickersInv /\ UNCHANGED Pick!vars => PickersInv'
  BY DEF PickersInv, Pick!TypeOK, Pick!PickersAgree, Pick!vars
<1>2. PickersInv /\ [Pick!Next]_(Pick!vars) => PickersInv'
  BY <1>1, PickersStep
<1>3. PickersInv => Pick!TypeOK /\ Pick!PickersAgree
  BY DEF PickersInv
<1> QED
  BY PickersInitially, <1>2, <1>3, PTL DEF Pick!Spec

-----------------------------------------------------------------------------
(* The GIF picker (GifPicker).                                             *)

(* A finite set is counted in the same way there and here.                 *)
LEMMA GifCounts == \A S : Gif!Cardinality(S) = Cardinality(S)
  BY DEF Gif!Cardinality, Cardinality

(* None is no query and no answer.                                         *)
GifAssumption == None \notin Gif!Texts \cup [of : Gif!Texts, failed : BOOLEAN]

(* One request at a time, and the picker knows which: the counting of      *)
(* GifsAgree as sets.                                                      *)
GifInv ==
    /\ Gif!TypeOK
    /\ loading => \/ requests = {last} /\ last # None /\ slot = None
                  \/ requests = {} /\ slot # None /\ slot.of = last
    /\ ~loading => /\ requests = {} /\ slot = None
                   /\ error \/ results = last \/ ~trending

(* GifInv holds at first.                                                  *)
LEMMA GifInitially == Gif!Init => GifInv
  BY DEF Gif!Init, GifInv, Gif!TypeOK, Gif!Texts

(* Every frame, key and answer keeps GifInv.                               *)
LEMMA GifStep == ASSUME GifAssumption, GifInv, [Gif!Next]_(Gif!vars) PROVE GifInv'
<1> USE DEF GifInv, Gif!TypeOK, Gif!Texts
<1>1. CASE Gif!Open
  BY <1>1 DEF Gif!Open
<1>2. CASE Gif!Close
  BY <1>2 DEF Gif!Close
<1>3. CASE Gif!Ask
  BY <1>3 DEF Gif!Ask, Gif!ShouldSearch, GifAssumption
<1>4. CASE Gif!Take
  BY <1>4 DEF Gif!Take, GifAssumption
<1>5. ASSUME NEW q \in Gif!Texts, Gif!Type(q) PROVE GifInv'
  BY <1>5 DEF Gif!Type
<1>6. ASSUME NEW q \in requests, Gif!Answer(q) PROVE GifInv'
  <2>1. requests = {last} /\ q = last /\ slot = None /\ loading
    BY <1>6
  <2>2. requests' = {}
    BY <1>6, <2>1 DEF Gif!Answer
  <2>3. slot' \in [of : Gif!Texts, failed : BOOLEAN] /\ slot'.of = last /\ slot' # None
    BY <1>6, <2>1 DEF Gif!Answer, GifAssumption
  <2> QED
    BY <1>6, <2>1, <2>2, <2>3 DEF Gif!Answer
<1>7. CASE UNCHANGED Gif!vars
  BY <1>7 DEF Gif!vars
<1> QED
  BY <1>1, <1>2, <1>3, <1>4, <1>5, <1>6, <1>7 DEF Gif!Next

(* A set of at most one request is counted: GifInv gives GifsAgree.        *)
LEMMA GifGives == ASSUME GifAssumption, GifInv PROVE Gif!TypeOK /\ Gif!GifsAgree
<1>1. requests = {} \/ requests = {last}
  BY DEF GifInv
<1>2. Cardinality({}) = 0 /\ Cardinality({last}) = 1
  BY FS_EmptySet, FS_Singleton
<1> QED
  BY <1>1, <1>2, GifCounts DEF GifInv, Gif!GifsAgree

(* For any queries: one request or answer at most is on its way, and it is *)
(* that of the query asked last; the picker that is not loading shows it,  *)
(* or the error.                                                           *)
THEOREM GifsSound ==
    ASSUME GifAssumption
    PROVE  Gif!Spec => [](Gif!TypeOK /\ Gif!GifsAgree)
<1>1. Gif!Init => GifInv
  BY GifInitially
<1>2. GifInv /\ [Gif!Next]_(Gif!vars) => GifInv'
  BY GifStep
<1>3. GifInv => Gif!TypeOK /\ Gif!GifsAgree
  BY GifGives
<1> QED
  BY <1>1, <1>2, <1>3, PTL DEF Gif!Spec

-----------------------------------------------------------------------------
(* The mention popup (Mentions).                                           *)

MentionsAssumption == MaxMatches \in Nat

(* While nothing has slipped, the index is below the matches of the text in *)
(* the box.                                                                *)
MentionsInv ==
    /\ Mention!TypeOK
    /\ Mention!MentionInList
    /\ ~slipped /\ mention_text = mention_query /\ matches > 0 => mention_selected < matches

(* The counts of matches, and the places in them, are numbers below their  *)
(* bound.                                                                  *)
LEMMA CountsAreNumbers ==
    ASSUME MentionsAssumption
    PROVE  /\ Mention!Counts \subseteq Nat /\ 0 \in Mention!Counts
           /\ Mention!Unused \in [at : Mention!Counts, of : Mention!Counts]
           /\ \A i, n \in Mention!Counts : (i > 0 => i - 1 \in Mention!Counts) /\ (i + 1 < n => i + 1 \in Mention!Counts)
  BY DEF MentionsAssumption, Mention!Counts, Mention!Unused

(* MentionsInv holds at first.                                             *)
LEMMA MentionsInitially == MentionsAssumption /\ Mention!Init => MentionsInv
<1> SUFFICES ASSUME MentionsAssumption, Mention!Init PROVE MentionsInv
  OBVIOUS
<1> QED
  BY CountsAreNumbers DEF Mention!Init, MentionsInv, Mention!TypeOK, Mention!MentionInList

(* Every key, click and change of the members keeps MentionsInv.           *)
LEMMA MentionsStep == ASSUME MentionsAssumption, MentionsInv, [Mention!Next]_(Mention!vars) PROVE MentionsInv'
<1> USE CountsAreNumbers DEF MentionsInv, Mention!TypeOK, Mention!MentionInList
<1>1. CASE Mention!Type
  BY <1>1 DEF Mention!Type
<1>2. CASE Mention!MembersChange
  BY <1>2 DEF Mention!MembersChange
<1>3. CASE Mention!SwitchChannel
  BY <1>3 DEF Mention!SwitchChannel
<1>4. CASE Mention!Rest
  BY <1>4 DEF Mention!Rest, Mention!Update, Mention!Reset
<1>5. CASE Mention!Up
  BY <1>5 DEF Mention!Up, Mention!Listening
<1>6. CASE Mention!Down
  BY <1>6 DEF Mention!Down, Mention!Listening
<1>7. CASE Mention!Insert
  <2>1. /\ used' \in [at : Mention!Counts, of : Mention!Counts] /\ used'.at = mention_selected /\ used'.of = matches
        /\ mention_text' = None /\ mention_query' = None /\ active' = FALSE /\ mention_selected' = 0
        /\ ~slipped => mention_selected < matches
        /\ UNCHANGED <<matches, dismissed, slipped>>
    BY <1>7 DEF Mention!Insert, Mention!Listening
  <2>2. Mention!MentionInList'
    BY <2>1
  <2>3. Mention!TypeOK'
    BY <2>1
  <2> QED
    BY <2>1, <2>2, <2>3
<1>8. CASE Mention!Dismiss
  <2>1. /\ active' = FALSE /\ dismissed' = TRUE /\ mention_selected' = 0 /\ used' = Mention!Unused
        /\ slipped' = FALSE /\ UNCHANGED <<mention_text, matches, mention_query>>
    BY <1>8 DEF Mention!Dismiss
  <2> QED
    BY <2>1
<1>9. CASE UNCHANGED Mention!vars
  BY <1>9 DEF Mention!vars
<1> QED
  BY <1>1, <1>2, <1>3, <1>4, <1>5, <1>6, <1>7, <1>8, <1>9 DEF Mention!Next

(* For any texts and any number of matches: the member that is mentioned   *)
(* is one of the list, unless the list got shorter since the selection was *)
(* reset.                                                                  *)
THEOREM MentionsSound ==
    ASSUME MentionsAssumption
    PROVE  Mention!Spec => [](Mention!TypeOK /\ Mention!MentionInList)
<1>1. Mention!Init => MentionsInv
  BY MentionsInitially
<1>2. MentionsInv /\ [Mention!Next]_(Mention!vars) => MentionsInv'
  BY MentionsStep
<1>3. MentionsInv => Mention!TypeOK /\ Mention!MentionInList
  BY DEF MentionsInv
<1> QED
  BY <1>1, <1>2, <1>3, PTL DEF Mention!Spec

-----------------------------------------------------------------------------
(* The settings view (Settings).                                           *)

(* Nothing is tested and nothing in the file differs outside the view; a    *)
(* call that is over has neither capture nor detector.                      *)
SettingsInv ==
    /\ Set!TypeOK
    /\ Set!SettingsAgree
    /\ set_view = "off" => set = Set!Defaults /\ ~test.on /\ ~preview.on

TestOf(t, s) ==
      t.on => t = [on |-> TRUE, input |-> s.input, loopback |-> s.loopback,
                   output |-> IF s.loopback THEN s.output ELSE None,
                   threshold |-> s.threshold]

TestType == [on : BOOLEAN, input : Set!Names, output : Set!Names, loopback : BOOLEAN, threshold : Set!Levels]
PreviewType == [on : BOOLEAN, camera : Cameras \cup {None}]

(* A test, however started, is of the settings it was started from.        *)
LEMMA TestFits ==
    ASSUME NEW s \in Set!Setting
    PROVE  /\ \A t \in Set!Test(s) : t \in TestType /\ TestOf(t, s)
           /\ Set!NoTest \in TestType /\ ~Set!NoTest.on
<1>1. None \in Set!Names
  BY DEF Set!Names
<1>2. Set!NoTest \in TestType /\ ~Set!NoTest.on
  BY <1>1 DEF Set!NoTest, TestType, Set!Levels
<1>3. ASSUME NEW t \in Set!Test(s) PROVE t \in TestType /\ TestOf(t, s)
  <2>1. CASE t = Set!NoTest
    BY <1>2, <2>1 DEF TestOf
  <2>2. CASE t # Set!NoTest
    <3>1. t = [on |-> TRUE, input |-> s.input, output |-> IF s.loopback THEN s.output ELSE None,
               loopback |-> s.loopback, threshold |-> s.threshold]
      BY <1>3, <2>2 DEF Set!Test
    <3> QED
      BY <1>1, <3>1 DEF TestOf, TestType, Set!Setting
  <2> QED
    BY <2>1, <2>2
<1> QED
  BY <1>2, <1>3

(* A preview that is started is of the camera that is set.                 *)
LEMMA PreviewFits ==
    ASSUME NEW s \in Set!Setting
    PROVE  /\ \A p \in Set!Preview(s) : p \in PreviewType /\ (p.on => p.camera = s.camera)
           /\ Set!NoPreview \in PreviewType /\ ~Set!NoPreview.on
  BY DEF Set!Preview, Set!NoPreview, PreviewType, Set!Setting

(* A test restarted is of the new settings, and one that does not run      *)
(* still does not.                                                         *)
LEMMA RestartFits ==
    ASSUME test \in TestType, NEW s \in Set!Setting, NEW t \in Set!Restarted(s)
    PROVE  t \in TestType /\ TestOf(t, s)
<1>1. CASE test.on
  BY <1>1, TestFits DEF Set!Restarted
<1>2. CASE ~test.on
  BY <1>2 DEF Set!Restarted, TestOf
<1> QED
  BY <1>1, <1>2

(* SettingsInv holds at first.                                             *)
LEMMA SettingsInitially == Set!Init => SettingsInv
<1> SUFFICES ASSUME Set!Init PROVE SettingsInv
  OBVIOUS
<1>1. Set!NoTest \in TestType /\ Set!NoPreview \in PreviewType /\ ~Set!NoTest.on /\ ~Set!NoPreview.on
  BY DEF Set!NoTest, Set!NoPreview, TestType, PreviewType, Set!Names, Set!Levels
<1>2. Set!Defaults \in Set!Setting
  BY DEF Set!Defaults, Set!Setting, Set!Names, Set!Levels
<1> QED
  BY <1>1, <1>2 DEF Set!Init, SettingsInv, Set!TypeOK, Set!SettingsAgree, TestType, PreviewType

(* Every change in the view, every device and every call keeps             *)
(* SettingsInv.                                                            *)
LEMMA SettingsStep == ASSUME SettingsInv, [Set!Next]_(Set!vars) PROVE SettingsInv'
<1>0. /\ Set!TypeOK /\ Set!SettingsAgree
      /\ set_view = "off" => set = Set!Defaults /\ ~test.on /\ ~preview.on
  BY DEF SettingsInv
<1>1. /\ set \in Set!Setting /\ Set!Defaults \in Set!Setting /\ test \in TestType /\ preview \in PreviewType
      /\ listed \subseteq Devices /\ None \in Set!Names /\ file \in Set!Setting
  BY <1>0 DEF Set!TypeOK, Set!Defaults, Set!Setting, Set!Names, Set!Levels, TestType, PreviewType
<1> USE DEF Set!voice
<1>2. CASE Set!Replug
  BY <1>0, <1>2 DEF Set!Replug, SettingsInv, Set!SettingsAgree, Set!TypeOK
<1>3. CASE Set!Refresh
  BY <1>0, <1>3 DEF Set!Refresh, SettingsInv, Set!SettingsAgree, Set!TypeOK
<1> DEFINE Sound ==
        /\ set_view = "Settings" /\ set' \in Set!Setting /\ test' \in TestType /\ TestOf(test', set')
        /\ UNCHANGED <<set_view, file, plugged, listed, preview, Set!voice, apart>>
        /\ set'.camera = set.camera
<1>4. ASSUME Sound PROVE SettingsInv'
  BY <1>0, <1>4 DEF SettingsInv, Set!SettingsAgree, Set!TypeOK, TestType, TestOf
<1>5. CASE Set!ChooseInput
  <2>1. PICK d \in Set!Chosen : set' = [set EXCEPT !.input = d]
    BY <1>5 DEF Set!ChooseInput
  <2>2. d \in Set!Names
    BY <1>1, <2>1 DEF Set!Chosen, Set!Names
  <2>3. set' \in Set!Setting /\ set'.camera = set.camera
    BY <1>1, <2>1, <2>2 DEF Set!Setting
  <2>4. test' \in TestType /\ TestOf(test', set')
    BY <1>1, <1>5, <2>3, RestartFits DEF Set!ChooseInput
  <2> QED
    BY <1>4, <1>5, <2>3, <2>4 DEF Set!ChooseInput
<1>6. CASE Set!ChooseOutput
  <2>1. PICK d \in Set!Chosen : set' = [set EXCEPT !.output = d]
    BY <1>6 DEF Set!ChooseOutput
  <2>2. d \in Set!Names
    BY <1>1, <2>1 DEF Set!Chosen, Set!Names
  <2>3. set' \in Set!Setting /\ set'.camera = set.camera
    BY <1>1, <2>1, <2>2 DEF Set!Setting
  <2>4. test' \in TestType /\ TestOf(test', set')
    <3>1. CASE set.loopback
      BY <1>1, <1>6, <2>3, <3>1, RestartFits DEF Set!ChooseOutput
    <3>2. CASE ~set.loopback
      <4>1. test' = test /\ ~set'.loopback /\ set'.input = set.input /\ set'.threshold = set.threshold
        BY <1>1, <1>6, <2>1, <3>2 DEF Set!ChooseOutput, Set!Setting
      <4>2. test \in TestType /\ TestOf(test, set)
        BY <1>0, <1>1 DEF Set!SettingsAgree, TestOf
      <4>3. CASE test.on
        <5>1. test = [on |-> TRUE, input |-> set.input, loopback |-> set.loopback,
                      output |-> None, threshold |-> set.threshold]
          BY <3>2, <4>2, <4>3 DEF TestOf
        <5>2. set.loopback = FALSE /\ set'.loopback = FALSE
          BY <1>1, <2>3, <3>2, <4>1 DEF Set!Setting
        <5> QED
          BY <4>1, <4>2, <5>1, <5>2 DEF TestOf
      <4> QED
        BY <4>1, <4>2, <4>3 DEF TestOf
    <3> QED
      BY <3>1, <3>2
  <2> QED
    BY <1>4, <1>6, <2>3, <2>4 DEF Set!ChooseOutput
<1>7. CASE Set!ToggleLoopback
  <2>1. set' \in Set!Setting /\ set'.camera = set.camera
    BY <1>1, <1>7 DEF Set!ToggleLoopback, Set!Setting
  <2>2. test' \in TestType /\ TestOf(test', set')
    BY <1>1, <1>7, <2>1, RestartFits DEF Set!ToggleLoopback
  <2> QED
    BY <1>4, <1>7, <2>1, <2>2 DEF Set!ToggleLoopback
<1>8. CASE Set!MoveThreshold
  <2>1. PICK l \in Set!Levels : /\ set' = [set EXCEPT !.threshold = l]
                                /\ test' = IF test.on THEN [test EXCEPT !.threshold = l] ELSE test
    BY <1>8 DEF Set!MoveThreshold
  <2>2. set' \in Set!Setting /\ set'.camera = set.camera /\ set'.threshold = l
        /\ set'.input = set.input /\ set'.output = set.output /\ set'.loopback = set.loopback
    BY <1>1, <2>1 DEF Set!Setting
  <2>3. test' \in TestType /\ TestOf(test', set')
    <3>1. CASE test.on
      <4>1. test = [on |-> TRUE, input |-> set.input, loopback |-> set.loopback,
                    output |-> IF set.loopback THEN set.output ELSE None,
                    threshold |-> set.threshold]
        BY <1>0, <3>1 DEF Set!SettingsAgree
      <4>2. test' = [on |-> TRUE, input |-> set.input, loopback |-> set.loopback,
                     output |-> IF set.loopback THEN set.output ELSE None, threshold |-> l]
        BY <2>1, <3>1, <4>1
      <4>3. test' \in TestType
        BY <1>1, <2>1, <3>1 DEF TestType
      <4> QED
        BY <2>2, <4>2, <4>3 DEF TestOf
    <3>2. CASE ~test.on
      BY <1>1, <2>1, <3>2 DEF TestOf
    <3> QED
      BY <3>1, <3>2
  <2> QED
    BY <1>4, <1>8, <2>2, <2>3 DEF Set!MoveThreshold
<1>9. CASE Set!ToggleTest
  <2>1. test' \in TestType /\ TestOf(test', set)
    BY <1>1, <1>9, TestFits DEF Set!ToggleTest, TestOf
  <2> QED
    BY <1>1, <1>4, <1>9, <2>1 DEF Set!ToggleTest
<1> DEFINE Picture ==
        /\ set_view = "Settings" /\ preview' \in PreviewType /\ (preview'.on => preview'.camera = set'.camera)
        /\ UNCHANGED <<set_view, file, plugged, listed, test, Set!voice, apart>>
        /\ set' \in Set!Setting /\ \E d : set' = [set EXCEPT !.camera = d]
<1>10. ASSUME Picture PROVE SettingsInv'
  <2>1. TestOf(test, set)
    BY <1>0 DEF Set!SettingsAgree, TestOf
  <2>2. /\ set'.input = set.input /\ set'.output = set.output /\ set'.loopback = set.loopback
        /\ set'.threshold = set.threshold
    BY <1>1, <1>10 DEF Set!Setting
  <2>3. TestOf(test', set')
    BY <1>10, <2>1, <2>2 DEF TestOf
  <2> QED
    BY <1>0, <1>10, <2>3 DEF SettingsInv, Set!SettingsAgree, Set!TypeOK, PreviewType, TestOf
<1>11. CASE Set!ChooseCamera
  <2>1. PICK c \in Cameras \cup {None} : set' = [set EXCEPT !.camera = c]
    BY <1>11 DEF Set!ChooseCamera
  <2>3. set' \in Set!Setting
    BY <1>1, <2>1 DEF Set!Setting
  <2>4. preview' \in PreviewType /\ (preview'.on => preview'.camera = set'.camera)
    <3>1. CASE preview.on
      BY <1>11, <2>3, <3>1, PreviewFits DEF Set!ChooseCamera
    <3>2. CASE ~preview.on
      BY <1>1, <1>11, <3>2 DEF Set!ChooseCamera
    <3> QED
      BY <3>1, <3>2
  <2> QED
    BY <1>10, <1>11, <2>1, <2>3, <2>4 DEF Set!ChooseCamera
<1>12. CASE Set!TogglePreview
  <2>1. preview' \in PreviewType /\ (preview'.on => preview'.camera = set.camera)
    BY <1>1, <1>12, PreviewFits DEF Set!TogglePreview
  <2>2. set' = [set EXCEPT !.camera = set.camera]
    BY <1>1, <1>12 DEF Set!TogglePreview, Set!Setting
  <2> QED
    BY <1>1, <1>10, <1>12, <2>1, <2>2 DEF Set!TogglePreview
<1>13. CASE Set!OpenSettings
  BY <1>0, <1>13 DEF Set!OpenSettings, SettingsInv, Set!SettingsAgree, Set!TypeOK
<1>14. CASE Set!CloseSettings
  BY <1>0, <1>1, <1>14, TestFits, PreviewFits
     DEF Set!CloseSettings, SettingsInv, Set!SettingsAgree, Set!TypeOK, TestType, PreviewType
<1>15. CASE Set!Quit
  BY <1>0, <1>1, <1>15, TestFits, PreviewFits
     DEF Set!Quit, SettingsInv, Set!SettingsAgree, Set!TypeOK, TestType, PreviewType
<1>16. CASE Set!StartUp
  BY <1>0, <1>1, <1>16 DEF Set!StartUp, SettingsInv, Set!SettingsAgree, Set!TypeOK
<1>17. CASE Set!Voice
  BY <1>0, <1>17 DEF Set!Voice, SettingsInv, Set!SettingsAgree, Set!TypeOK
<1>18. CASE Set!Join
  <2>1. set.threshold \in Set!Levels
    BY <1>1 DEF Set!Setting
  <2> QED
    BY <1>0, <1>18, <2>1 DEF Set!Join, SettingsInv, Set!SettingsAgree, Set!TypeOK
<1>19. CASE Set!Leave
  BY <1>0, <1>19 DEF Set!Leave, SettingsInv, Set!SettingsAgree, Set!TypeOK
<1>20. CASE UNCHANGED Set!vars
  BY <1>0, <1>20 DEF Set!vars, SettingsInv, Set!SettingsAgree, Set!TypeOK
<1> QED
  BY <1>2, <1>3, <1>5, <1>6, <1>7, <1>8, <1>9, <1>11, <1>12, <1>13, <1>14, <1>15, <1>16, <1>17,
     <1>18, <1>19, <1>20 DEF Set!Next

(* For any devices and cameras, and however often the settings change: a   *)
(* test and a preview run with the settings that are shown and only while  *)
(* they are, the main view has what the file has unless the file could not *)
(* be written or read, and a call has a detector just when it captures.    *)
THEOREM SettingsSound ==
    Set!Spec => [](Set!TypeOK /\ Set!SettingsAgree)
<1>1. Set!Init => SettingsInv
  BY SettingsInitially
<1>2. SettingsInv /\ [Set!Next]_(Set!vars) => SettingsInv'
  BY SettingsStep
<1>3. SettingsInv => Set!TypeOK /\ Set!SettingsAgree
  BY DEF SettingsInv
<1> QED
  BY <1>1, <1>2, <1>3, PTL DEF Set!Spec

-----------------------------------------------------------------------------
(* Sharing the screen and the camera (ScreenShare).                        *)

ShareAssumption == MaxRefusals \in Nat

Main(k) == share_pc[k] \notin Share!Idle \cup {"unwant"}

OneMain == \A j, k \in ShareClicks : Main(j) /\ Main(k) => j = k

(* The client and the server have the same, but for what a task is about   *)
(* to do, a request that failed, and a change of channel while sharing.    *)
Known ==
    /\ share_joined # (share_row # "none") =>
          "lost" \in share_odd \/ \E k \in ShareClicks : share_pc[k] \in {"insert", "exit"}
    /\ flag # (share_row = "on") =>
          share_odd \cap {"lost", "switched"} # {} \/ \E k \in ShareClicks : share_pc[k] \in {"share", "stop", "exit"}
    /\ flag \/ wants => share_joined

(* Where the one task of a click or of a Share has come.                   *)
ShareTask(k) ==
         /\ share_pc[k] = "exit" => share_row = "none" \/ "lost" \in share_odd
         /\ share_pc[k] \in {"insert", "delete", "exit", "want", "tellShare", "share"} => share_joined
         /\ share_pc[k] = "want" => ~flag /\ ~capturing
         /\ share_pc[k] \in {"tellShare", "share"} => ~flag /\ wants /\ capturing /\ ~picker
         /\ share_pc[k] \in {"tellShare", "share"} => \A j \in ShareClicks : share_pc[j] # "unwant"
         /\ share_pc[k] = "share" => share_row = "on"
         /\ share_pc[k] \in {"tellStop", "stop"} => flag
         /\ share_pc[k] = "stop" => share_row = "off"

(* What is captured is shared, or about to be, or no longer wanted.        *)
Captured ==
    /\ flag => capturing /\ ~picker /\ ~wants
    /\ capturing /\ wants /\ ~flag => \E k \in ShareClicks : share_pc[k] \in {"tellShare", "share"}

(* A camera left on after a frame is that of a call that has just ended.   *)
Filmed ==
    frame = "start" /\ camera /\ ~video => ~share_joined /\ \A k \in ShareClicks : share_pc[k] # "enter"

(* What is remembered for good has not happened.                           *)
Plain == share_odd \cap {"refused", "hasty", "carried"} = {}

ShareInv ==
    /\ Share!TypeOK
    /\ share_drawn = share_was
    /\ camera => share_was
    /\ Plain => OneMain /\ Known /\ (\A k \in ShareClicks : ShareTask(k)) /\ Captured /\ Filmed

(* ShareInv holds at first.                                                *)
LEMMA ShareInitially == ShareAssumption /\ Share!Init => ShareInv
<1> SUFFICES ASSUME ShareAssumption, Share!Init PROVE ShareInv
  OBVIOUS
<1>1. Share!TypeOK
  <2>1. share_pc \in [ShareClicks -> {"new"}] /\ refusals \in 0..MaxRefusals
    BY DEF Share!Init, ShareAssumption
  <2> QED
    BY <2>1 DEF Share!Init, Share!TypeOK, Share!Idle
<1>2. OneMain /\ Known /\ (\A k \in ShareClicks : ShareTask(k)) /\ Captured /\ Filmed
  BY DEF Share!Init, OneMain, Main, Known, ShareTask, Captured, Filmed, Share!Idle
<1> QED
  BY <1>1, <1>2 DEF Share!Init, ShareInv, Plain

(* What holds while nothing of it has happened.                             *)
Usual == OneMain /\ Known /\ (\A k \in ShareClicks : ShareTask(k)) /\ Captured /\ Filmed

(* Every step keeps the types.                                             *)
LEMMA ShareTypes == ASSUME ShareAssumption, Share!TypeOK, [Share!Next]_(Share!vars) PROVE Share!TypeOK'
<1> DEFINE Labels == Share!Idle \cup {"enter", "insert", "delete", "exit", "want", "unwant",
                  "tellShare", "share", "tellStop", "stop", "tellVideo", "video"}
<1> USE DEF Share!TypeOK
<1>1. CASE Share!Start
  BY <1>1 DEF Share!Start, Share!state
<1>2. CASE Share!NoClick
  BY <1>2 DEF Share!NoClick, Share!state
<1>3. CASE Share!ViewChat
  BY <1>3 DEF Share!ViewChat, Share!state
<1>4. ASSUME NEW on \in BOOLEAN, Share!View(on)
      PROVE  /\ camera' \in BOOLEAN /\ capturing' \in BOOLEAN /\ frame' = "start"
             /\ UNCHANGED <<Share!state, share_row, share_was, share_drawn, refusals>>
  BY <1>4 DEF Share!View, Share!Keeps
<1>5. CASE Share!ViewOn
  BY <1>4, <1>5 DEF Share!ViewOn, Share!state, Share!Showed, Share!Opens
<1>6. ASSUME NEW k \in ShareClicks, Share!ClickJoin(k) \/ Share!ClickLeave(k) \/ Share!ClickVideo(k) \/ Share!ClickScreen(k)
      PROVE  Share!TypeOK'
  <2>1. PICK label \in {"enter", "delete", "tellVideo", "tellStop", "want"} : Share!Click(k, label)
    BY <1>6 DEF Share!ClickJoin, Share!ClickLeave, Share!ClickVideo, Share!ClickScreen
  <2>2. share_odd' \subseteq Share!Odd
    BY <2>1 DEF Share!Click, Share!Odd
  <2>3. share_pc' \in [ShareClicks -> Labels]
    BY <2>1 DEF Share!Click, Share!Spawned
  <2>4. frame' \in {"blocked", "view"} /\ UNCHANGED <<Share!state, share_row, share_was, share_drawn, picker, capturing, camera, refusals>>
    BY <2>1 DEF Share!Click
  <2> QED
    BY <2>2, <2>3, <2>4 DEF Share!state
<1>7. ASSUME NEW k \in ShareClicks, Share!ViewShare(k) PROVE Share!TypeOK'
  <2>1. share_odd' \subseteq Share!Odd
    BY <1>7 DEF Share!ViewShare, Share!Odd
  <2>2. share_pc' \in [ShareClicks -> Labels]
    BY <1>7 DEF Share!ViewShare, Share!Spawned
  <2> QED
    BY <1>4, <1>7, <2>1, <2>2 DEF Share!ViewShare, Share!state
<1>8. ASSUME NEW k \in ShareClicks, Share!ViewCancel(k) PROVE Share!TypeOK'
  <2>1. share_pc' \in [ShareClicks -> Labels]
    BY <1>8 DEF Share!ViewCancel, Share!Spawned
  <2> QED
    BY <1>4, <1>8, <2>1 DEF Share!ViewCancel, Share!state
<1>9. ASSUME NEW k \in ShareClicks,
             Share!Enter(k) \/ Share!Insert(k) \/ Share!Delete(k) \/ Share!Exit(k) \/ Share!Want(k) \/ Share!Share(k) \/ Share!Video(k)
      PROVE  Share!TypeOK'
  <2>1. share_pc' \in [ShareClicks -> Labels]
    BY <1>9 DEF Share!Enter, Share!Insert, Share!Delete, Share!Exit, Share!Want, Share!Share, Share!Video, Share!Goto, Share!Idle
  <2>2. share_odd' \subseteq Share!Odd
    BY <1>9 DEF Share!Enter, Share!Insert, Share!Delete, Share!Exit, Share!Want, Share!Share, Share!Video, Share!Odd
  <2> QED
    BY <1>9, <2>1, <2>2 DEF Share!Enter, Share!Insert, Share!Delete, Share!Exit, Share!Want, Share!Share, Share!Video, Share!state, Share!view
<1>10. ASSUME NEW k \in ShareClicks, Share!Tell(k) PROVE Share!TypeOK'
  <2>1. share_pc' \in [ShareClicks -> Labels]
    BY <1>10 DEF Share!Tell, Share!Goto, Share!Idle
  <2>2. refusals' \in 0..MaxRefusals /\ share_odd' \subseteq Share!Odd
    BY <1>10 DEF Share!Tell, ShareAssumption, Share!Odd
  <2>3. share_row' \in {"none", "off", "on"} /\ frame' \in {"start", "buttons", "blocked", "view"}
    <3>1. Share!Written(k) \in {"none", "off", "on"}
      BY <1>10 DEF Share!Tell, Share!Written
    <3> QED
      BY <1>10, <3>1 DEF Share!Tell
  <2> QED
    BY <1>10, <2>1, <2>2, <2>3 DEF Share!Tell, Share!state
<1>11. CASE UNCHANGED Share!vars
  BY <1>11 DEF Share!vars, Share!state, Share!view
<1>12. ASSUME NEW k \in ShareClicks, Share!JoinLost(k) \/ Share!LeaveLost(k) PROVE Share!TypeOK'
  <2>1. PICK at \in {"insert", "delete"}, rows \in SUBSET {"none", "off", "on"} : Share!Lost(k, at, rows)
    BY <1>12 DEF Share!JoinLost, Share!LeaveLost
  <2>2. share_pc' \in [ShareClicks -> Labels]
    BY <2>1 DEF Share!Lost, Share!Goto, Share!Idle
  <2>3. refusals' \in 0..MaxRefusals /\ share_odd' \subseteq Share!Odd /\ share_row' \in {"none", "off", "on"}
    BY <2>1 DEF Share!Lost, ShareAssumption, Share!Odd
  <2> QED
    BY <2>1, <2>2, <2>3 DEF Share!Lost, Share!state, Share!view
<1> QED
  BY <1>1, <1>2, <1>3, <1>5, <1>6, <1>7, <1>8, <1>9, <1>10, <1>11, <1>12 DEF Share!Next

(* The rest of the invariant, once nothing unusual has happened.           *)
LEMMA ShareUsual ==
    ASSUME ShareInv, Share!Next, Plain'
    PROVE  Usual'
<1>0. Share!TypeOK /\ share_drawn = share_was /\ (camera => share_was)
  BY DEF ShareInv
<1>1. Plain
  BY DEF Share!Next, Share!Start, Share!NoClick, Share!ViewChat, Share!ViewOn, Share!ClickJoin, Share!ClickLeave, Share!ClickVideo, Share!ClickScreen, Share!Click,
     Share!ViewShare, Share!ViewCancel, Share!Enter, Share!Insert, Share!Delete, Share!JoinLost, Share!LeaveLost, Share!Lost, Share!Exit, Share!Want, Share!Tell, Share!Share,
     Share!Video, Plain
<1>2. OneMain /\ Known /\ (\A k \in ShareClicks : ShareTask(k)) /\ Captured /\ Filmed
  BY <1>1 DEF ShareInv
<1> USE DEF Usual
<1>3. ASSUME NEW on \in BOOLEAN, Share!View(on)
      PROVE  /\ camera' => video /\ share_was
             /\ capturing' = (on /\ (flag \/ wants)) /\ frame' = "start"
             /\ UNCHANGED <<share_joined, flag, wants, video, share_row, share_was, share_drawn>>
  BY <1>0, <1>3 DEF Share!View, Share!Keeps, Share!state, Share!TypeOK
<1>4. CASE Share!Start
  BY <1>0, <1>2, <1>4 DEF Share!Start, Share!state, OneMain, Main, Known, ShareTask, Captured, Filmed, Share!TypeOK
<1>5. CASE Share!NoClick \/ Share!ViewChat
  BY <1>0, <1>2, <1>5 DEF Share!NoClick, Share!ViewChat, Share!state, OneMain, Main, Known, ShareTask, Captured, Filmed, Share!TypeOK
<1>6. CASE Share!ViewOn
  BY <1>0, <1>2, <1>3, <1>6 DEF Share!ViewOn, OneMain, Main, Known, ShareTask, Captured, Filmed, Share!TypeOK, Share!Showed, Share!Opens
<1>7. ASSUME NEW k \in ShareClicks, NEW label \in {"enter", "delete", "tellVideo", "tellStop", "want"},
             Share!Click(k, label), label \in {"delete", "want"} => share_joined,
             label = "tellStop" => flag, label = "want" => ~flag
      PROVE  Usual'
  <2>1. /\ \A j \in ShareClicks : share_pc[j] \in Share!Idle
        /\ capturing = flag /\ share_pc' = [share_pc EXCEPT ![k] = label] /\ frame' # "start"
        /\ UNCHANGED <<share_joined, flag, wants, video, share_row, share_was, share_drawn, picker, capturing, camera, share_odd>>
    BY <1>1, <1>7 DEF Share!Click, Share!Unfinished, Share!Spawned, Share!state, Plain
  <2>2. \A j \in ShareClicks : share_pc'[j] = IF j = k THEN label ELSE share_pc[j]
    BY <1>0, <2>1 DEF Share!TypeOK
  <2>3. OneMain'
    BY <2>1, <2>2 DEF OneMain, Main
  <2>4. Known' /\ Captured' /\ Filmed'
    BY <1>2, <2>1, <2>2 DEF Known, Captured, Filmed, Share!Idle
  <2>5. \A j \in ShareClicks : ShareTask(j)'
    BY <1>2, <1>7, <2>1, <2>2 DEF ShareTask, Share!Idle
  <2> QED
    BY <2>3, <2>4, <2>5
<1>8. ASSUME NEW k \in ShareClicks, Share!ClickJoin(k) \/ Share!ClickLeave(k) \/ Share!ClickVideo(k) \/ Share!ClickScreen(k)
      PROVE  Usual'
  BY <1>0, <1>7, <1>8 DEF Share!ClickJoin, Share!ClickLeave, Share!ClickVideo, Share!ClickScreen, Share!TypeOK
<1>9. ASSUME NEW k \in ShareClicks, Share!ViewShare(k) PROVE Usual'
  <2>1. /\ \A j \in ShareClicks : share_pc[j] \in Share!Idle
        /\ flag \/ wants
        /\ share_odd' = share_odd
        /\ picker /\ picker' = FALSE /\ share_pc' = [share_pc EXCEPT ![k] = "tellShare"]
    BY <1>1, <1>9 DEF Share!ViewShare, Share!Unfinished, Share!Spawned, Plain
  <2>2. \A j \in ShareClicks : share_pc'[j] = IF j = k THEN "tellShare" ELSE share_pc[j]
    BY <1>0, <2>1 DEF Share!TypeOK
  <2>3. /\ camera' => video /\ share_was
        /\ capturing' = (flag \/ wants) /\ frame' = "start"
        /\ UNCHANGED <<share_joined, flag, wants, video, share_row, share_was, share_drawn>>
    BY <1>3, <1>9 DEF Share!ViewShare
  <2>4. ~flag /\ wants /\ share_joined /\ capturing' = TRUE
    BY <1>2, <2>1, <2>3 DEF Captured, Known
  <2>5. OneMain'
    BY <2>1, <2>2 DEF OneMain, Main
  <2>6. Known' /\ Captured' /\ Filmed'
    <3>1. Known'
      BY <1>2, <2>1, <2>3, <2>4 DEF Known, Share!Idle
    <3>2. Captured'
      BY <2>2, <2>3, <2>4 DEF Captured
    <3>3. Filmed'
      BY <2>3 DEF Filmed
    <3> QED
      BY <3>1, <3>2, <3>3
  <2>7. ASSUME NEW j \in ShareClicks PROVE ShareTask(j)'
    <3>1. \A i \in ShareClicks : share_pc'[i] # "unwant" /\ share_pc'[j] \in {"tellShare", "new", "done"}
      BY <2>1, <2>2 DEF Share!Idle
    <3> QED
      BY <2>1, <2>3, <2>4, <3>1 DEF ShareTask
  <2> QED
    BY <2>5, <2>6, <2>7
<1>10. ASSUME NEW k \in ShareClicks, Share!ViewCancel(k) PROVE Usual'
  <2>1. /\ picker /\ picker' = FALSE /\ share_odd' = share_odd
        /\ \/ share_pc' = share_pc
           \/ share_pc[k] = "new" /\ share_pc' = [share_pc EXCEPT ![k] = "unwant"]
    BY <1>10 DEF Share!ViewCancel, Share!Spawned
  <2>2. \A j \in ShareClicks : share_pc'[j] = share_pc[j] \/ (j = k /\ share_pc[j] = "new" /\ share_pc'[j] = "unwant")
    BY <1>0, <2>1 DEF Share!TypeOK
  <2>3. /\ camera' => video /\ share_was
        /\ capturing' = (capturing /\ (flag \/ wants)) /\ frame' = "start"
        /\ UNCHANGED <<share_joined, flag, wants, video, share_row, share_was, share_drawn>>
    BY <1>0, <1>3, <1>10 DEF Share!ViewCancel, Share!TypeOK
  <2>4. \A j \in ShareClicks : share_pc[j] \notin {"tellShare", "share"}
    BY <1>2, <2>1 DEF ShareTask
  <2>5. OneMain'
    BY <1>2, <2>2 DEF OneMain, Main, Share!Idle
  <2>6. Known' /\ Captured' /\ Filmed'
    BY <1>2, <2>1, <2>2, <2>3, <2>4 DEF Known, Captured, Filmed, Share!Idle
  <2>7. \A j \in ShareClicks : ShareTask(j)'
    BY <1>2, <2>1, <2>2, <2>3, <2>4 DEF ShareTask, Share!Idle
  <2> QED
    BY <2>5, <2>6, <2>7
<1>11. ASSUME NEW k \in ShareClicks,
             \/ Share!Enter(k) \/ Share!Insert(k) \/ Share!Delete(k) \/ Share!JoinLost(k) \/ Share!LeaveLost(k) \/ Share!Exit(k)
             \/ Share!Want(k) \/ Share!Tell(k) \/ Share!Share(k) \/ Share!Video(k)
      PROVE  Usual'
  <2> DEFINE label == share_pc'[k]
  <2>1. /\ share_pc[k] \notin Share!Idle
        /\ \A j \in ShareClicks : j # k => share_pc'[j] = share_pc[j]
    BY <1>0, <1>11 DEF Share!Enter, Share!Insert, Share!Delete, Share!JoinLost, Share!LeaveLost, Share!Lost, Share!Exit, Share!Want, Share!Tell, Share!Share, Share!Video, Share!Goto, Share!TypeOK, Share!Idle
  <2>2. CASE share_pc[k] = "unwant"
    <3>1. /\ wants' = FALSE /\ share_pc'[k] = "done"
          /\ UNCHANGED <<share_joined, flag, video, share_row, frame, share_was, share_drawn, picker, capturing, camera, share_odd>>
      BY <1>0, <1>11, <2>2 DEF Share!Enter, Share!Insert, Share!Delete, Share!JoinLost, Share!LeaveLost, Share!Lost, Share!Exit, Share!Want, Share!Tell, Share!Share, Share!Video, Share!Goto, Share!TypeOK, Share!view
    <3>2. \A j \in ShareClicks : share_pc[j] \notin {"tellShare", "share"}
      BY <1>2, <2>2 DEF ShareTask
    <3> QED
      BY <1>2, <2>1, <2>2, <3>1, <3>2 DEF OneMain, Main, Known, ShareTask, Captured, Filmed, Share!Idle
  <2>3. CASE share_pc[k] # "unwant"
    <3>1. \A j \in ShareClicks : j # k => share_pc[j] \in Share!Idle \cup {"unwant"}
      BY <1>2, <2>1, <2>3 DEF OneMain, Main
    <3>2. \A j \in ShareClicks : j # k => share_pc'[j] \in Share!Idle \cup {"unwant"}
      BY <2>1, <3>1
    <3>3. OneMain'
      BY <3>2 DEF OneMain, Main
    <3>4. share_pc'[k] \in {"tellShare", "share"} => share_pc[k] = "tellShare"
      BY <1>0, <1>11, <2>3 DEF Share!Enter, Share!Insert, Share!Delete, Share!JoinLost, Share!LeaveLost, Share!Lost, Share!Exit, Share!Want, Share!Tell, Share!Share, Share!Video, Share!Goto, Share!TypeOK
    <3>5. /\ ShareTask(k)
          /\ \A j \in ShareClicks : j # k => ShareTask(j)
          /\ share_joined # (share_row # "none") => "lost" \in share_odd \/ share_pc[k] \in {"insert", "exit"}
          /\ flag # (share_row = "on") =>
                share_odd \cap {"lost", "switched"} # {} \/ share_pc[k] \in {"share", "stop", "exit"}
          /\ flag \/ wants => share_joined
          /\ flag => capturing /\ ~picker /\ ~wants
          /\ capturing /\ wants /\ ~flag => share_pc[k] \in {"tellShare", "share"}
      BY <1>2, <3>1 DEF Known, Captured, Share!Idle
    <3>6. SUFFICES /\ ShareTask(k)'
                   /\ share_joined' # (share_row' # "none") => "lost" \in share_odd' \/ share_pc'[k] \in {"insert", "exit"}
                   /\ flag' # (share_row' = "on") =>
                         share_odd' \cap {"lost", "switched"} # {} \/ share_pc'[k] \in {"share", "stop", "exit"}
                   /\ flag' \/ wants' => share_joined'
                   /\ flag' => capturing' /\ ~picker' /\ ~wants'
                   /\ capturing' /\ wants' /\ ~flag' => share_pc'[k] \in {"tellShare", "share"}
                   /\ frame' = "start" /\ camera' /\ ~video' => ~share_joined' /\ share_pc'[k] # "enter"
      <4>1. \A j \in ShareClicks : j # k => ShareTask(j)'
        BY <3>2 DEF ShareTask, Share!Idle
      <4> QED
        BY <3>2, <3>3, <4>1 DEF Known, Captured, Filmed, Share!Idle
    <3>7. UNCHANGED <<share_was, share_drawn, picker, capturing, camera>>
      BY <1>11 DEF Share!Enter, Share!Insert, Share!Delete, Share!JoinLost, Share!LeaveLost, Share!Lost, Share!Exit, Share!Want, Share!Tell, Share!Share, Share!Video, Share!view
    <3>8. CASE Share!Enter(k)
      BY <1>0, <1>2, <3>1, <3>2, <3>5, <3>7, <3>8 DEF Share!Enter, Share!Goto, Share!TypeOK, ShareTask, Filmed, Share!view
    <3>9. CASE Share!Insert(k)
      <4>1. /\ share_pc[k] = "insert" /\ share_row' = "off" /\ share_pc'[k] = "done"
            /\ UNCHANGED <<share_joined, flag, wants, video, frame>>
        BY <1>0, <3>9 DEF Share!Insert, Share!Goto, Share!TypeOK, Share!state, Share!view
      <4>2. flag \in BOOLEAN /\ (flag => "switched" \in share_odd')
        BY <1>0, <3>9 DEF Share!Insert, Share!TypeOK
      <4> QED
        BY <1>2, <3>1, <3>2, <3>5, <3>7, <4>1, <4>2 DEF ShareTask, Filmed
    <3>10. CASE Share!Delete(k)
      BY <1>0, <1>2, <3>1, <3>2, <3>5, <3>7, <3>10 DEF Share!Delete, Share!Goto, Share!TypeOK, ShareTask, Filmed, Share!view, Share!state
    <3>11. CASE Share!Exit(k)
      BY <1>0, <1>2, <3>1, <3>2, <3>5, <3>7, <3>11 DEF Share!Exit, Share!Goto, Share!TypeOK, ShareTask, Filmed, Share!view
    <3>12. CASE Share!Want(k)
      BY <1>0, <1>2, <3>1, <3>2, <3>5, <3>7, <3>12, <2>3 DEF Share!Want, Share!Goto, Share!TypeOK, ShareTask, Filmed, Share!view
    <3>13. CASE Share!Tell(k)
      <4>1. \/ /\ share_pc[k] = "tellShare" /\ share_row' = "on" /\ share_pc'[k] = "share"
            \/ /\ share_pc[k] = "tellStop" /\ share_row' = "off" /\ share_pc'[k] = "stop"
            \/ /\ share_pc[k] = "tellVideo" /\ share_row' = share_row /\ share_pc'[k] = "video"
        BY <1>0, <1>1, <3>13 DEF Share!Tell, Share!Goto, Share!TypeOK, Share!Written, Plain
      <4>2. /\ share_row # "none" /\ UNCHANGED <<share_joined, flag, wants, video, frame>>
            /\ share_odd' = share_odd \/ (share_odd' = share_odd \ {"switched"} /\ share_pc'[k] \in {"share", "stop"})
        BY <1>1, <3>13, <4>1 DEF Share!Tell, Share!state, Plain
      <4> QED
        BY <1>2, <2>1, <3>1, <3>2, <3>4, <3>5, <3>7, <4>1, <4>2 DEF ShareTask, Filmed
    <3>14. CASE Share!Share(k)
      BY <1>0, <1>2, <3>1, <3>2, <3>5, <3>7, <3>14 DEF Share!Share, Share!Goto, Share!TypeOK, ShareTask, Filmed, Share!view
    <3>15. CASE Share!Video(k)
      BY <1>0, <1>2, <3>1, <3>2, <3>5, <3>7, <3>15 DEF Share!Video, Share!Goto, Share!TypeOK, ShareTask, Filmed
    <3>16. CASE Share!JoinLost(k) \/ Share!LeaveLost(k)
      <4>1. /\ share_pc[k] \in {"insert", "delete"} /\ share_pc'[k] = "exit" /\ "lost" \in share_odd'
            /\ UNCHANGED <<share_joined, flag, wants, video, frame>>
        BY <1>0, <3>16 DEF Share!JoinLost, Share!LeaveLost, Share!Lost, Share!Goto, Share!TypeOK, Share!state, Share!view
      <4> QED
        BY <1>2, <3>1, <3>2, <3>5, <3>7, <4>1 DEF ShareTask, Filmed
    <3> QED
      BY <1>11, <3>8, <3>9, <3>10, <3>11, <3>12, <3>13, <3>14, <3>15, <3>16
  <2> QED
    BY <2>2, <2>3
<1> QED
  BY <1>4, <1>5, <1>6, <1>8, <1>9, <1>10, <1>11 DEF Share!Next

(* Every frame and every step of a task keeps ShareInv.                    *)
LEMMA ShareStep == ASSUME ShareAssumption, ShareInv, [Share!Next]_(Share!vars) PROVE ShareInv'
<1>0. Share!TypeOK /\ share_drawn = share_was /\ (camera => share_was)
  BY DEF ShareInv
<1>1. Share!TypeOK'
  BY <1>0, ShareTypes
<1>2. (share_drawn = share_was)' /\ (camera => share_was)'
  <2>1. CASE Share!Start
    BY <1>0, <2>1 DEF Share!Start, Share!TypeOK
  <2>2. ASSUME NEW on, Share!View(on) PROVE (share_drawn = share_was)' /\ (camera => share_was)'
    BY <1>0, <2>2 DEF Share!View
  <2>3. CASE UNCHANGED <<share_was, share_drawn, camera>>
    BY <1>0, <2>3
  <2> QED
    BY <2>1, <2>2, <2>3 DEF Share!Next, Share!NoClick, Share!ViewChat, Share!ViewOn, Share!ClickJoin, Share!ClickLeave, Share!ClickVideo, Share!ClickScreen,
       Share!Click, Share!ViewShare, Share!ViewCancel, Share!Enter, Share!Insert, Share!Delete, Share!JoinLost, Share!LeaveLost, Share!Lost, Share!Exit, Share!Want, Share!Tell, Share!Share, Share!Video, Share!vars, Share!view
<1>3. Plain' => Usual'
  <2>1. CASE UNCHANGED Share!vars
    BY <2>1 DEF ShareInv, Plain, Usual, Share!vars, Share!state, Share!view, OneMain, Main, Known, ShareTask, Captured, Filmed
  <2> QED
    BY <2>1, ShareUsual
<1> QED
  BY <1>1, <1>2, <1>3 DEF ShareInv, Usual

(* ShareInv gives what the frames and the server's row have to agree on.   *)
LEMMA ShareGives == ShareInv => Share!TypeOK /\ Share!SharingAgrees
<1> SUFFICES ASSUME ShareInv, Share!Settled, share_odd = {}
             PROVE  /\ capturing = flag
                    /\ flag = (share_row = "on")
                    /\ share_joined = (share_row # "none")
                    /\ camera /\ share_joined => video
  BY DEF ShareInv, Share!SharingAgrees
<1>1. \A k \in ShareClicks : share_pc[k] \in Share!Idle
  BY DEF Share!Settled, Share!Unfinished
<1> QED
  BY <1>1 DEF ShareInv, Plain, Known, Captured, Filmed, Share!Settled, Share!Keeps, Share!TypeOK, Share!Idle

(* For any number of clicks: once everything has settled, the screen is    *)
(* captured exactly if it is shared, here and in the server's row, and the *)
(* camera is off if its flag is, unless a request failed, the user went    *)
(* from channel to channel while sharing or a click came too early.        *)
THEOREM SharingSound ==
    ASSUME ShareAssumption
    PROVE  Share!Spec => [](Share!TypeOK /\ Share!SharingAgrees)
<1>1. Share!Init => ShareInv
  BY ShareInitially
<1>2. ShareInv /\ [Share!Next]_(Share!vars) => ShareInv'
  BY ShareStep
<1>3. ShareInv => Share!TypeOK /\ Share!SharingAgrees
  BY ShareGives
<1> QED
  BY <1>1, <1>2, <1>3, PTL DEF Share!Spec

-----------------------------------------------------------------------------
(* Tracks of others (RemoteTracks).                                        *)

(* A poll's place is not mistaken for a track.                             *)
TracksAssumption == MaxHandlers \in Nat /\ {"new", "look", "done"} \cap Tracks!Tracks = {}

(* A track come past is marked or about to be; a marked one is decoded, or *)
(* over for good, if it is not blind; a picture is decoded.                *)
TracksInv ==
    /\ Tracks!TypeOK
    /\ \A t \in passed : t \in handled \/ \E p \in Polls : poll[p] = t
    /\ \A t \in handled \ blind : Tracks!Decoded(t) \/ track[t] = "over"
    /\ \A t \in frames : Tracks!Decoded(t)

(* TracksInv holds at first.                                               *)
LEMMA TracksInitially == TracksAssumption /\ Tracks!Init => TracksInv
  BY DEF TracksAssumption, Tracks!Init, TracksInv, Tracks!TypeOK

(* A new session forgets every track, mark and handler at a time.          *)
LEMMA TracksNewSession ==
    ASSUME TracksAssumption, TracksInv, Tracks!NewSession, watching' \subseteq Screens, texture' \subseteq Screens
    PROVE  TracksInv'
<1>1. Tracks!TypeOK'
  BY DEF TracksAssumption, TracksInv, Tracks!TypeOK, Tracks!NewSession
<1> QED
  BY <1>1 DEF Tracks!NewSession, TracksInv

(* Every track offered, poll, handler and click keeps TracksInv.           *)
LEMMA TracksStep == ASSUME TracksAssumption, TracksInv, [Tracks!Next]_(Tracks!vars) PROVE TracksInv'
<1>0. Tracks!TypeOK
  BY DEF TracksInv
<1>1. ASSUME NEW p \in Polls, NEW ts \in SUBSET Tracks!Tracks, Tracks!Offer(p, ts) PROVE TracksInv'
  <2>1. Tracks!TypeOK'
    <3>1. track' \in [Tracks!Tracks -> {"none", "offered", "live", "over"}]
      BY <1>0, <1>1 DEF Tracks!Offer, Tracks!TypeOK
    <3>2. poll' \in [Polls -> {"new", "look", "done"} \cup Tracks!Tracks] /\ todo' \in [Polls -> SUBSET Tracks!Tracks]
      BY <1>0, <1>1 DEF Tracks!Offer, Tracks!TypeOK
    <3> QED
      BY <1>0, <1>1, <3>1, <3>2 DEF Tracks!Offer, Tracks!TypeOK
  <2>2. \A t \in passed' : t \in handled' \/ \E q \in Polls : poll'[q] = t
    <3> SUFFICES ASSUME NEW t \in passed', t \notin handled' PROVE \E q \in Polls : poll'[q] = t
      OBVIOUS
    <3>1. PICK q \in Polls : poll[q] = t
      BY <1>1 DEF Tracks!Offer, TracksInv
    <3>2. q # p /\ poll'[q] = poll[q]
      BY <1>0, <1>1, <3>1 DEF Tracks!Offer, Tracks!TypeOK, TracksAssumption
    <3> QED
      BY <3>1, <3>2
  <2>3. \A t \in handled' \ blind' : Tracks!Decoded(t)' \/ track'[t] = "over"
    BY <1>0, <1>1 DEF Tracks!Offer, TracksInv, Tracks!TypeOK, Tracks!Decoded
  <2> QED
    BY <1>1, <2>1, <2>2, <2>3 DEF Tracks!Offer, TracksInv, Tracks!Decoded
<1>2. ASSUME NEW p \in Polls, NEW t \in Tracks!Tracks, Tracks!Look(p, t) PROVE TracksInv'
  <2>1. Tracks!TypeOK'
    <3>1. poll' \in [Polls -> {"new", "look", "done"} \cup Tracks!Tracks] /\ todo' \in [Polls -> SUBSET Tracks!Tracks]
      BY <1>0, <1>2 DEF Tracks!Look, Tracks!TypeOK
    <3> QED
      BY <1>0, <1>2, <3>1 DEF Tracks!Look, Tracks!TypeOK
  <2>2. \A u \in passed' : u \in handled' \/ \E q \in Polls : poll'[q] = u
    <3> SUFFICES ASSUME NEW u \in passed', u \notin handled PROVE \E q \in Polls : poll'[q] = u
      BY <1>2 DEF Tracks!Look
    <3>1. CASE u = t /\ track[t] = "live"
      BY <1>0, <1>2, <3>1 DEF Tracks!Look, Tracks!AlreadyHandled, Tracks!TypeOK
    <3>2. CASE u \in passed
      <4>1. PICK q \in Polls : poll[q] = u
        BY <3>2 DEF TracksInv
      <4>2. q # p /\ poll'[q] = poll[q]
        BY <1>0, <1>2, <3>2, <4>1 DEF Tracks!Look, Tracks!TypeOK, TracksAssumption
      <4> QED
        BY <4>1, <4>2
    <3> QED
      BY <1>2, <3>1, <3>2 DEF Tracks!Look
  <2> QED
    BY <1>2, <2>1, <2>2 DEF Tracks!Look, TracksInv, Tracks!Decoded
<1>3. ASSUME NEW t \in Tracks!Tracks, Tracks!StartHandler(t), handled' = handled \cup {t},
             UNCHANGED <<watching, texture, track, frames, todo>>,
             poll' \in [Polls -> {"new", "look", "done"} \cup Tracks!Tracks],
             passed' \subseteq passed \cup {t},
             \A p \in Polls : poll[p] \in Tracks!Tracks => poll'[p] = poll[p] \/ poll[p] = t
      PROVE  TracksInv'
  <2>1. handlers' \in [Tracks!Tracks -> 0..MaxHandlers] /\ \A u \in Tracks!Tracks : Tracks!Decoded(u) => Tracks!Decoded(u)'
    BY <1>0, <1>3 DEF Tracks!StartHandler, Tracks!TypeOK, TracksAssumption, Tracks!Decoded
  <2>2. blind \subseteq blind' /\ blind' \subseteq blind \cup {t} /\ (Tracks!Decoded(t)' \/ t \in blind')
    BY <1>0, <1>3 DEF Tracks!StartHandler, Tracks!TypeOK, TracksAssumption, Tracks!Decoded
  <2>3. Tracks!TypeOK'
    BY <1>0, <1>3, <2>1, <2>2 DEF Tracks!TypeOK
  <2>4. \A u \in passed' : u \in handled' \/ \E q \in Polls : poll'[q] = u
    BY <1>0, <1>3 DEF TracksInv, Tracks!TypeOK
  <2> QED
    BY <1>0, <1>3, <2>1, <2>2, <2>3, <2>4 DEF TracksInv, Tracks!TypeOK
<1>4. ASSUME NEW p \in Polls, Tracks!Mark(p) PROVE TracksInv'
  <2>1. poll' \in [Polls -> {"new", "look", "done"} \cup Tracks!Tracks]
    BY <1>0, <1>4 DEF Tracks!Mark, Tracks!TypeOK
  <2>2. \A q \in Polls : poll'[q] = poll[q] \/ q = p
    BY <1>0, <1>4 DEF Tracks!Mark, Tracks!TypeOK
  <2> QED
    BY <1>3, <1>4, <2>1, <2>2 DEF Tracks!Mark, Tracks!history
<1>5. ASSUME NEW t \in Tracks!Tracks, Tracks!OnTrack(t) PROVE TracksInv'
  BY <1>0, <1>3, <1>5 DEF Tracks!OnTrack, Tracks!TypeOK
<1>6. ASSUME NEW p \in Polls, Tracks!EndRound(p) PROVE TracksInv'
  <2>1. poll' \in [Polls -> {"new", "look", "done"} \cup Tracks!Tracks] /\ todo' \in [Polls -> SUBSET Tracks!Tracks]
    BY <1>0, <1>6 DEF Tracks!EndRound, Tracks!TypeOK
  <2>2. Tracks!TypeOK'
    BY <1>0, <1>6, <2>1 DEF Tracks!EndRound, Tracks!TypeOK, Tracks!history
  <2>3. \A t \in passed' : t \in handled' \/ \E q \in Polls : poll'[q] = t
    <3> SUFFICES ASSUME NEW t \in passed, t \notin handled PROVE \E q \in Polls : poll'[q] = t
      BY <1>6 DEF Tracks!EndRound, Tracks!history
    <3>1. PICK q \in Polls : poll[q] = t
      BY DEF TracksInv
    <3>2. poll'[q] = poll[q]
      BY <1>0, <1>6, <3>1 DEF Tracks!EndRound, Tracks!TypeOK, TracksAssumption
    <3> QED
      BY <3>1, <3>2
  <2> QED
    BY <1>6, <2>2, <2>3 DEF Tracks!EndRound, TracksInv, Tracks!history, Tracks!Decoded
<1>7. ASSUME NEW t \in Tracks!Tracks, Tracks!Appear(t) \/ Tracks!Ends(t) PROVE TracksInv'
  <2>1. track' \in [Tracks!Tracks -> {"none", "offered", "live", "over"}] /\ UNCHANGED Tracks!history
    BY <1>0, <1>7 DEF Tracks!Appear, Tracks!Ends, Tracks!TypeOK, Tracks!history
  <2>2. \A u \in Tracks!Tracks : track[u] = "over" => track'[u] = "over"
    BY <1>0, <1>7 DEF Tracks!Appear, Tracks!Ends, Tracks!TypeOK
  <2>3. UNCHANGED <<watching, texture, handled, frames, poll, todo, handlers>>
    BY <1>7 DEF Tracks!Appear, Tracks!Ends
  <2> QED
    BY <1>0, <2>1, <2>2, <2>3 DEF TracksInv, Tracks!TypeOK, Tracks!Decoded, Tracks!history
<1>8. ASSUME NEW t \in Tracks!Tracks, Tracks!Decode(t) PROVE TracksInv'
  BY <1>0, <1>8 DEF Tracks!Decode, TracksInv, Tracks!TypeOK, Tracks!Decoded, Tracks!history
<1>9. ASSUME NEW t \in Tracks!Tracks, Tracks!EndHandler(t) PROVE TracksInv'
  <2>1. /\ handlers' \in [Tracks!Tracks -> 0..MaxHandlers]
        /\ \A u \in Tracks!Tracks : u # t => handlers'[u] = handlers[u]
    BY <1>0, <1>9 DEF Tracks!EndHandler, Tracks!TypeOK, Tracks!Decoded, TracksAssumption
  <2>2. track[t] = "over" /\ frames' = frames \ {t} /\ UNCHANGED <<watching, texture, track, handled, poll, todo, Tracks!history>>
    BY <1>9 DEF Tracks!EndHandler
  <2>3. Tracks!TypeOK'
    BY <1>0, <2>1, <2>2 DEF Tracks!TypeOK, Tracks!history
  <2> QED
    BY <1>0, <2>1, <2>2, <2>3 DEF TracksInv, Tracks!TypeOK, Tracks!Decoded, Tracks!history
<1>10. ASSUME NEW t \in Screens, Tracks!Watch(t) \/ Tracks!Draw(t) PROVE TracksInv'
  BY <1>0, <1>10 DEF Tracks!Watch, Tracks!Draw, TracksInv, Tracks!TypeOK, Tracks!Decoded, Tracks!history, Tracks!session
<1>11. ASSUME NEW t \in Screens, Tracks!Unwatch(t) PROVE TracksInv'
  <2>1. /\ track' \in [Tracks!Tracks -> {"none", "offered", "live", "over"}]
        /\ \A u \in Tracks!Tracks : track[u] = "over" => track'[u] = "over"
    BY <1>0, <1>11 DEF Tracks!Unwatch, Tracks!TypeOK
  <2> QED
    BY <1>0, <1>11, <2>1 DEF Tracks!Unwatch, TracksInv, Tracks!TypeOK, Tracks!Decoded, Tracks!history
<1>12. CASE Tracks!Switch \/ Tracks!Disconnect
  BY <1>0, <1>12, TracksNewSession DEF Tracks!Switch, Tracks!Disconnect, Tracks!TypeOK
<1>13. CASE UNCHANGED Tracks!vars
  BY <1>13 DEF Tracks!vars, Tracks!session, Tracks!history, TracksInv, Tracks!TypeOK, Tracks!Decoded
<1> QED
  BY <1>1, <1>2, <1>4, <1>5, <1>6, <1>7, <1>8, <1>9, <1>10, <1>11, <1>12, <1>13 DEF Tracks!Next

(* TracksInv gives that a track that is watched and live has its handler.  *)
LEMMA TracksGive == ASSUME TracksAssumption, TracksInv PROVE Tracks!TypeOK /\ Tracks!TracksDecoded
<1>1. \A p \in Polls : Tracks!Polled => poll[p] \notin Tracks!Tracks
  BY DEF Tracks!Polled, TracksAssumption
<1> QED
  BY <1>1 DEF TracksInv, Tracks!TracksDecoded, Tracks!TypeOK

(* For any tracks and any number of polls: a track come past while it was  *)
(* live is decoded once the polls are over, unless it came back after its  *)
(* end or no decoder could be made, and a picture there is is still        *)
(* decoded.                                                                *)
THEOREM TracksSound ==
    ASSUME TracksAssumption
    PROVE  Tracks!Spec => [](Tracks!TypeOK /\ Tracks!TracksDecoded)
<1>1. Tracks!Init => TracksInv
  BY TracksInitially
<1>2. TracksInv /\ [Tracks!Next]_(Tracks!vars) => TracksInv'
  BY TracksStep
<1>3. TracksInv => Tracks!TypeOK /\ Tracks!TracksDecoded
  BY TracksGive
<1> QED
  BY <1>1, <1>2, <1>3, PTL DEF Tracks!Spec

-----------------------------------------------------------------------------
(* A video stream (VideoStream).                                           *)

VideoAssumption == MaxFrames \in Nat /\ MaxTries \in Nat

(* Every frame is encoded once, at most.                                   *)
Counted ==
    /\ IsFiniteSet(sending)
    /\ encoded + Cardinality(sending) <= captured

(* From the i-th fragment that came, a start, on, there were only middles. *)
Going(i) ==
    came[i][2] = "start" /\ \A k \in i + 1 .. Len(came) : came[k][2] = "middle"

(* The buffer holds what came from the last start on, unless its end has   *)
(* come as well.                                                           *)
Buffering ==
    /\ \A i \in DOMAIN came : Going(i) => buffer = SubSeq(came, i, Len(came))
    /\ buffer # <<>> => \E i \in DOMAIN came : Going(i)

(* The decoder's side, which nothing before it can spoil.                  *)
Received == Buffering /\ Video!SamplesSurvive

VideoInv == Video!TypeOK /\ Counted /\ Received

(* A part of a queue is a queue.                                           *)
LEMMA Part ==
    ASSUME NEW S, NEW q \in Seq(S), NEW i \in 1..Len(q), NEW j \in 1..Len(q), i <= j + 1
    PROVE  /\ SubSeq(q, i, j) \in Seq(S) /\ Len(SubSeq(q, i, j)) = j - i + 1
           /\ \A k \in 1 .. j - i + 1 : SubSeq(q, i, j)[k] = q[k + i - 1]
  OBVIOUS

(* A queue with one element more at its end.                               *)
LEMMA Put ==
    ASSUME NEW S, NEW q \in Seq(S), NEW x \in S
    PROVE  /\ Append(q, x) \in Seq(S) /\ Len(Append(q, x)) = Len(q) + 1 /\ Len(q) \in Nat
           /\ \A i \in 1..Len(q) : Append(q, x)[i] = q[i]
           /\ Append(q, x)[Len(q) + 1] = x
           /\ Append(q, x) # <<>>
  OBVIOUS

(* Queues with the same elements are the same.                             *)
LEMMA Same ==
    ASSUME NEW S, NEW q \in Seq(S), NEW r \in Seq(S), Len(q) = Len(r),
           \A k \in 1..Len(q) : q[k] = r[k]
    PROVE  q = r
  OBVIOUS

(* The parts of a queue are there with one element more, and a part up to  *)
(* its end has that element more.                                          *)
LEMMA PartPut ==
    ASSUME NEW S, NEW q \in Seq(S), NEW x \in S, NEW i \in 1..Len(q)
    PROVE  /\ \A j \in i..Len(q) : SubSeq(Append(q, x), i, j) = SubSeq(q, i, j)
           /\ SubSeq(Append(q, x), i, Len(q) + 1) = Append(SubSeq(q, i, Len(q)), x)
<1> DEFINE r == Append(q, x)
<1>1. r \in Seq(S) /\ Len(r) = Len(q) + 1 /\ Len(q) \in Nat /\ (\A k \in 1..Len(q) : r[k] = q[k])
      /\ r[Len(q) + 1] = x
  BY Put
<1> HIDE DEF r
<1>2. ASSUME NEW j \in i..Len(q) PROVE SubSeq(r, i, j) = SubSeq(q, i, j)
  <2>1. j \in 1..Len(q) /\ j \in 1..Len(r) /\ i \in 1..Len(r) /\ i <= j + 1
    BY <1>1
  <2>2. /\ SubSeq(r, i, j) \in Seq(S) /\ Len(SubSeq(r, i, j)) = j - i + 1
        /\ \A k \in 1 .. j - i + 1 : SubSeq(r, i, j)[k] = r[k + i - 1]
    BY <1>1, <2>1, Part
  <2>3. /\ SubSeq(q, i, j) \in Seq(S) /\ Len(SubSeq(q, i, j)) = j - i + 1
        /\ \A k \in 1 .. j - i + 1 : SubSeq(q, i, j)[k] = q[k + i - 1]
    BY <2>1, Part
  <2>4. \A k \in 1 .. j - i + 1 : k + i - 1 \in 1..Len(q)
    BY <1>1, <2>1
  <2> QED
    BY <1>1, <2>2, <2>3, <2>4, Same
<1>3. SubSeq(r, i, Len(q) + 1) = Append(SubSeq(q, i, Len(q)), x)
  <2> DEFINE n == Len(q)
             s == SubSeq(q, i, n)
  <2>1. n + 1 \in 1..Len(r) /\ i \in 1..Len(r) /\ i <= n + 2 /\ n \in 1..Len(q) /\ i <= n + 1
    BY <1>1
  <2>2. /\ SubSeq(r, i, n + 1) \in Seq(S) /\ Len(SubSeq(r, i, n + 1)) = n - i + 2
        /\ \A k \in 1 .. n - i + 2 : SubSeq(r, i, n + 1)[k] = r[k + i - 1]
    BY <1>1, <2>1, Part
  <2>3. s \in Seq(S) /\ Len(s) = n - i + 1 /\ \A k \in 1 .. n - i + 1 : s[k] = q[k + i - 1]
    BY <2>1, Part
  <2> HIDE DEF s
  <2>4. /\ Append(s, x) \in Seq(S) /\ Len(Append(s, x)) = n - i + 2
        /\ \A k \in 1 .. n - i + 1 : Append(s, x)[k] = s[k]
        /\ Append(s, x)[n - i + 2] = x
    <3>1. /\ Append(s, x) \in Seq(S) /\ Len(Append(s, x)) = Len(s) + 1
          /\ \A k \in 1..Len(s) : Append(s, x)[k] = s[k]
          /\ Append(s, x)[Len(s) + 1] = x
      <4>1. s \in Seq(S)
        BY <2>3
      <4> QED
        BY <4>1, Put
    <3>2. Len(s) = n - i + 1 /\ Len(s) + 1 = n - i + 2
      BY <2>1, <2>3
    <3> QED
      BY <3>1, <3>2
  <2>5. ASSUME NEW k \in 1 .. n - i + 2 PROVE SubSeq(r, i, n + 1)[k] = Append(s, x)[k]
    <3>1. CASE k = n - i + 2
      <4>1. k + i - 1 = n + 1
        BY <2>1, <3>1
      <4> QED
        BY <1>1, <2>2, <2>4, <3>1, <4>1
    <3>2. CASE k # n - i + 2
      <4>1. k \in 1 .. n - i + 1 /\ k + i - 1 \in 1..n
        BY <1>1, <2>1, <3>2
      <4> QED
        BY <1>1, <2>2, <2>3, <2>4, <4>1
    <3> QED
      BY <3>1, <3>2
  <2>6. SubSeq(r, i, n + 1) = Append(s, x)
    BY <2>2, <2>4, <2>5, Same
  <2> QED
    BY <2>6 DEF s
<1> QED
  BY <1>2, <1>3 DEF r

(* VideoInv holds at first.                                                *)
LEMMA VideoInitially == VideoAssumption /\ Video!Init => VideoInv
<1> SUFFICES ASSUME VideoAssumption, Video!Init PROVE VideoInv
  OBVIOUS
<1>1. Video!TypeOK
  <2>1. 0 \in 0..MaxFrames /\ 0 \in 0..MaxTries
    BY DEF VideoAssumption
  <2>2. inside \in Seq(Video!Frames \X BOOLEAN) /\ buffer \in Seq(Video!Packets) /\ came \in Seq(Video!Packets)
    BY DEF Video!Init
  <2> QED
    BY <2>1, <2>2 DEF Video!Init, Video!TypeOK
<1>2. Counted
  BY FS_EmptySet DEF Video!Init, Counted
<1>3. Received
  <2>1. came = <<>> /\ buffer = <<>> /\ torn = {} /\ handed = {} /\ alone = {}
    BY DEF Video!Init
  <2>2. \A n \in Video!Frames : ~Video!InARow(n)
    BY <2>1 DEF Video!InARow
  <2> QED
    BY <2>1, <2>2 DEF Received, Buffering, Video!SamplesSurvive
<1> QED
  BY <1>1, <1>2, <1>3 DEF VideoInv

(* What reads the same on the decoder's side is still as it was.           *)
LEMMA Unreceived ==
    ASSUME Received, UNCHANGED <<Video!decoder, Video!history>> PROVE Received'
  BY DEF Received, Buffering, Video!SamplesSurvive, Going, Video!InARow, Video!Stretch, Video!decoder, Video!history

(* A fragment that comes: what was in a row, or a stretch, before still is.*)
LEMMA CameMore ==
    ASSUME Video!TypeOK, NEW p \in Video!Packets, came' = Append(came, p)
    PROVE  /\ \A n \in Video!Frames : Video!InARow(n) => Video!InARow(n)'
           /\ \A nal : Video!Stretch(nal) => Video!Stretch(nal)'
<1> DEFINE c == came
           d == Append(came, p)
<1>1. came \in Seq(Video!Packets)
  BY DEF Video!TypeOK
<1>2. d \in Seq(Video!Packets) /\ Len(d) = Len(c) + 1 /\ Len(c) \in Nat /\ \A k \in 1..Len(c) : d[k] = c[k]
  BY <1>1, Put
<1>3. came' = d
  OBVIOUS
<1> HIDE DEF d
<1>4. ASSUME NEW i \in 1..Len(c), NEW j \in i..Len(c) PROVE SubSeq(d, i, j) = SubSeq(c, i, j)
  BY <1>1, <1>4, PartPut DEF d
<1>5. ASSUME NEW n \in Video!Frames, Video!InARow(n) PROVE Video!InARow(n)'
  <2>1. PICK i \in 1 .. Len(c) - 2 : SubSeq(c, i, i + 2) = Video!Fragments(n)
    BY <1>5 DEF Video!InARow
  <2>2. i \in 1..Len(c) /\ i + 2 \in i..Len(c) /\ i \in 1 .. Len(d) - 2
    BY <1>2
  <2>3. SubSeq(d, i, i + 2) = Video!Fragments(n)
    BY <1>4, <2>1, <2>2
  <2> QED
    BY <1>3, <2>2, <2>3 DEF Video!InARow
<1>6. ASSUME NEW nal, Video!Stretch(nal) PROVE Video!Stretch(nal)'
  <2>1. PICK i \in DOMAIN c, j \in DOMAIN c :
          /\ nal = SubSeq(c, i, j)
          /\ c[i][2] = "start" /\ c[j][2] = "end"
          /\ \A k \in i + 1 .. j - 1 : c[k][2] = "middle"
    BY <1>6 DEF Video!Stretch
  <2>2. DOMAIN c = 1..Len(c) /\ DOMAIN d = 1..Len(d)
    BY <1>1, <1>2
  <2>3. i \in 1..Len(c) /\ j \in 1..Len(c) /\ i \in DOMAIN d /\ j \in DOMAIN d
    BY <1>2, <2>1, <2>2
  <2>4. SubSeq(d, i, j) = nal
    <3>1. CASE i <= j
      BY <1>4, <2>1, <2>3, <3>1
    <3>2. CASE i > j
      <4>1. SubSeq(d, i, j) = <<>>
        BY <1>2, <2>2, <2>3, <3>2
      <4>2. SubSeq(c, i, j) = <<>>
        BY <1>1, <2>2, <2>3, <3>2
      <4> QED
        BY <2>1, <4>1, <4>2
    <3> QED
      BY <2>3, <3>1, <3>2
  <2>5. ASSUME NEW k \in i + 1 .. j - 1 PROVE d[k][2] = "middle"
    <3>1. k \in 1..Len(c) /\ c[k][2] = "middle"
      BY <2>1, <2>3
    <3> QED
      BY <1>2, <3>1
  <2>6. d[i][2] = "start" /\ d[j][2] = "end"
    BY <1>2, <2>1, <2>3
  <2> QED
    BY <1>3, <2>3, <2>4, <2>5, <2>6 DEF Video!Stretch
<1> QED
  BY <1>5, <1>6

(* A fragment that comes: a stretch goes on with a middle and begins with a *)
(* start.                                                                  *)
LEMMA GoingMore ==
    ASSUME Video!TypeOK, NEW p \in Video!Packets, came' = Append(came, p)
    PROVE  /\ DOMAIN came = 1..Len(came) /\ DOMAIN came' = 1 .. Len(came) + 1
           /\ Len(came) \in Nat /\ Len(came') = Len(came) + 1
           /\ \A i \in 1..Len(came) : Going(i)' <=> Going(i) /\ p[2] = "middle"
           /\ \A i : i = Len(came) + 1 => (Going(i)' <=> p[2] = "start")
<1>1. came \in Seq(Video!Packets)
  BY DEF Video!TypeOK
<1>2. /\ came' \in Seq(Video!Packets) /\ Len(came') = Len(came) + 1 /\ Len(came) \in Nat
      /\ \A k \in 1..Len(came) : came'[k] = came[k]
      /\ came'[Len(came) + 1] = p
  BY <1>1, Put
<1>3. ASSUME NEW i \in 1..Len(came) PROVE Going(i)' <=> Going(i) /\ p[2] = "middle"
  <2>1. \A k : k \in i + 1 .. Len(came') <=> k \in i + 1 .. Len(came) \/ k = Len(came) + 1
    BY <1>2
  <2>2. \A k \in i + 1 .. Len(came) : k \in 1..Len(came)
    BY <1>2
  <2> QED
    BY <1>2, <2>1, <2>2 DEF Going
<1>4. ASSUME NEW i, i = Len(came) + 1 PROVE Going(i)' <=> p[2] = "start"
  <2>1. i + 1 .. Len(came') = {}
    BY <1>2, <1>4
  <2> QED
    BY <1>2, <1>4, <2>1 DEF Going
<1> QED
  BY <1>1, <1>2, <1>3, <1>4

(* A fragment that comes: what is in a row with it is what came last.      *)
LEMMA RowMore ==
    ASSUME Video!TypeOK, NEW p \in Video!Packets, came' = Append(came, p), NEW n \in Video!Frames, Video!InARow(n)', ~Video!InARow(n)
    PROVE  /\ Len(came) \in Nat /\ Len(came) >= 2
           /\ SubSeq(came', Len(came) - 1, Len(came) + 1) = Video!Fragments(n)
           /\ came[Len(came) - 1] = <<n, "start">> /\ came[Len(came)] = <<n, "middle">>
           /\ p = <<n, "end">>
<1> DEFINE c == came
           d == came'
<1>1. came \in Seq(Video!Packets)
  BY DEF Video!TypeOK
<1>2. d \in Seq(Video!Packets) /\ Len(d) = Len(c) + 1 /\ Len(c) \in Nat
      /\ (\A k \in 1..Len(c) : d[k] = c[k]) /\ d[Len(c) + 1] = p
  BY <1>1, Put
<1>3. PICK i \in 1 .. Len(d) - 2 : SubSeq(d, i, i + 2) = Video!Fragments(n)
  BY DEF Video!InARow
<1>4. i = Len(c) - 1
  <2> SUFFICES ASSUME i # Len(c) - 1 PROVE FALSE
    OBVIOUS
  <2>1. i \in 1 .. Len(c) - 2 /\ i \in 1..Len(c) /\ i + 2 \in i..Len(c)
    BY <1>2, <1>3
  <2>2. SubSeq(d, i, i + 2) = SubSeq(c, i, i + 2)
    BY <1>1, <2>1, PartPut
  <2> QED
    BY <1>3, <2>1, <2>2 DEF Video!InARow
<1>5. /\ i \in 1..Len(d) /\ i + 2 \in 1..Len(d) /\ i <= i + 2 + 1
      /\ i + 2 = Len(c) + 1 /\ i + 1 = Len(c) /\ Len(c) >= 2
  BY <1>2, <1>3, <1>4
<1>6. \A k \in 1 .. (i + 2) - i + 1 : SubSeq(d, i, i + 2)[k] = d[k + i - 1]
  BY <1>2, <1>5, Part
<1>7. /\ Video!Fragments(n)[1] = d[i] /\ Video!Fragments(n)[2] = d[i + 1] /\ Video!Fragments(n)[3] = d[i + 2]
  <2>1. 1 + i - 1 = i /\ 2 + i - 1 = i + 1 /\ 3 + i - 1 = i + 2 /\ (i + 2) - i + 1 = 3
    BY <1>5
  <2>2. 1 \in 1..3 /\ 2 \in 1..3 /\ 3 \in 1..3
    OBVIOUS
  <2> QED
    BY <1>3, <1>6, <2>1, <2>2
<1>8. d[i] = <<n, "start">> /\ d[i + 1] = <<n, "middle">> /\ d[i + 2] = <<n, "end">>
  BY <1>7 DEF Video!Fragments
<1>9. SubSeq(came', Len(came) - 1, Len(came) + 1) = Video!Fragments(n)
  BY <1>3, <1>4, <1>5
<1>10. came[Len(came) - 1] = <<n, "start">> /\ came[Len(came)] = <<n, "middle">> /\ p = <<n, "end">>
  <2>1. i \in 1..Len(c) /\ i + 1 \in 1..Len(c)
    BY <1>2, <1>5
  <2>2. d[i] = c[i] /\ d[i + 1] = c[i + 1] /\ d[i + 2] = p
    BY <1>2, <1>5, <2>1
  <2> QED
    BY <1>4, <1>5, <1>8, <2>2
<1> QED
  BY <1>2, <1>5, <1>9, <1>10

(* What the depayloader makes of a packet keeps the decoder's side.        *)
LEMMA DepayloadStep ==
    ASSUME Video!TypeOK, Received, NEW p \in Video!Packets, Video!Depayload(p),
           alone' = IF p[2] = "one" THEN alone \cup {p[1]} ELSE alone,
           came' = IF p[2] = "one" THEN came ELSE Append(came, p)
    PROVE  /\ Received'
           /\ buffer' \in Seq(Video!Packets) /\ torn' \subseteq Seq(Video!Packets) /\ handed' \subseteq Video!Frames
           /\ alone' \subseteq Video!Frames /\ came' \in Seq(Video!Packets)
<1>0. /\ buffer \in Seq(Video!Packets) /\ torn \subseteq Seq(Video!Packets) /\ handed \subseteq Video!Frames
      /\ alone \subseteq Video!Frames /\ came \in Seq(Video!Packets)
      /\ p[1] \in Video!Frames /\ p[2] \in Video!Parts /\ p = <<p[1], p[2]>>
  BY DEF Video!TypeOK, Video!Packets
<1>1. Buffering /\ Video!SamplesSurvive
  BY DEF Received
<1>2. CASE p[2] = "one"
  <2>1. p = <<p[1], "one">>
    BY <1>0, <1>2
  <2>2. <<p>>[1] = p
    OBVIOUS
  <2>3. Video!Whole(<<p>>)
    BY <2>1, <2>2 DEF Video!Whole
  <2>4. handed' = handed \cup {p[1]} /\ torn' = torn /\ buffer' = buffer
    BY <1>2, <2>2, <2>3 DEF Video!Depayload, Video!Hand
  <2>5. alone' = alone \cup {p[1]} /\ came' = came
    BY <1>2
  <2>6. Buffering'
    BY <1>1, <2>4, <2>5 DEF Buffering, Going
  <2>7. Video!SamplesSurvive'
    BY <1>1, <2>4, <2>5 DEF Video!SamplesSurvive, Video!InARow, Video!Stretch
  <2> QED
    BY <1>0, <2>4, <2>5, <2>6, <2>7 DEF Received
<1>3. CASE p[2] # "one"
  <2> DEFINE now == Video!Buffered(p)
             len == Len(came)
  <2>1. came' = Append(came, p) /\ alone' = alone
    BY <1>3
  <2>2. /\ \A n \in Video!Frames : Video!InARow(n) => Video!InARow(n)'
        /\ \A nal : Video!Stretch(nal) => Video!Stretch(nal)'
    BY <2>1, CameMore
  <2>3. /\ DOMAIN came = 1..len /\ DOMAIN came' = 1 .. len + 1
        /\ len \in Nat /\ Len(came') = len + 1
        /\ \A i \in 1..len : Going(i)' <=> Going(i) /\ p[2] = "middle"
        /\ \A i : i = len + 1 => (Going(i)' <=> p[2] = "start")
    BY <2>1, GoingMore
  <2>4. \A n \in Video!Frames : Video!InARow(n)' /\ ~Video!InARow(n) =>
          /\ len >= 2
          /\ SubSeq(came', len - 1, len + 1) = Video!Fragments(n)
          /\ came[len - 1] = <<n, "start">> /\ came[len] = <<n, "middle">>
          /\ p = <<n, "end">>
    BY <2>1, RowMore
  <2>5. \A i \in 1..len : SubSeq(came', i, len + 1) = Append(SubSeq(came, i, len), p)
    BY <1>0, <2>1, PartPut
  <2>6. came' \in Seq(Video!Packets) /\ came'[len + 1] = p /\ \A k \in 1..len : came'[k] = came[k]
    BY <1>0, <2>1, Put
  <2>7. ASSUME p[2] # "end" PROVE buffer' = now /\ torn' = torn /\ handed' = handed
    BY <1>3, <2>7 DEF Video!Depayload
  <2>8. ASSUME p[2] # "end" PROVE Video!SamplesSurvive'
    <3>1. \A n \in Video!Frames : Video!InARow(n)' => Video!InARow(n)
      BY <2>4, <2>8
    <3> QED
      BY <1>1, <2>1, <2>2, <2>7, <2>8, <3>1 DEF Video!SamplesSurvive
  <2> HIDE DEF now
  <2>9. CASE p[2] = "start"
    <3>1. now = <<p>>
      BY <2>9 DEF now, Video!Buffered
    <3>2. SubSeq(came', len + 1, len + 1) = <<p>>
      <4> DEFINE q == SubSeq(came', len + 1, len + 1)
      <4>1. len + 1 \in 1..Len(came') /\ len + 1 <= len + 1 + 1
        BY <2>3
      <4>2. /\ q \in Seq(Video!Packets) /\ Len(q) = (len + 1) - (len + 1) + 1
            /\ \A k \in 1 .. (len + 1) - (len + 1) + 1 : q[k] = came'[k + (len + 1) - 1]
        BY <2>6, <4>1, Part
      <4>3. Len(q) = 1 /\ q[1] = p
        BY <2>3, <2>6, <4>2
      <4>4. <<p>> \in Seq(Video!Packets) /\ Len(<<p>>) = 1 /\ <<p>>[1] = p
        OBVIOUS
      <4> HIDE DEF q
      <4>5. q = <<p>>
        BY <4>2, <4>3, <4>4, Same
      <4> QED
        BY <4>5 DEF q
    <3>3. Buffering'
      BY <2>3, <2>7, <2>9, <3>1, <3>2 DEF Buffering
    <3>4. <<p>> \in Seq(Video!Packets)
      OBVIOUS
    <3> QED
      BY <1>0, <2>1, <2>6, <2>7, <2>8, <2>9, <3>1, <3>3, <3>4 DEF Received
  <2>10. CASE p[2] = "middle"
    <3>1. CASE buffer = <<>>
      <4>1. now = <<>>
        BY <2>10, <3>1 DEF now, Video!Buffered
      <4>2. \A i \in 1..len : ~Going(i)
        <5> SUFFICES ASSUME NEW i \in 1..len, Going(i) PROVE FALSE
          OBVIOUS
        <5>1. SubSeq(came, i, len) = <<>>
          BY <1>1, <2>3, <3>1 DEF Buffering
        <5>2. Len(SubSeq(came, i, len)) = len - i + 1
          BY <1>0, <2>3
        <5>3. Len(SubSeq(came, i, len)) = 0
          BY <5>1
        <5> QED
          BY <2>3, <5>2, <5>3
      <4>3. Buffering'
        BY <2>3, <2>7, <2>10, <4>1, <4>2 DEF Buffering
      <4>4. buffer' \in Seq(Video!Packets)
        BY <1>0, <2>7, <2>10, <3>1, <4>1
      <4> QED
        BY <1>0, <2>1, <2>6, <2>7, <2>8, <2>10, <4>3, <4>4 DEF Received
    <3>2. CASE buffer # <<>>
      <4>1. now = Append(buffer, p)
        BY <2>10, <3>2 DEF now, Video!Buffered
      <4>2. PICK i \in 1..len : Going(i)
        BY <1>1, <2>3, <3>2 DEF Buffering
      <4>3. i \in 1 .. len + 1 /\ Going(i)'
        BY <2>3, <2>10, <4>2
      <4>4. \A j \in 1 .. len + 1 : Going(j)' => SubSeq(came', j, len + 1) = now
        <5> SUFFICES ASSUME NEW j \in 1 .. len + 1, Going(j)' PROVE SubSeq(came', j, len + 1) = now
          OBVIOUS
        <5>1. j \in 1..len /\ Going(j)
          BY <2>3, <2>10
        <5>2. buffer = SubSeq(came, j, len)
          BY <1>1, <2>3, <5>1 DEF Buffering
        <5> QED
          BY <2>5, <4>1, <5>1, <5>2
      <4>5. Buffering'
        BY <2>3, <2>7, <2>10, <4>3, <4>4 DEF Buffering
      <4>6. now \in Seq(Video!Packets)
        BY <1>0, <4>1
      <4> QED
        BY <1>0, <2>1, <2>6, <2>7, <2>8, <2>10, <4>5, <4>6 DEF Received
    <3> QED
      BY <3>1, <3>2
  <2>11. CASE p[2] = "end"
    <3>1. \A i \in 1 .. len + 1 : ~Going(i)'
      BY <2>3, <2>11
    <3>2. ASSUME buffer' = <<>> PROVE Buffering'
      BY <2>3, <3>1, <3>2 DEF Buffering
    <3>3. CASE buffer = <<>>
      <4>1. now = <<>>
        BY <2>11, <3>3 DEF now, Video!Buffered
      <4>2. buffer' = <<>> /\ torn' = torn /\ handed' = handed
        BY <2>11, <4>1 DEF Video!Depayload, now
      <4>3. \A n \in Video!Frames : Video!InARow(n)' => Video!InARow(n)
        <5> SUFFICES ASSUME NEW n \in Video!Frames, Video!InARow(n)', ~Video!InARow(n) PROVE FALSE
          OBVIOUS
        <5>1. len >= 2 /\ came[len - 1] = <<n, "start">> /\ came[len] = <<n, "middle">>
          BY <2>4
        <5>2. len - 1 \in 1..len /\ (len - 1) + 1 = len
          BY <2>3, <5>1
        <5>3. Going(len - 1)
          <6>1. \A k \in (len - 1) + 1 .. len : k = len
            <7>1. len \in Nat
              BY <2>3
            <7> HIDE DEF len
            <7> QED
              BY <7>1
          <6>2. came[len - 1][2] = "start" /\ came[len][2] = "middle"
            BY <5>1
          <6> QED
            BY <6>1, <6>2 DEF Going
        <5>4. SubSeq(came, len - 1, len) = <<>>
          BY <1>1, <2>3, <3>3, <5>2, <5>3 DEF Buffering
        <5>5. Len(SubSeq(came, len - 1, len)) = 2
          BY <1>0, <2>3, <5>1
        <5>6. Len(SubSeq(came, len - 1, len)) = 0
          <6>1. Len(<<>>) = 0
            OBVIOUS
          <6> QED
            BY <5>4, <6>1
        <5> QED
          BY <5>5, <5>6
      <4>4. Video!SamplesSurvive'
        BY <1>1, <2>1, <2>2, <4>2, <4>3 DEF Video!SamplesSurvive
      <4> QED
        BY <1>0, <2>1, <2>6, <3>2, <4>2, <4>4 DEF Received
    <3>4. CASE buffer # <<>>
      <4>0. PICK nal : nal = now
        OBVIOUS
      <4>1. nal = Append(buffer, p)
        BY <2>11, <3>4, <4>0 DEF now, Video!Buffered
      <4>2. nal \in Seq(Video!Packets) /\ nal # <<>>
        BY <1>0, <4>1, Put
      <4>3. buffer' = <<>> /\ Video!Hand(nal)
        BY <2>11, <4>0, <4>2 DEF Video!Depayload, now
      <4>4. PICK i \in 1..len : Going(i)
        BY <1>1, <2>3, <3>4 DEF Buffering
      <4>5. buffer = SubSeq(came, i, len) /\ nal = SubSeq(came', i, len + 1)
        BY <1>1, <2>3, <2>5, <4>1, <4>4 DEF Buffering
      <4>6. Len(nal) = len - i + 2
        BY <2>3, <2>6, <4>5
      <4>7. nal[1] = came[i]
        BY <2>3, <2>6, <4>5
      <4>8. came[i] \in Video!Packets /\ came[i][1] \in Video!Frames /\ came[i][2] = "start"
        BY <1>0, <4>4 DEF Going, Video!Packets
      <4> DEFINE n == nal[1][1]
      <4>9. n \in Video!Frames
        BY <4>7, <4>8
      <4>10. Video!Whole(nal) <=> nal = Video!Fragments(n)
        <5>1. nal # << <<n, "one">> >>
          BY <2>3, <4>4, <4>6
        <5> QED
          BY <5>1 DEF Video!Whole
      <4>11. Video!Whole(nal) => Video!InARow(n)'
        <5> SUFFICES ASSUME Video!Whole(nal) PROVE Video!InARow(n)'
          OBVIOUS
        <5>1. nal = Video!Fragments(n)
          BY <4>10
        <5>2. Len(nal) = 3
          BY <5>1 DEF Video!Fragments
        <5>3. i = len - 1 /\ i \in 1 .. (len + 1) - 2 /\ i + 2 = len + 1
          <6>1. len - i + 2 = 3
            BY <4>6, <5>2
          <6>2. len \in Nat /\ i \in 1..len
            BY <2>3
          <6> HIDE DEF len
          <6> QED
            BY <6>1, <6>2
        <5>4. i \in 1 .. Len(came') - 2 /\ SubSeq(came', i, i + 2) = Video!Fragments(n)
          BY <2>3, <4>5, <5>1, <5>3
        <5> QED
          BY <5>4 DEF Video!InARow
      <4>12. \A m \in Video!Frames : Video!InARow(m)' /\ ~Video!InARow(m) => Video!Whole(nal) /\ m = n
        <5> SUFFICES ASSUME NEW m \in Video!Frames, Video!InARow(m)', ~Video!InARow(m) PROVE Video!Whole(nal) /\ m = n
          OBVIOUS
        <5>1. /\ len >= 2 /\ came[len - 1] = <<m, "start">> /\ came[len] = <<m, "middle">>
              /\ SubSeq(came', len - 1, len + 1) = Video!Fragments(m)
          BY <2>4
        <5>2. len - 1 \in 1..len /\ (len - 1) + 1 = len
          BY <2>3, <5>1
        <5>3. Going(len - 1)
          <6>1. \A k \in (len - 1) + 1 .. len : k = len
            <7>1. len \in Nat
              BY <2>3
            <7> HIDE DEF len
            <7> QED
              BY <7>1
          <6>2. came[len - 1][2] = "start" /\ came[len][2] = "middle"
            BY <5>1
          <6> QED
            BY <6>1, <6>2 DEF Going
        <5>4. buffer = SubSeq(came, len - 1, len)
          BY <1>1, <2>3, <5>2, <5>3 DEF Buffering
        <5>5. nal = SubSeq(came', len - 1, len + 1)
          BY <2>5, <4>1, <5>2, <5>4
        <5>6. nal = Video!Fragments(m)
          BY <5>1, <5>5
        <5>7. nal[1] = <<m, "start">>
          BY <5>6 DEF Video!Fragments
        <5> QED
          BY <4>10, <5>6, <5>7
      <4>13. CASE Video!Whole(nal)
        <5>1. handed' = handed \cup {n} /\ torn' = torn
          BY <4>3, <4>13 DEF Video!Hand
        <5>2. \A m \in Video!Frames : Video!InARow(m)' <=> Video!InARow(m) \/ m = n
          BY <2>2, <4>9, <4>11, <4>12, <4>13
        <5>3. Video!SamplesSurvive'
          BY <1>1, <2>1, <2>2, <4>9, <5>1, <5>2 DEF Video!SamplesSurvive
        <5> QED
          BY <1>0, <2>1, <2>6, <3>2, <4>3, <4>9, <5>1, <5>3 DEF Received
      <4>14. CASE ~Video!Whole(nal)
        <5>1. handed' = handed /\ torn' = torn \cup {nal}
          BY <4>3, <4>14 DEF Video!Hand
        <5>2. \A m \in Video!Frames : Video!InARow(m)' <=> Video!InARow(m)
          BY <2>2, <4>12, <4>14
        <5>3. Video!Stretch(nal)'
          <6>1. i \in DOMAIN came' /\ len + 1 \in DOMAIN came'
            BY <2>3
          <6>2. came'[i][2] = "start" /\ came'[len + 1][2] = "end"
            BY <2>6, <2>11, <4>8
          <6>3. \A k \in i + 1 .. (len + 1) - 1 : came'[k][2] = "middle"
            <7>1. \A k \in i + 1 .. (len + 1) - 1 : k \in i + 1 .. len /\ k \in 1..len
              BY <2>3
            <7> QED
              BY <2>6, <4>4, <7>1 DEF Going
          <6> QED
            BY <4>5, <6>1, <6>2, <6>3 DEF Video!Stretch
        <5>4. Video!SamplesSurvive'
          BY <1>1, <2>1, <2>2, <5>1, <5>2, <5>3 DEF Video!SamplesSurvive
        <5> QED
          BY <1>0, <2>1, <2>6, <3>2, <4>2, <4>3, <5>1, <5>4 DEF Received
      <4> QED
        BY <4>13, <4>14
    <3> QED
      BY <3>3, <3>4
  <2> QED
    BY <1>0, <1>3, <2>9, <2>10, <2>11 DEF Video!Parts
<1> QED
  BY <1>2, <1>3

(* A frame goes into the encoder, and what comes out is written.           *)
LEMMA EncodeStep ==
    ASSUME VideoAssumption, VideoInv, NEW f \in Video!Frames, NEW large \in BOOLEAN,
           NEW anew \in BOOLEAN, Video!Encode(f, large, anew)
    PROVE  VideoInv'
<1> DEFINE sample == <<encoded + 1, large>>
           before == IF anew THEN <<>> ELSE inside
           all    == Append(before, sample)
<1>0. Video!TypeOK /\ Counted /\ Received
  BY DEF VideoInv
<1>1. /\ f \in sending /\ sending' = sending \ {f} /\ encoded' = encoded + 1
      /\ UNCHANGED <<captured, wire, router, tries, video_joined, Video!decoder, Video!history, gone>>
  BY DEF Video!Encode
<1>2. PICK ready \in 0..Len(all) :
         /\ inside' = SubSeq(all, ready + 1, Len(all))
         /\ writing' = IF ready = 0 THEN writing ELSE writing \cup {Video!FirstOf(all[ready])}
  BY DEF Video!Encode
<1>3. /\ IsFiniteSet(sending') /\ Cardinality(sending') = Cardinality(sending) - 1
      /\ Cardinality(sending) \in Nat /\ Cardinality(sending') \in Nat
  BY <1>0, <1>1, FS_RemoveElement, FS_CardinalityType DEF Counted
<1>4. Counted' /\ encoded + 1 \in Video!Frames /\ encoded \in Nat
  BY <1>0, <1>1, <1>3 DEF Counted, Video!TypeOK, Video!Frames, VideoAssumption
<1>5. before \in Seq(Video!Frames \X BOOLEAN) /\ Len(before) \in Nat
  BY <1>0 DEF Video!TypeOK
<1>6. sample \in Video!Frames \X BOOLEAN
  BY <1>4
<1> HIDE DEF before, sample
<1>7. all \in Seq(Video!Frames \X BOOLEAN) /\ Len(all) \in Nat
  BY <1>5, <1>6, Put
<1> HIDE DEF all
<1>8. inside' \in Seq(Video!Frames \X BOOLEAN)
  BY <1>2, <1>7
<1>9. writing' \subseteq Video!Packets
  <2>1. CASE ready = 0
    BY <1>0, <1>2, <2>1 DEF Video!TypeOK
  <2>2. CASE ready # 0
    <3>1. all[ready] \in Video!Frames \X BOOLEAN
      BY <1>2, <1>7, <2>2
    <3>2. Video!FirstOf(all[ready]) \in Video!Packets
      BY <3>1 DEF Video!FirstOf, Video!Packets, Video!Parts
    <3> QED
      BY <1>0, <1>2, <2>2, <3>2 DEF Video!TypeOK
  <2> QED
    BY <2>1, <2>2
<1>10. encoded' \in 0..MaxFrames
  BY <1>1, <1>4 DEF Video!Frames
<1>11. Video!TypeOK'
  BY <1>0, <1>1, <1>8, <1>9, <1>10 DEF Video!TypeOK, Video!decoder, Video!history
<1>12. Received'
  BY <1>0, <1>1, Unreceived
<1> QED
  BY <1>4, <1>11, <1>12 DEF VideoInv

(* Every step of the encoder, of its tasks, of the network and of the      *)
(* router keeps VideoInv.                                                  *)
LEMMA VideoStep == ASSUME VideoAssumption, VideoInv, [Video!Next]_(Video!vars) PROVE VideoInv'
<1>0. Video!TypeOK /\ Counted /\ Received
  BY DEF VideoInv
<1>1. CASE Video!Capture
  <2>1. /\ captured < MaxFrames /\ captured' = captured + 1 /\ sending' = sending \cup {captured + 1}
        /\ UNCHANGED <<inside, encoded, writing, wire, router, tries, video_joined, Video!decoder, Video!history, gone>>
    BY <1>1 DEF Video!Capture
  <2>2. captured \in Nat /\ captured + 1 \in Video!Frames /\ captured' \in 0..MaxFrames /\ encoded \in Nat
    BY <1>0, <2>1 DEF Video!TypeOK, Video!Frames, VideoAssumption
  <2>3. /\ IsFiniteSet(sending') /\ Cardinality(sending') \in Nat /\ Cardinality(sending) \in Nat
        /\ Cardinality(sending') <= Cardinality(sending) + 1
    <3>1. IsFiniteSet(sending)
      BY <1>0 DEF Counted
    <3>2. /\ IsFiniteSet(sending')
          /\ Cardinality(sending') = IF captured + 1 \in sending THEN Cardinality(sending)
                                     ELSE Cardinality(sending) + 1
      BY <2>1, <3>1, FS_AddElement
    <3> QED
      BY <3>1, <3>2, FS_CardinalityType
  <2>4. Counted'
    BY <1>0, <2>1, <2>2, <2>3 DEF Counted
  <2>5. Video!TypeOK'
    BY <1>0, <2>1, <2>2 DEF Video!TypeOK, Video!decoder, Video!history
  <2>6. Received'
    BY <1>0, <2>1, Unreceived
  <2> QED
    BY <2>4, <2>5, <2>6 DEF VideoInv
<1>2. ASSUME NEW f \in Video!Frames, NEW large \in BOOLEAN, NEW anew \in BOOLEAN, Video!Encode(f, large, anew)
      PROVE  VideoInv'
  BY <1>2, EncodeStep
<1>3. ASSUME NEW f \in Video!Frames, Video!Fails(f) PROVE VideoInv'
  <2>1. /\ f \in sending /\ sending' = sending \ {f}
        /\ UNCHANGED <<captured, inside, encoded, writing, wire, router, tries, video_joined, Video!decoder, Video!history, gone>>
    BY <1>3 DEF Video!Fails
  <2>2. /\ IsFiniteSet(sending') /\ Cardinality(sending') = Cardinality(sending) - 1
        /\ Cardinality(sending) \in Nat /\ Cardinality(sending') \in Nat
    BY <1>0, <2>1, FS_RemoveElement, FS_CardinalityType DEF Counted
  <2>3. Counted'
    BY <1>0, <2>1, <2>2 DEF Counted, Video!TypeOK
  <2>4. Video!TypeOK'
    BY <1>0, <2>1 DEF Video!TypeOK, Video!decoder, Video!history
  <2>5. Received'
    BY <1>0, <2>1, Unreceived
  <2> QED
    BY <2>3, <2>4, <2>5 DEF VideoInv
<1>4. ASSUME NEW p \in Video!Packets, Video!Write(p) PROVE VideoInv'
  <2>1. /\ UNCHANGED <<sending, captured, inside, encoded, router, tries, video_joined, Video!decoder, Video!history, gone>>
        /\ writing' \subseteq (writing \ {p}) \cup Video!After(p) /\ wire' \subseteq wire \cup {p}
    BY <1>4 DEF Video!Write
  <2>2. Video!After(p) \subseteq Video!Packets
    BY DEF Video!After, Video!Packets, Video!Parts
  <2>3. Video!TypeOK'
    BY <1>0, <2>1, <2>2 DEF Video!TypeOK, Video!decoder, Video!history
  <2>4. Received'
    BY <1>0, <2>1, Unreceived
  <2> QED
    BY <1>0, <2>1, <2>3, <2>4 DEF VideoInv, Counted
<1>5. CASE Video!Subscribe \/ Video!Unsubscribe \/ Video!TryAgain \/ Video!Closed \/ UNCHANGED Video!vars
  <2>1. /\ UNCHANGED <<Video!publisher, wire, Video!decoder, Video!history, gone>>
        /\ video_joined' \in BOOLEAN
        /\ router' \in {"waiting", "forwarding", "over"} /\ tries' \in 0..MaxTries
    <3>1. video_joined \in BOOLEAN /\ router \in {"waiting", "forwarding", "over"} /\ tries \in 0..MaxTries
      BY <1>0 DEF Video!TypeOK
    <3>2. CASE Video!TryAgain
      BY <3>1, <3>2 DEF Video!TryAgain, VideoAssumption
    <3>3. CASE Video!Subscribe \/ Video!Unsubscribe \/ Video!Closed \/ UNCHANGED Video!vars
      BY <3>1, <3>3 DEF Video!Subscribe, Video!Unsubscribe, Video!Closed, Video!vars
    <3> QED
      BY <1>5, <3>2, <3>3
  <2>2. Video!TypeOK' /\ Counted'
    BY <1>0, <2>1 DEF Video!TypeOK, Counted, Video!publisher, Video!decoder, Video!history
  <2>3. Received'
    BY <1>0, <2>1, Unreceived
  <2> QED
    BY <2>2, <2>3 DEF VideoInv
<1>6. ASSUME NEW p \in Video!Packets, Video!Lose(p) PROVE VideoInv'
  <2>1. /\ UNCHANGED <<Video!publisher, router, tries, video_joined, Video!decoder, Video!history>>
        /\ gone' = gone \cup {p} /\ wire' = wire \ {p}
    BY <1>6 DEF Video!Lose
  <2>2. Video!TypeOK' /\ Counted'
    BY <1>0, <2>1 DEF Video!TypeOK, Counted, Video!publisher, Video!decoder, Video!history
  <2>3. Received'
    BY <1>0, <2>1, Unreceived
  <2> QED
    BY <2>2, <2>3 DEF VideoInv
<1>7. ASSUME NEW p \in Video!Packets, Video!Forward(p) PROVE VideoInv'
  <2>1. UNCHANGED <<Video!publisher, tries, video_joined>> /\ router' = "forwarding" /\ wire' = wire \ {p}
    BY <1>7 DEF Video!Forward
  <2>2. Counted'
    BY <1>0, <2>1 DEF Counted, Video!publisher
  <2>3. CASE video_joined
    <3>1. /\ Video!Depayload(p) /\ UNCHANGED gone
          /\ alone' = IF p[2] = "one" THEN alone \cup {p[1]} ELSE alone
          /\ came' = IF p[2] = "one" THEN came ELSE Append(came, p)
      BY <1>7, <2>3 DEF Video!Forward
    <3>2. /\ Received'
          /\ buffer' \in Seq(Video!Packets) /\ torn' \subseteq Seq(Video!Packets) /\ handed' \subseteq Video!Frames
          /\ alone' \subseteq Video!Frames /\ came' \in Seq(Video!Packets)
      BY <1>0, <3>1, DepayloadStep
    <3>3. Video!TypeOK'
      BY <1>0, <2>1, <3>1, <3>2 DEF Video!TypeOK, Video!publisher
    <3> QED
      BY <2>2, <3>2, <3>3 DEF VideoInv
  <2>4. CASE ~video_joined
    <3>1. gone' = gone \cup {p} /\ UNCHANGED <<Video!decoder, Video!history>>
      BY <1>7, <2>4 DEF Video!Forward
    <3>2. Video!TypeOK'
      BY <1>0, <2>1, <3>1 DEF Video!TypeOK, Video!publisher, Video!decoder, Video!history
    <3>3. Received'
      BY <1>0, <3>1, Unreceived
    <3> QED
      BY <2>2, <3>2, <3>3 DEF VideoInv
  <2> QED
    BY <2>3, <2>4
<1> QED
  BY <1>1, <1>2, <1>3, <1>4, <1>5, <1>6, <1>7 DEF Video!Next

(* For any number of frames, losses and tries, and in whatever order the   *)
(* packets arrive: a frame whose packets came in their order, no other's   *)
(* among them, is handed on whole, and what is torn reaches from one start *)
(* to the next end and no further.                                         *)
THEOREM SamplesSound ==
    ASSUME VideoAssumption
    PROVE  Video!Spec => [](Video!TypeOK /\ Video!SamplesSurvive)
<1>1. Video!Init => VideoInv
  BY VideoInitially
<1>2. VideoInv /\ [Video!Next]_(Video!vars) => VideoInv'
  BY VideoStep
<1>3. VideoInv => Video!TypeOK /\ Video!SamplesSurvive
  BY DEF VideoInv, Received
<1> QED
  BY <1>1, <1>2, <1>3, PTL DEF Video!Spec

-----------------------------------------------------------------------------
(* Playing an attachment (AudioPlayer).                                    *)

PlayerAssumption == Length \in Nat /\ MaxPlays \in Nat /\ MaxSeeks \in Nat

(* Generations count the seeks, and begin with the state.                  *)
Generations ==
    \A s \in Player!States : generation[s] <= seeks /\ (s > made => generation[s] = 0)

PlayerInv == Player!TypeOK /\ Generations /\ Player!PlayerAgrees

Thread == [of : Player!States, gen : 0..MaxSeeks, from : 0..Length, ticks : 0..Length, next : Player!Steps]

(* TypeOK, one variable at a time.                                         *)
LEMMA PlayerTypes ==
    Player!TypeOK <=>
      /\ made \in 0..MaxPlays
      /\ attachment \in [Player!States -> SUBSET Attachments]
      /\ playing \in [Player!States -> BOOLEAN]
      /\ generation \in [Player!States -> 0..MaxSeeks]
      /\ current \in 0..made /\ shown \in 0..made
      /\ sink \in {"none", "on", "paused"}
      /\ trackers \subseteq Thread
      /\ seeks \in 0..MaxSeeks
      /\ over \subseteq Player!States /\ player_odd \subseteq Player!States
      /\ failed \in BOOLEAN
<1>1. {current, shown} \subseteq 0..made <=> current \in 0..made /\ shown \in 0..made
  OBVIOUS
<1> QED
  BY <1>1, Zenon DEF Player!TypeOK, Thread

(* PlayerInv holds at first.                                               *)
LEMMA PlayerInitially == PlayerAssumption /\ Player!Init => PlayerInv
<1> SUFFICES ASSUME PlayerAssumption, Player!Init PROVE PlayerInv
  OBVIOUS
<1>1. Player!TypeOK
  <2>1. 0 \in 0..MaxPlays /\ 0 \in 0..MaxSeeks /\ 0 \in 0..Length /\ 0 \in 0..0
    BY DEF PlayerAssumption
  <2> QED
    BY <2>1, PlayerTypes DEF Player!Init, Player!NoState
<1> QED
  BY <1>1 DEF Player!Init, PlayerInv, Generations, Player!PlayerAgrees

(* PlayerInv gives what is shown of the sink.                              *)
LEMMA PlayerGives == PlayerInv => Player!TypeOK /\ Player!PlayerAgrees
  BY DEF PlayerInv

(* A button acts on the state the player has.                              *)
LEMMA PlayerHas ==
    ASSUME PlayerAssumption, Player!TypeOK, current # Player!NoState PROVE current \in Player!States
<1>1. current \in 0..made /\ made \in 0..MaxPlays
  BY DEF Player!TypeOK
<1> QED
  BY <1>1 DEF Player!States, Player!NoState, PlayerAssumption

(* Playing another attachment keeps PlayerInv: the state before it is      *)
(* stopped, and the new one sounds and has its thread.                     *)
LEMMA PlayStep ==
    ASSUME PlayerAssumption, PlayerInv, NEW a \in Attachments, Player!Play(a)
    PROVE  PlayerInv'
<1> DEFINE s == made + 1
           new == Player!Tracker(s, 0, 0)
<1>0. /\ Player!TypeOK /\ Generations /\ Player!PlayerAgrees
      /\ made \in 0..MaxPlays /\ made < MaxPlays /\ s \in Player!States /\ s # Player!NoState
  BY DEF PlayerInv, Player!Play, Player!TypeOK, Player!States, Player!NoState, PlayerAssumption
<1>1. /\ made' = s /\ current' = s /\ shown' = s /\ failed' = FALSE
      /\ playing' = [t \in Player!States |-> t = s \/ (t # current /\ playing[t])]
      /\ sink' = "on"
      /\ trackers' = trackers \cup {new}
      /\ UNCHANGED <<generation, seeks, over, player_odd>>
  BY DEF Player!Play
<1>2. new \in Thread /\ new.of = s /\ new.gen = 0
  BY <1>0 DEF Player!Tracker, Thread, Player!Steps, PlayerAssumption
<1>3. \A t \in Player!States : playing'[t] <=> t = s
  BY <1>0, <1>1 DEF Player!PlayerAgrees
<1>4. Player!TypeOK'
  <2>1. attachment' \in [Player!States -> SUBSET Attachments]
    BY <1>0 DEF Player!Play, Player!TypeOK
  <2>2. trackers' \subseteq Thread
    BY <1>0, <1>1, <1>2 DEF Player!TypeOK, Thread
  <2>3. made' \in 0..MaxPlays /\ sink' \in {"none", "on", "paused"}
    BY <1>0, <1>1 DEF PlayerAssumption
  <2>4. /\ generation' \in [Player!States -> 0..MaxSeeks] /\ seeks' \in 0..MaxSeeks
        /\ over' \subseteq Player!States /\ player_odd' \subseteq Player!States
        /\ playing' \in [Player!States -> BOOLEAN]
    BY <1>0, <1>1 DEF Player!TypeOK
  <2>5. current' \in 0..made' /\ shown' \in 0..made' /\ failed' \in BOOLEAN
    <3>1. current' = made' /\ shown' = made' /\ failed' \in BOOLEAN
      BY <1>1
    <3>2. made' \in 0..made'
      BY <2>3 DEF PlayerAssumption
    <3> QED
      BY <3>1, <3>2
  <2>6. {current', shown'} \subseteq 0..made'
    BY <2>5
  <2> QED
    BY <2>1, <2>2, <2>3, <2>4, <2>5, <2>6, Zenon DEF Player!TypeOK, Thread
<1> HIDE DEF s, new
<1>5. generation[s] = 0
  BY <1>0 DEF Generations, s
<1>6. made' \in Nat /\ made < made' /\ made \in Nat
  BY <1>0, <1>1 DEF s
<1>7. Generations'
  BY <1>0, <1>1, <1>6 DEF Generations, Player!States, PlayerAssumption
<1>8. \E t \in trackers' : t.of = s /\ t.gen = generation'[s]
  BY <1>1, <1>2, <1>5
<1>9. Player!PlayerAgrees'
  BY <1>0, <1>1, <1>3, <1>8 DEF Player!PlayerAgrees, Player!Tracked
<1> QED
  BY <1>4, <1>7, <1>9 DEF PlayerInv

(* Playing an attachment that cannot be decoded keeps PlayerInv.           *)
LEMMA PlayFailsStep ==
    ASSUME PlayerAssumption, PlayerInv, NEW a \in Attachments, Player!PlayFails(a)
    PROVE  PlayerInv'
<1>0. Player!TypeOK /\ Generations /\ Player!PlayerAgrees
  BY DEF PlayerInv
<1>1. /\ current' = Player!NoState
      /\ UNCHANGED <<made, attachment, generation, shown, trackers, seeks, over, player_odd>>
      /\ playing' = [t \in Player!States |-> t # current /\ playing[t]]
      /\ sink' = "none"
      /\ failed' = (failed \/ shown # Player!NoState)
  BY DEF Player!PlayFails
<1>2. \A s \in Player!States : playing'[s] = FALSE
  BY <1>0, <1>1 DEF Player!PlayerAgrees, Player!TypeOK
<1>3. Player!TypeOK'
  BY <1>0, <1>1 DEF Player!TypeOK, Player!NoState, PlayerAssumption
<1> QED
  BY <1>0, <1>1, <1>2, <1>3 DEF PlayerInv, Generations, Player!PlayerAgrees

(* Pausing and going on keep PlayerInv.                                    *)
LEMMA ToggleStep ==
    ASSUME PlayerAssumption, PlayerInv, NEW a \in Attachments, Player!Toggle(a)
    PROVE  PlayerInv'
<1>0. Player!TypeOK /\ Generations /\ Player!PlayerAgrees /\ current \in Player!States /\ current # Player!NoState
  BY PlayerHas DEF PlayerInv, Player!Toggle
<1>1. /\ UNCHANGED <<made, attachment, generation, current, shown, trackers, seeks, failed>>
      /\ sink' = IF sink = "none" THEN "none" ELSE Player!Let(~playing[current])
      /\ playing' = [playing EXCEPT ![current] = ~@]
      /\ over' = IF playing[current] THEN over ELSE over \ {current}
      /\ player_odd' = IF playing[current] THEN player_odd ELSE player_odd \cup {current}
  BY DEF Player!Toggle
<1>2. /\ playing'[current] = ~playing[current] /\ playing[current] \in BOOLEAN
      /\ \A s \in Player!States : s # current => playing'[s] = FALSE
  BY <1>0, <1>1 DEF Player!PlayerAgrees, Player!TypeOK
<1>3. Player!TypeOK'
  BY <1>0, <1>1 DEF Player!TypeOK, Player!Let
<1>4. Player!PlayerAgrees'
  <2>1. CASE playing[current]
    BY <1>0, <1>1, <1>2, <2>1 DEF Player!PlayerAgrees, Player!Let
  <2>2. CASE ~playing[current]
    BY <1>0, <1>1, <1>2, <2>2 DEF Player!PlayerAgrees, Player!Let
  <2> QED
    BY <2>1, <2>2
<1> QED
  BY <1>0, <1>1, <1>3, <1>4 DEF PlayerInv, Generations

(* A seek, done or not, takes the generation of the player's state on.     *)
LEMMA SeekCounts ==
    ASSUME PlayerAssumption, PlayerInv, current # Player!NoState, seeks < MaxSeeks, seeks' = seeks + 1,
           generation' = [generation EXCEPT ![current] = @ + 1], made' = made
    PROVE  /\ Generations' /\ generation' \in [Player!States -> 0..MaxSeeks] /\ seeks' \in 0..MaxSeeks
           /\ generation'[current] = generation[current] + 1
           /\ generation[current] + 1 \in 0..MaxSeeks
<1>0. Player!TypeOK /\ Generations /\ current \in Player!States /\ current <= made /\ made \in Nat
  BY PlayerHas DEF PlayerInv, Player!TypeOK
<1>1. \A s \in Player!States : generation[s] <= seeks /\ generation[s] \in Nat /\ seeks \in Nat
  BY <1>0 DEF Generations, Player!TypeOK
<1>2. generation'[current] = generation[current] + 1
  BY <1>0 DEF Player!TypeOK
<1>3. \A s \in Player!States : s # current => generation'[s] = generation[s]
  BY <1>0 DEF Player!TypeOK
<1>4. Generations'
  BY <1>0, <1>1, <1>2, <1>3 DEF Generations, Player!States
<1>5. generation[current] + 1 \in 0..MaxSeeks /\ seeks' \in 0..MaxSeeks
  BY <1>0, <1>1 DEF PlayerAssumption
<1> QED
  BY <1>0, <1>2, <1>4, <1>5 DEF Player!TypeOK

(* A seek keeps PlayerInv: the threads of the generation before it end     *)
(* when they look, and a new one is there.                                 *)
LEMMA SeekStep ==
    ASSUME PlayerAssumption, PlayerInv, NEW a \in Attachments, NEW to \in 0..Length, Player!Seek(a, to)
    PROVE  PlayerInv'
<1> DEFINE gen == generation[current] + 1
           new == Player!Tracker(current, gen, to)
<1>0. Player!TypeOK /\ Generations /\ Player!PlayerAgrees /\ current \in Player!States /\ current # Player!NoState
  BY PlayerHas DEF PlayerInv, Player!Seek
<1>1. /\ UNCHANGED <<made, attachment, playing, current, shown, over, failed>>
      /\ seeks < MaxSeeks /\ seeks' = seeks + 1
      /\ generation' = [generation EXCEPT ![current] = @ + 1]
      /\ sink' \in ({sink} \ {"none"}) \cup {Player!Let(playing[current])}
      /\ trackers' = trackers \cup {new}
      /\ player_odd' = IF playing[current] THEN player_odd \ {current} ELSE player_odd
  BY DEF Player!Seek, Player!Sought
<1>2. /\ Generations' /\ generation' \in [Player!States -> 0..MaxSeeks] /\ seeks' \in 0..MaxSeeks
      /\ generation'[current] = gen /\ gen \in 0..MaxSeeks
  BY <1>0, <1>1, SeekCounts
<1>3. new \in Thread /\ new.of = current /\ new.gen = gen
  BY <1>0, <1>2 DEF Player!Tracker, Thread, Player!Steps, PlayerAssumption
<1> HIDE DEF gen, new
<1>4. sink' \in {"none", "on", "paused"}
  BY <1>0, <1>1 DEF Player!TypeOK, Player!Let
<1>5. Player!TypeOK'
  <2>1. trackers' \subseteq Thread
    BY <1>0, <1>1, <1>3 DEF Player!TypeOK, Thread
  <2> QED
    BY <1>0, <1>1, <1>2, <1>4, <2>1 DEF Player!TypeOK, Thread
<1>6. \E t \in trackers' : t.of = current' /\ t.gen = generation'[current']
  BY <1>1, <1>2, <1>3
<1>7. Player!PlayerAgrees'
  <2>1. \A s \in Player!States : playing'[s] => s = current' /\ sink' = "on" /\ Player!Tracked(s)'
    <3> SUFFICES ASSUME NEW s \in Player!States, playing[s]
                 PROVE  s = current' /\ sink' = "on" /\ Player!Tracked(s)'
      BY <1>1
    <3>1. s = current /\ sink # "paused"
      BY <1>0 DEF Player!PlayerAgrees
    <3>2. sink' = "on"
      BY <1>0, <1>1, <3>1 DEF Player!TypeOK, Player!Let
    <3> QED
      BY <1>1, <1>6, <3>1, <3>2 DEF Player!Tracked
  <2>2. sink' = "on" => current' # Player!NoState /\ (playing'[current'] \/ current' \in over')
    BY <1>0, <1>1 DEF Player!PlayerAgrees, Player!Let
  <2>3. ~failed' => shown' = current'
    BY <1>0, <1>1 DEF Player!PlayerAgrees
  <2> QED
    BY <2>1, <2>2, <2>3 DEF Player!PlayerAgrees
<1> QED
  BY <1>2, <1>5, <1>7 DEF PlayerInv

(* A seek that leaves no sink keeps PlayerInv.                             *)
LEMMA SeekFailsStep ==
    ASSUME PlayerAssumption, PlayerInv, NEW a \in Attachments, Player!SeekFails(a)
    PROVE  PlayerInv'
<1>0. Player!TypeOK /\ Generations /\ Player!PlayerAgrees /\ current \in Player!States /\ current # Player!NoState
  BY PlayerHas DEF PlayerInv, Player!SeekFails
<1>1. /\ UNCHANGED <<made, attachment, playing, current, shown, trackers, over, failed>>
      /\ seeks < MaxSeeks /\ seeks' = seeks + 1
      /\ generation' = [generation EXCEPT ![current] = @ + 1]
      /\ sink' = "none"
      /\ player_odd' = player_odd \cup {current}
  BY DEF Player!SeekFails
<1>2. Generations' /\ generation' \in [Player!States -> 0..MaxSeeks] /\ seeks' \in 0..MaxSeeks
  BY <1>0, <1>1, SeekCounts
<1>3. Player!TypeOK'
  BY <1>0, <1>1, <1>2 DEF Player!TypeOK
<1>4. Player!PlayerAgrees'
  BY <1>0, <1>1 DEF Player!PlayerAgrees
<1> QED
  BY <1>2, <1>3, <1>4 DEF PlayerInv

(* Time that passes for the threads keeps PlayerInv.                       *)
LEMMA TickStep ==
    ASSUME PlayerAssumption, PlayerInv, Player!Tick
    PROVE  PlayerInv'
<1> DEFINE later(t) == [t EXCEPT !.ticks = Player!Least(@ + 1, Length),
                                 !.next = IF @ = "sleep" THEN "generation" ELSE @]
<1>0. Player!TypeOK /\ Generations /\ Player!PlayerAgrees
  BY DEF PlayerInv
<1>1. /\ UNCHANGED <<made, attachment, playing, generation, current, shown, sink, seeks, over, player_odd, failed>>
      /\ trackers' = {later(t) : t \in trackers}
  BY DEF Player!Tick
<1>2. \A t \in trackers : later(t) \in Thread /\ later(t).of = t.of /\ later(t).gen = t.gen
  <2> SUFFICES ASSUME NEW t \in trackers
               PROVE  later(t) \in Thread /\ later(t).of = t.of /\ later(t).gen = t.gen
    OBVIOUS
  <2>1. t \in Thread
    BY <1>0 DEF Player!TypeOK, Thread
  <2>2. Player!Least(t.ticks + 1, Length) \in 0..Length
    BY <2>1 DEF Player!Least, Thread, PlayerAssumption
  <2> QED
    BY <2>1, <2>2 DEF Thread, Player!Steps
<1> HIDE DEF later
<1>3. Player!TypeOK'
  <2>1. trackers' \subseteq Thread
    BY <1>1, <1>2
  <2> QED
    BY <1>0, <1>1, <2>1 DEF Player!TypeOK, Thread
<1>4. \A s \in Player!States : Player!Tracked(s) => Player!Tracked(s)'
  BY <1>1, <1>2 DEF Player!Tracked
<1> QED
  BY <1>0, <1>1, <1>3, <1>4 DEF PlayerInv, Generations, Player!PlayerAgrees

(* A thread goes on or ends, and may have found that the state is over.    *)
LEMMA ThreadStep ==
    ASSUME PlayerAssumption, PlayerInv, NEW t \in trackers, NEW step \in Player!Steps,
           UNCHANGED <<made, attachment, generation, current, shown, sink, seeks, player_odd, failed>>,
           \/ Player!Goes(t, step)
           \/ trackers' = trackers \ {t} /\ (playing'[t.of] = FALSE \/ t.gen # generation[t.of]),
           \/ playing' = playing /\ over' = over
           \/ playing' = [playing EXCEPT ![t.of] = FALSE] /\ over' = over \cup {t.of}
    PROVE  PlayerInv'
<1> DEFINE moved == [t EXCEPT !.next = step]
<1>0. Player!TypeOK /\ Generations /\ Player!PlayerAgrees /\ t \in Thread /\ t.of \in Player!States
  BY DEF PlayerInv, Player!TypeOK, Thread
<1>1. moved \in Thread /\ moved.of = t.of /\ moved.gen = t.gen
  BY <1>0 DEF Thread
<1>2. /\ trackers' \subseteq (trackers \ {t}) \cup {moved}
      /\ trackers \ {t} \subseteq trackers'
      /\ moved \in trackers' \/ playing'[t.of] = FALSE \/ t.gen # generation[t.of]
  BY DEF Player!Goes
<1> HIDE DEF moved
<1>3. /\ playing' \in [Player!States -> BOOLEAN] /\ over' \subseteq Player!States /\ over \subseteq over'
      /\ \A s \in Player!States : playing'[s] => playing[s]
      /\ \A s \in Player!States : playing[s] /\ ~playing'[s] => s \in over'
  BY <1>0 DEF Player!TypeOK
<1>4. Player!TypeOK'
  <2>1. trackers' \subseteq Thread
    BY <1>0, <1>1, <1>2 DEF Player!TypeOK, Thread
  <2> QED
    BY <1>0, <1>3, <2>1 DEF Player!TypeOK, Thread
<1>5. Generations'
  BY <1>0 DEF Generations
<1>6. ASSUME NEW s \in Player!States, Player!Tracked(s), playing'[s] PROVE Player!Tracked(s)'
  <2>1. PICK u \in trackers : u.of = s /\ u.gen = generation[s]
    BY <1>6 DEF Player!Tracked
  <2>2. CASE u # t
    BY <1>2, <2>1, <2>2 DEF Player!Tracked
  <2>3. CASE u = t
    <3>1. moved \in trackers'
      BY <1>2, <1>3, <1>6, <2>1, <2>3
    <3> QED
      BY <1>1, <2>1, <2>3, <3>1 DEF Player!Tracked
  <2> QED
    BY <2>2, <2>3
<1>7. Player!PlayerAgrees'
  <2>1. current # Player!NoState => current \in Player!States
    BY <1>0, PlayerHas
  <2> QED
    BY <1>0, <1>3, <1>6, <2>1 DEF Player!PlayerAgrees
<1> QED
  BY <1>4, <1>5, <1>7 DEF PlayerInv

(* Every step keeps PlayerInv.                                             *)
LEMMA PlayerStep == ASSUME PlayerAssumption, PlayerInv, [Player!Next]_(Player!vars) PROVE PlayerInv'
<1>0. Player!TypeOK
  BY DEF PlayerInv
<1>1. ASSUME NEW t \in trackers, Player!CheckGeneration(t) PROVE PlayerInv'
  <2>1. /\ UNCHANGED <<made, attachment, playing, generation, current, shown, sink, seeks, over, player_odd, failed>>
        /\ \/ generation[t.of] = t.gen /\ Player!Goes(t, "flag")
           \/ generation[t.of] # t.gen /\ trackers' = trackers \ {t}
    BY <1>1 DEF Player!CheckGeneration
  <2>2. CASE generation[t.of] = t.gen
    BY <2>1, <2>2, ThreadStep DEF Player!Steps
  <2>3. CASE generation[t.of] # t.gen
    BY <2>1, <2>3, ThreadStep DEF Player!Steps
  <2> QED
    BY <2>2, <2>3
<1>2. ASSUME NEW t \in trackers, Player!CheckFlag(t) PROVE PlayerInv'
  <2>1. /\ UNCHANGED <<made, attachment, playing, generation, current, shown, sink, seeks, over, player_odd, failed>>
        /\ \/ Player!Goes(t, "store")
           \/ playing[t.of] = FALSE /\ trackers' = trackers \ {t}
    BY <1>0, <1>2 DEF Player!CheckFlag, Player!TypeOK
  <2> QED
    BY <2>1, ThreadStep DEF Player!Steps
<1>3. ASSUME NEW t \in trackers, Player!Store(t) PROVE PlayerInv'
  <2> DEFINE at == Player!Least(t.from + t.ticks, Length)
  <2>0. t.of \in Player!States /\ t.from \in 0..Length /\ t.ticks \in 0..Length
    BY <1>0 DEF Player!TypeOK
  <2>1. /\ UNCHANGED <<made, attachment, generation, current, shown, sink, seeks, player_odd, failed>>
        /\ playing' = [playing EXCEPT ![t.of] = @ /\ at < Length]
        /\ \/ at < Length /\ Player!Goes(t, "sleep") /\ UNCHANGED over
           \/ ~(at < Length) /\ trackers' = trackers \ {t} /\ over' = over \cup {t.of}
    BY <1>3 DEF Player!Store
  <2>2. CASE at < Length
    <3>1. playing' = playing
      BY <1>0, <2>0, <2>1, <2>2 DEF Player!TypeOK
    <3> QED
      BY <2>1, <2>2, <3>1, ThreadStep DEF Player!Steps
  <2>3. CASE ~(at < Length)
    <3>1. playing' = [playing EXCEPT ![t.of] = FALSE] /\ playing'[t.of] = FALSE
      BY <1>0, <2>0, <2>1, <2>3 DEF Player!TypeOK
    <3>2. trackers' = trackers \ {t} /\ over' = over \cup {t.of}
      BY <2>1, <2>3
    <3> HIDE DEF at
    <3> QED
      BY <2>1, <3>1, <3>2, ThreadStep DEF Player!Steps
  <2> QED
    BY <2>2, <2>3
<1>4. CASE UNCHANGED Player!vars
  BY <1>4 DEF Player!vars, PlayerInv, Player!TypeOK, Generations, Player!PlayerAgrees, Player!Tracked
<1> QED
  BY <1>1, <1>2, <1>3, <1>4, PlayStep, PlayFailsStep, ToggleStep, SeekStep, SeekFailsStep, TickStep DEF Player!Next

(* For any attachments, any length and any number of plays and seeks: what *)
(* plays is current, sounds and has a thread that will see its end, what   *)
(* sounds plays or was ended by its thread, and what is shown is what the  *)
(* buttons act on, but for what PlayerAgrees excepts.                      *)
THEOREM PlayerSound ==
    ASSUME PlayerAssumption
    PROVE  Player!Spec => [](Player!TypeOK /\ Player!PlayerAgrees)
<1>1. Player!Init => PlayerInv
  BY PlayerInitially
<1>2. PlayerInv /\ [Player!Next]_(Player!vars) => PlayerInv'
  BY PlayerStep
<1>3. PlayerInv => Player!TypeOK /\ Player!PlayerAgrees
  BY PlayerGives
<1> QED
  BY <1>1, <1>2, <1>3, PTL DEF Player!Spec
=============================================================================
