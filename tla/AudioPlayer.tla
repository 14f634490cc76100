---------------------------- MODULE AudioPlayer ----------------------------
(***************************************************************************)
(* Playing audio attachments: the player and its threads                   *)
(* (media/audio_player.rs) and the buttons drawn for each attachment       *)
(* (ui/message.rs).                                                        *)
(*                                                                         *)
(* The player has a sink, which makes the sound, and a state it shares     *)
(* with the renderer and with threads that keep the position: every play   *)
(* and every seek starts one, and it stops when it sees that the           *)
(* generation has changed or that nothing plays.  A thread looks at the    *)
(* generation, then at the flag, then stores the position and the end: the *)
(* UI thread may act between.  The end a thread goes by is the duration as *)
(* it was estimated; the sound ends when it ends, which nobody looks at.   *)
(* The renderer remembers which state it was given.  The position itself   *)
(* only moves the slider and is left out, as are where the sound is and    *)
(* the cache of fetched bytes.                                             *)
(***************************************************************************)
EXTENDS Naturals, FiniteSets

CONSTANTS
    Attachments,
    Length,      \* bound: the estimated duration, in ticks
    MaxPlays,    \* bound: states made
    MaxSeeks     \* bound: seeks, and with them generations

States  == 1..MaxPlays
NoState == 0

VARIABLES
    made,        \* states made so far
    attachment,  \* state -> its attachment
    playing,     \* state -> is_playing
    generation,  \* state -> generation
    current,     \* the player's state, or NoState
    shown,       \* the renderer's audio_state, or NoState
    sink,        \* "none", "on" or "paused"
    trackers,    \* position threads: [of, gen, from, ticks, next]
    seeks,
    over,        \* history: states a thread has ended; not resumed since
    odd,         \* history: states that were resumed, or whose last seek failed; not
                 \* sought since
    failed       \* history: a play that failed has left the player without a state

vars == <<made, attachment, playing, generation, current, shown,
          sink, trackers, seeks, over, odd, failed>>

Steps == {"generation", "flag", "store", "sleep"}

TypeOK ==
    /\ made \in 0..MaxPlays
    /\ attachment \in [States -> SUBSET Attachments]
    /\ playing \in [States -> BOOLEAN]
    /\ generation \in [States -> 0..MaxSeeks]
    /\ {current, shown} \subseteq 0..made
    /\ sink \in {"none", "on", "paused"}
    /\ trackers \subseteq [of : States, gen : 0..MaxSeeks, from : 0..Length,
                           ticks : 0..Length, next : Steps]
    /\ seeks \in 0..MaxSeeks
    /\ over \subseteq States /\ odd \subseteq States
    /\ failed \in BOOLEAN

Init ==
    /\ made = 0
    /\ attachment = [s \in States |-> {}]
    /\ playing = [s \in States |-> FALSE]
    /\ generation = [s \in States |-> 0]
    /\ current = NoState /\ shown = NoState
    /\ sink = "none"
    /\ trackers = {}
    /\ seeks = 0
    /\ over = {} /\ odd = {}
    /\ failed = FALSE

\* start_position_tracking.
Tracker(s, gen, from) ==
    [of |-> s, gen |-> gen, from |-> from, ticks |-> 0, next |-> "generation"]

IsCurrent(a) == shown # NoState /\ attachment[shown] = {a}

-----------------------------------------------------------------------------
(* The buttons.                                                            *)

\* The player stops what it plays, and starts the new attachment.
Play(a) ==
    LET s == made + 1 IN
    /\ ~IsCurrent(a)
    /\ made < MaxPlays
    /\ made' = s
    /\ attachment' = [attachment EXCEPT ![s] = {a}]
    /\ playing' = [t \in States |-> t = s \/ (t # current /\ playing[t])]
    /\ sink' = "on"
    /\ trackers' = trackers \cup {Tracker(s, 0, 0)}
    /\ current' = s
    /\ shown' = s
    /\ failed' = FALSE
    /\ UNCHANGED <<generation, seeks, over, odd>>

\* The bytes are fetched and cannot be decoded: the old sound is gone, the
\* renderer still shows its state.
PlayFails(a) ==
    /\ ~IsCurrent(a)
    /\ playing' = [t \in States |-> t # current /\ playing[t]]
    /\ sink' = "none"
    /\ current' = NoState
    /\ failed' = (failed \/ shown # NoState)
    /\ UNCHANGED <<made, attachment, generation, shown, trackers, seeks, over,
                   odd>>

\* A sink that is let sound, or is paused.
Let(sound) == IF sound THEN "on" ELSE "paused"

Toggle(a) ==
    /\ IsCurrent(a)
    /\ current # NoState
    /\ sink' = IF sink = "none" THEN "none" ELSE Let(~playing[current])
    /\ playing' = [playing EXCEPT ![current] = ~@]
    /\ over' = IF playing[current] THEN over ELSE over \ {current}
    /\ odd' = IF playing[current] THEN odd ELSE odd \cup {current}
    /\ UNCHANGED <<made, attachment, generation, current, shown,
                   trackers, seeks, failed>>

\* Mutant of Sought: the old thread goes, and no new one comes.
SoughtAlone(to) == trackers

\* The threads after a seek: one more, of the new generation.
Sought(to) == trackers \cup {Tracker(current, generation[current] + 1, to)}

\* try_seek on the sink there is, or a sink made anew, which asks the flag.
Seek(a, to) ==
    /\ IsCurrent(a)
    /\ current # NoState
    /\ seeks < MaxSeeks
    /\ seeks' = seeks + 1
    /\ generation' = [generation EXCEPT ![current] = @ + 1]
    /\ sink' \in ({sink} \ {"none"}) \cup {Let(playing[current])}
    /\ trackers' = Sought(to)
    /\ odd' = IF playing[current] THEN odd \ {current} ELSE odd
    /\ UNCHANGED <<made, attachment, playing, current, shown, over, failed>>

\* No sink can be made anew: the old one is gone, and so is the old thread's
\* generation.
SeekFails(a) ==
    /\ IsCurrent(a)
    /\ current # NoState
    /\ seeks < MaxSeeks
    /\ seeks' = seeks + 1
    /\ generation' = [generation EXCEPT ![current] = @ + 1]
    /\ sink' = "none"
    /\ odd' = odd \cup {current}
    /\ UNCHANGED <<made, attachment, playing, current, shown, trackers, over,
                   failed>>

-----------------------------------------------------------------------------
(* Time and the threads.                                                   *)

Least(m, n) == IF m < n THEN m ELSE n

\* A tick of the clock, for the threads that sleep too.
Tick ==
    /\ trackers' = {[t EXCEPT !.ticks = Least(@ + 1, Length),
                              !.next = IF @ = "sleep" THEN "generation" ELSE @] : t \in trackers}
    /\ UNCHANGED <<made, attachment, playing, generation, current, shown,
                   sink, seeks, over, odd, failed>>

Goes(t, step) == trackers' = (trackers \ {t}) \cup {[t EXCEPT !.next = step]}

\* The two reasons to end.
CheckGeneration(t) ==
    /\ t.next = "generation"
    /\ IF generation[t.of] = t.gen THEN Goes(t, "flag") ELSE trackers' = trackers \ {t}
    /\ UNCHANGED <<made, attachment, playing, generation, current, shown,
                   sink, seeks, over, odd, failed>>

CheckFlag(t) ==
    /\ t.next = "flag"
    /\ IF playing[t.of] THEN Goes(t, "store") ELSE trackers' = trackers \ {t}
    /\ UNCHANGED <<made, attachment, playing, generation, current, shown,
                   sink, seeks, over, odd, failed>>

\* The position, kept, and the end.
Store(t) ==
    LET at == Least(t.from + t.ticks, Length) IN
    /\ t.next = "store"
    /\ playing' = [playing EXCEPT ![t.of] = @ /\ at < Length]
    /\ IF at < Length THEN Goes(t, "sleep") /\ UNCHANGED over
                      ELSE trackers' = trackers \ {t} /\ over' = over \cup {t.of}
    /\ UNCHANGED <<made, attachment, generation, current, shown, sink, seeks,
                   odd, failed>>

Next ==
    \/ \E a \in Attachments :
          \/ Play(a) \/ PlayFails(a) \/ Toggle(a) \/ SeekFails(a)
          \/ \E to \in 0..Length : Seek(a, to)
    \/ Tick
    \/ \E t \in trackers : CheckGeneration(t) \/ CheckFlag(t) \/ Store(t)

Spec == Init /\ [][Next]_vars

-----------------------------------------------------------------------------

Tracked(s) == \E t \in trackers : t.of = s /\ t.gen = generation[s]

(* What says it plays is what the player has, with a sink that sounds and  *)
(* a thread that will see its end; a sink that sounds is of a state that   *)
(* says so, until a thread has ended that state: by the duration as it was *)
(* estimated, or, when a seek came while the thread was past its look at   *)
(* the generation, by where the sound was before.  What the renderer shows *)
(* is what its buttons act on.  What the code does otherwise is excepted:  *)
(* resume starts no thread, a seek that finds no sink starts none either   *)
(* and leaves silent what says it plays, and a play that fails leaves the  *)
(* renderer with a state the player no longer has.                         *)
PlayerAgrees ==
    /\ \A s \in States :
          playing[s] => s = current /\ sink # "paused"
                        /\ (s \notin odd => sink = "on" /\ Tracked(s))
    /\ sink = "on" => current # NoState /\ (playing[current] \/ current \in over)
    /\ ~failed => shown = current
=============================================================================
