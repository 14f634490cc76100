----------------------------- MODULE GifPicker -----------------------------
(***************************************************************************)
(* The GIF picker (ui/gif_picker.rs) and the slot of the shared state its  *)
(* answers come through (state/app_state.rs).                              *)
(*                                                                         *)
(* A frame of the open picker spawns a request when the query has changed  *)
(* and none is under way, then takes what the slot holds.  The slot does   *)
(* not say which query it answers.  Closing the picker neither stops the   *)
(* request nor forgets that it is loading.                                 *)
(***************************************************************************)
EXTENDS Naturals, FiniteSets

CONSTANTS
    Queries,
    Trending,    \* the empty query, which asks for what is trending
    None

VARIABLES
    open,
    query,       \* search_query
    last,        \* last_executed_query
    loading,
    trending,    \* trending_loaded
    error,       \* error_message is set
    results,     \* the query whose results are shown, or None
    requests,    \* queries asked for in spawned tasks
    slot         \* gif_search_results: [of, failed], or None

vars == <<open, query, last, loading, trending, error, results, requests, slot>>

Texts == Queries \cup {Trending}

TypeOK ==
    /\ {open, loading, trending, error} \subseteq BOOLEAN
    /\ query \in Texts
    /\ {last, results} \subseteq Texts \cup {None}
    /\ requests \subseteq Texts
    /\ slot \in [of : Texts, failed : BOOLEAN] \cup {None}

Init ==
    /\ open = FALSE
    /\ query = Trending
    /\ last = None
    /\ loading = FALSE /\ trending = FALSE /\ error = FALSE
    /\ results = None
    /\ requests = {}
    /\ slot = None

-----------------------------------------------------------------------------

\* The button, Escape, a chosen GIF.
Close ==
    /\ open /\ open' = FALSE
    /\ UNCHANGED <<query, last, loading, trending, error, results, requests, slot>>

Open ==
    /\ ~open /\ open' = TRUE
    /\ query' = Trending
    /\ error' = FALSE
    /\ trending' = FALSE
    /\ UNCHANGED <<last, loading, results, requests, slot>>

Type(q) ==
    /\ open
    /\ query' = q
    /\ UNCHANGED <<open, last, loading, trending, error, results, requests, slot>>

\* What the debounce leaves to do is done by a later frame.
ShouldSearch ==
    /\ ~loading
    /\ IF query = Trending THEN ~trending ELSE query # last

\* A frame that spawns a request.
Ask ==
    /\ open
    /\ ShouldSearch
    /\ loading' = TRUE
    /\ error' = FALSE
    /\ last' = query
    /\ trending' = (trending \/ query = Trending)
    /\ requests' = requests \cup {query}
    /\ UNCHANGED <<open, query, results, slot>>

\* A frame that finds something in the slot.
Take ==
    /\ open
    /\ slot # None
    /\ loading' = FALSE
    /\ error' = (error \/ slot.failed)
    /\ results' = IF slot.failed THEN results ELSE slot.of
    /\ slot' = None
    /\ UNCHANGED <<open, query, last, trending, requests>>

\* set_gif_search_results or set_gif_search_error, when the answer is there.
Answer(q) ==
    /\ requests' = requests \ {q}
    /\ slot' \in {[of |-> q, failed |-> f] : f \in BOOLEAN}
    /\ UNCHANGED <<open, query, last, loading, trending, error, results>>

Next ==
    \/ Open \/ Close \/ Ask \/ Take
    \/ \E q \in Texts : Type(q)
    \/ \E q \in requests : Answer(q)

Spec == Init /\ [][Next]_vars

-----------------------------------------------------------------------------

(* The slot is enough: at any time one answer at most is under way or      *)
(* waiting, it is the answer to the query asked last, and the picker is    *)
(* loading exactly then.  Once it is not, it shows that answer or the      *)
(* error, unless it was opened again after an error and has yet to ask.    *)
GifsAgree ==
    /\ Cardinality(requests) + (IF slot = None THEN 0 ELSE 1) = (IF loading THEN 1 ELSE 0)
    /\ requests \subseteq {last}
    /\ slot # None => slot.of = last
    /\ ~loading => error \/ results = last \/ ~trending
=============================================================================
