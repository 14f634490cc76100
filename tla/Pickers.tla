------------------------------ MODULE Pickers ------------------------------
(***************************************************************************)
(* The quick switcher and the message search (ui/quick_switcher.rs,        *)
(* ui/message_search.rs), with the shortcuts that open them (ui/app.rs).   *)
(*                                                                         *)
(* Both keep a list of results and the index of the selected one, which is *)
(* used as it is when Enter is pressed.  The switcher makes its list anew  *)
(* in every frame from a state that changes; the search asks the server    *)
(* when its query has changed, in the frame, which waits for the answer.   *)
(***************************************************************************)
EXTENDS Naturals

CONSTANTS
    Queries,     \* what may be typed, besides nothing
    Nothing,     \* the empty query
    MaxResults   \* bound: results of a query

VARIABLES
    switcher,    \* [open, typed, index, results]
    search,      \* [open, query, last, index, results, of]: the query typed, the
                 \* last one searched, and the one the results answer
    entered      \* this step's selection: [index, results], both 0 when none

vars == <<switcher, search, entered>>

Texts   == Queries \cup {Nothing}
Counts  == 0..MaxResults
Indexes == 0..MaxResults

TypeOK ==
    /\ switcher \in [open : BOOLEAN, typed : BOOLEAN, index : Indexes, results : Counts]
    /\ search \in [open : BOOLEAN, query : Texts, last : Texts, index : Indexes,
                   results : Counts, of : Texts]
    /\ entered \in [index : Indexes, results : Counts]

NoSwitcher == [open |-> FALSE, typed |-> FALSE, index |-> 0, results |-> 0]
NoSearch   == [open |-> FALSE, query |-> Nothing, last |-> Nothing, index |-> 0,
               results |-> 0, of |-> Nothing]
NoEntry    == [index |-> 0, results |-> 0]

Init == switcher = NoSwitcher /\ search = NoSearch /\ entered = NoEntry

-----------------------------------------------------------------------------
(* The shortcuts: each closes the other's picker and toggles its own.      *)

ToggleSwitcher ==
    /\ search' = NoSearch
    /\ switcher' = [NoSwitcher EXCEPT !.open = ~switcher.open]
    /\ entered' = NoEntry

ToggleSearch ==
    /\ switcher' = NoSwitcher
    /\ search' = [NoSearch EXCEPT !.open = ~search.open]
    /\ entered' = NoEntry

-----------------------------------------------------------------------------

Least(m, n) == IF m < n THEN m ELSE n

\* Mutant of Up: the index of the first result is not spared.
UpUnchecked(p) == [p EXCEPT !.index = @ - 1]

Up(p) == [p EXCEPT !.index = IF @ > 0 THEN @ - 1 ELSE @]

Down(p) == [p EXCEPT !.index = IF p.results > 0 THEN Least(@ + 1, p.results - 1) ELSE @]

\* Where the pointer is.
Hovered(p) == {p} \cup {[p EXCEPT !.index = i] : i \in {j \in Indexes : j < p.results}}

\* Mutant of Clamped: the index stays where it was.
ClampedNot(index, n) == index

\* The index, when the list has changed under it.
Clamped(index, n) == IF n > 0 THEN Least(index, n - 1) ELSE index

\* update_results, before the keys: recent channels, or the best matches.
Updated(n) == [switcher EXCEPT !.results = n, !.index = Clamped(@, n)]

\* A frame of the switcher: the list, a key, then the pointer or the text.
SwitcherFrame ==
    /\ switcher.open
    /\ \E n \in Counts :
          LET now == Updated(n) IN
          \/ \E p \in {now, Up(now), Down(now)} : switcher' \in Hovered(p)
          \/ switcher' = [now EXCEPT !.typed = TRUE, !.index = 0]
    /\ entered' = NoEntry
    /\ UNCHANGED search

\* Enter, Escape, a click beside it.
SwitcherEnds ==
    /\ switcher.open
    /\ \E n \in Counts :
          entered' \in {NoEntry} \cup
              {[index |-> Updated(n).index, results |-> n] : m \in {k \in {n} : k > 0}}
    /\ switcher' = NoSwitcher
    /\ UNCHANGED search

-----------------------------------------------------------------------------

\* The search of a new query.  A query that failed is not tried again.
Searched(p) ==
    IF p.query \notin {Nothing, p.last}
    THEN {[p EXCEPT !.last = p.query, !.of = p.query, !.results = n, !.index = 0] : n \in Counts}
         \cup {[p EXCEPT !.last = p.query, !.of = p.query, !.results = 0]}
    ELSE IF p.query = Nothing /\ p.results > 0
         THEN {[p EXCEPT !.results = 0, !.last = Nothing, !.of = Nothing]}
         ELSE {p}

\* A frame of the search: a key, the query, then the text or the pointer.
SearchFrame ==
    /\ search.open
    /\ \E q \in {search, Up(search), Down(search)} : \E p \in Searched(q) :
          \/ search' \in IF p.query = Nothing THEN {p} ELSE Hovered(p)
          \/ \E text \in Texts : search' = [p EXCEPT !.query = text]
    /\ entered' = NoEntry
    /\ UNCHANGED switcher

\* Enter comes before the query is looked at.
SearchEnds ==
    /\ search.open
    /\ entered' \in {NoEntry} \cup
           {[index |-> search.index, results |-> n] : n \in {k \in {search.results} : k > 0}}
    /\ search' = NoSearch
    /\ UNCHANGED switcher

Next ==
    \/ ToggleSwitcher \/ ToggleSearch
    \/ SwitcherFrame \/ SwitcherEnds
    \/ SearchFrame \/ SearchEnds

Spec == Init /\ [][Next]_vars

-----------------------------------------------------------------------------

(* What is entered is one of the results, whatever the list and the query  *)
(* did meanwhile; the results of the search answer the query it last       *)
(* searched; the two pickers are never open at once.                       *)
PickersAgree ==
    /\ entered # NoEntry => entered.index < entered.results
    /\ search.results > 0 => search.index < search.results /\ search.of = search.last
    /\ ~(switcher.open /\ search.open)
=============================================================================
