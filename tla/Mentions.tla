------------------------------ MODULE Mentions ------------------------------
(***************************************************************************)
(* The mention popup of the message box (ui/chat.rs): while the text after *)
(* the last @ has no space, the members that match it are listed, and the  *)
(* arrows move the selected one.  The members are those of the current     *)
(* community and change under it.  The selection is reset when the text    *)
(* after the @ changes, not when the list does.                            *)
(***************************************************************************)
EXTENDS Naturals

CONSTANTS
    Queries,     \* texts after an @
    None,        \* no @, or a space after it
    MaxMatches   \* bound: members that match

VARIABLES
    text,        \* what follows the last @ of the box, or None
    matches,     \* how many members match it
    active,      \* mention_active
    dismissed,   \* mention_dismissed
    query,       \* mention_query, None when cleared
    selected,    \* mention_selected
    used,        \* the selection this frame has used: [at, of], or Unused
    slipped      \* history: the list has changed, or the box was refilled, since
                 \* the selection was reset

vars == <<text, matches, active, dismissed, query, selected, used, slipped>>

Counts == 0..MaxMatches
Unused == [at |-> 0, of |-> 0]

TypeOK ==
    /\ {text, query} \subseteq Queries \cup {None}
    /\ {matches, selected} \subseteq Counts
    /\ {active, dismissed, slipped} \subseteq BOOLEAN
    /\ used \in [at : Counts, of : Counts]

Init ==
    /\ text = None /\ query = None
    /\ matches \in Counts
    /\ active = FALSE /\ dismissed = FALSE
    /\ selected = 0
    /\ used = Unused
    /\ slipped = FALSE

-----------------------------------------------------------------------------
(* Between the frames.                                                     *)

\* Typing, once a frame; the matches are those of the new text.
Type ==
    /\ text = query
    /\ \E t \in Queries \cup {None} : t # text /\ text' = t
    /\ matches' \in Counts
    /\ used' = Unused
    /\ UNCHANGED <<active, dismissed, query, selected, slipped>>

\* The members are loaded again, or another community is selected.
MembersChange ==
    /\ matches' \in Counts \ {matches}
    /\ slipped' = TRUE
    /\ used' = Unused
    /\ UNCHANGED <<text, active, dismissed, query, selected>>

\* Another channel is opened, with its draft, which may end as the old box did;
\* its community may have other members.
SwitchChannel ==
    /\ text' \in Queries \cup {None}
    /\ matches' \in Counts
    /\ active' = FALSE
    /\ slipped' = TRUE
    /\ used' = Unused
    /\ UNCHANGED <<dismissed, query, selected>>

-----------------------------------------------------------------------------
(* The frame.                                                              *)

\* The selection is reset when the query is over, or another.
Reset == text # query

\* update_mention_state.
Update ==
    /\ active' = (text # None /\ (Reset \/ ~dismissed))
    /\ dismissed' = (text # None /\ ~Reset /\ dismissed)
    /\ query' = text
    /\ selected' = IF Reset THEN 0 ELSE selected
    /\ slipped' = (slipped /\ ~Reset)

Rest ==
    /\ Update
    /\ used' = Unused
    /\ UNCHANGED <<text, matches>>

\* The keys, after the update, when the popup is there.
Listening == active /\ text = query /\ matches > 0

Up ==
    /\ Listening
    /\ selected > 0 /\ selected' = selected - 1
    /\ used' = Unused
    /\ UNCHANGED <<text, matches, active, dismissed, query, slipped>>

Down ==
    /\ Listening
    /\ selected + 1 < matches /\ selected' = selected + 1
    /\ used' = Unused
    /\ UNCHANGED <<text, matches, active, dismissed, query, slipped>>

\* Tab or Enter: insert_mention puts the member's name and a space in the box.
Insert ==
    /\ Listening
    /\ used' = [at |-> selected, of |-> matches]
    /\ text' = None /\ query' = None
    /\ active' = FALSE
    /\ selected' = 0
    /\ UNCHANGED <<matches, dismissed, slipped>>

Dismiss ==
    /\ Listening
    /\ active' = FALSE /\ dismissed' = TRUE
    /\ selected' = 0
    /\ used' = Unused
    /\ slipped' = FALSE
    /\ UNCHANGED <<text, matches, query>>

Next ==
    \/ Type \/ MembersChange \/ SwitchChannel
    \/ Rest \/ Up \/ Down \/ Insert \/ Dismiss

Spec == Init /\ [][Next]_vars

-----------------------------------------------------------------------------

(* The member that is mentioned is one of the list, unless the list has    *)
(* changed since the selection was reset: nothing keeps the index within a *)
(* list that has become shorter, and using it then ends the program.       *)
MentionInList == used # Unused /\ ~slipped => used.at < used.of
=============================================================================
