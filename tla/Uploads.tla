------------------------------ MODULE Uploads ------------------------------
(***************************************************************************)
(* Attachments: the files on the server's disk, their rows, the messages   *)
(* they are linked to, and what clients are told of them                   *)
(* (services/attachment.rs, api/attachments.rs, api/messages.rs).          *)
(*                                                                         *)
(* A file and its row are two things, written and removed one after the    *)
(* other; so are a message and the link of its attachments.  Requests      *)
(* overlap between the statements, and any of them may stop there.  The    *)
(* last block of a file is written behind the request's back: nothing      *)
(* waits for it, and nobody hears of its failing.                          *)
(***************************************************************************)
EXTENDS Naturals

CONSTANTS
    Files,      \* attachments, by id
    Messages,   \* messages, by id
    MaxRequests, \* bound: requests, numbered in the order they come
    None        \* no attachment, no message

Requests == 1..MaxRequests

VARIABLES
    disk,       \* attachment -> its file: "no", "part", "last" while the last block
                \* is still being written, or "whole"
    row,        \* attachment -> "no", "free" or the message it is linked to
    message,    \* message -> "no", "there" or "gone"
    told,       \* message -> the attachments of its MessageCreated, none before it
    served,     \* history: a download has found a row without its file, or with
                \* a part of it that nobody is adding to
    req,        \* request -> [kind, file, message, at]
    odd         \* history: "removed" an attachment or a message, "stopped" half-way,
                \* "torn" a file, "unread" attachments

vars == <<disk, row, message, told, served, req, odd>>

Kinds == {"none", "upload", "send", "unsend", "delete", "download"}
Steps == {"new", "done", "failed", "create", "write", "insert", "link", "read", "tell", "get",
          "exists", "remove", "drop"}
NewReq == [kind |-> "none", file |-> None, message |-> None, at |-> "new"]

TypeOK ==
    /\ disk \in [Files -> {"no", "part", "last", "whole"}]
    /\ row \in [Files -> Messages \cup {"no", "free"}]
    /\ message \in [Messages -> {"no", "there", "gone"}]
    /\ told \in [Messages -> SUBSET Files]
    /\ served \in BOOLEAN
    /\ req \in [Requests -> [kind : Kinds, file : Files \cup {None},
                             message : Messages \cup {None}, at : Steps]]
    /\ odd \subseteq {"removed", "stopped", "torn", "unread"}

Init ==
    /\ disk = [f \in Files |-> "no"]
    /\ row = [f \in Files |-> "no"]
    /\ message = [m \in Messages |-> "no"]
    /\ told = [m \in Messages |-> {}]
    /\ served = FALSE
    /\ req = [r \in Requests |-> NewReq]
    /\ odd = {}

tables == <<disk, row, message, told, served>>

At(r, kind, step) == req[r].kind = kind /\ req[r].at = step
Goes(r, step) == req' = [req EXCEPT ![r].at = step]
IsNext(r) == \A q \in Requests : (req[q].at = "new") = (q >= r)

Comes(r, kind, f, m, step) ==
    /\ IsNext(r)
    /\ req' = [req EXCEPT ![r] = [kind |-> kind, file |-> f, message |-> m, at |-> step]]
    /\ UNCHANGED <<tables, odd>>

-----------------------------------------------------------------------------
(* upload_files.  The id is new, so nobody else has it yet.                *)

Upload(r) ==
    \E f \in Files : /\ \A q \in Requests : req[q].kind = "upload" => req[q].file # f
                     /\ Comes(r, "upload", f, None, "create")

\* validate_file, and File::create: an empty file.
CreateFile(r) ==
    /\ At(r, "upload", "create")
    /\ disk' = [disk EXCEPT ![req[r].file] = "part"]
    /\ Goes(r, "write")
    /\ UNCHANGED <<row, message, told, served, odd>>

\* write_all returns when the last block has been handed over; there is no flush.
WriteFile(r) ==
    /\ At(r, "upload", "write")
    /\ disk' = [disk EXCEPT ![req[r].file] = "last"]
    /\ Goes(r, "insert")
    /\ UNCHANGED <<row, message, told, served, odd>>

\* The last block is written, or it is not.
LastBlock(f) ==
    /\ disk[f] = "last"
    /\ \/ disk' = [disk EXCEPT ![f] = "whole"] /\ UNCHANGED odd
       \/ disk' = [disk EXCEPT ![f] = "part"] /\ odd' = odd \cup {"torn"}
    /\ UNCHANGED <<row, message, told, served, req>>

\* Mutant of InsertRow: the row does not wait for the write.
InsertRowEarly(r) ==
    /\ At(r, "upload", "write")
    /\ row' = [row EXCEPT ![req[r].file] = "free"]
    /\ Goes(r, "done")
    /\ UNCHANGED <<disk, message, told, served, odd>>

\* The row comes last, linked to no message; the client learns the id.
InsertRow(r) ==
    /\ At(r, "upload", "insert")
    /\ row' = [row EXCEPT ![req[r].file] = "free"]
    /\ Goes(r, "done")
    /\ UNCHANGED <<disk, message, told, served, odd>>

Uploaded(f) == \E r \in Requests : At(r, "upload", "done") /\ req[r].file = f

-----------------------------------------------------------------------------
(* create_message, with the id of an attachment the client has uploaded.   *)

Send(r) ==
    \E f \in Files, m \in Messages :
        /\ Uploaded(f)
        /\ \A q \in Requests : req[q].kind = "send" => req[q].file # f /\ req[q].message # m
        /\ Comes(r, "send", f, m, "create")

InsertMessage(r) ==
    /\ At(r, "send", "create")
    /\ message' = [message EXCEPT ![req[r].message] = "there"]
    /\ Goes(r, "link")
    /\ UNCHANGED <<disk, row, told, served, odd>>

\* link_to_message: an UPDATE of the row, if it is still there.  A message that has
\* gone is refused by the foreign key, and the request ends.
Link(r) ==
    LET f == req[r].file  m == req[r].message IN
    /\ At(r, "send", "link")
    /\ IF row[f] # "no" /\ message[m] = "gone"
         THEN Goes(r, "failed") /\ UNCHANGED row
         ELSE /\ row' = IF row[f] = "no" THEN row ELSE [row EXCEPT ![f] = m]
              /\ Goes(r, "tell")
    /\ UNCHANGED <<disk, message, told, served, odd>>

\* get_by_message_id, the name of the author, and MessageCreated with what it has
\* found: nothing, too, when the SELECT fails.
LinkedTo(m) == {f \in Files : row[f] = m}

Announce(r) ==
    /\ At(r, "send", "tell")
    /\ \/ /\ told' = [told EXCEPT ![req[r].message] = LinkedTo(req[r].message)]
          /\ UNCHANGED odd
       \/ UNCHANGED told /\ odd' = odd \cup {"unread"}
    /\ Goes(r, "done")
    /\ UNCHANGED <<disk, row, message, served>>

-----------------------------------------------------------------------------
(* delete_message: ON DELETE CASCADE takes the rows, and no file.          *)

DeleteMessage(r) ==
    \E m \in Messages :
        /\ IsNext(r) /\ message[m] = "there"
        /\ message' = [message EXCEPT ![m] = "gone"]
        /\ row' = [f \in Files |-> IF row[f] = m THEN "no" ELSE row[f]]
        /\ odd' = odd \cup {"removed"}
        /\ req' = [req EXCEPT ![r] =
                      [kind |-> "unsend", file |-> None, message |-> m, at |-> "done"]]
        /\ UNCHANGED <<disk, told, served>>

-----------------------------------------------------------------------------
(* delete_attachment, as the author of the message: the row is read, and   *)
(* read again; the file is removed if it exists, and then the row.         *)

Delete(r) == \E f \in Files : Uploaded(f) /\ Comes(r, "delete", f, None, "get")

Get(r) ==
    /\ At(r, "delete", "get")
    /\ IF row[req[r].file] = "no" THEN Goes(r, "done") /\ UNCHANGED odd
       ELSE Goes(r, "exists") /\ odd' = odd \cup {"removed"}
    /\ UNCHANGED tables

\* path.exists(): a file that another request has removed is no reason to stop.
AfterExists(f) == IF disk[f] = "no" THEN "drop" ELSE "remove"

Exists(r) ==
    /\ At(r, "delete", "exists")
    /\ Goes(r, IF row[req[r].file] = "no" THEN "done" ELSE AfterExists(req[r].file))
    /\ UNCHANGED <<tables, odd>>

\* remove_file, which fails when the file has gone meanwhile.
RemoveFile(r) ==
    LET f == req[r].file IN
    /\ At(r, "delete", "remove")
    /\ disk' = [disk EXCEPT ![f] = "no"]
    /\ Goes(r, IF disk[f] = "no" THEN "done" ELSE "drop")
    /\ UNCHANGED <<row, message, told, served, odd>>

DropRow(r) ==
    /\ At(r, "delete", "drop")
    /\ row' = [row EXCEPT ![req[r].file] = "no"]
    /\ Goes(r, "done")
    /\ UNCHANGED <<disk, message, told, served, odd>>

-----------------------------------------------------------------------------
(* download_file: the row, and then the file.                              *)

Download(r) == \E f \in Files : Uploaded(f) /\ Comes(r, "download", f, None, "get")

FindRow(r) ==
    /\ At(r, "download", "get")
    /\ Goes(r, IF row[req[r].file] = "no" THEN "done" ELSE "read")
    /\ UNCHANGED <<tables, odd>>

ReadFile(r) ==
    /\ At(r, "download", "read")
    /\ served' = (served \/ disk[req[r].file] \in {"no", "part"})
    /\ Goes(r, "done")
    /\ UNCHANGED <<disk, row, message, told, odd>>

\* A step fails or the server dies: the request goes no further.
Stop(r) ==
    /\ req[r].at \notin {"new", "done", "failed"}
    /\ Goes(r, "failed")
    /\ odd' = IF req[r].kind = "delete" THEN odd \cup {"stopped"} ELSE odd
    /\ UNCHANGED tables

Handle(r) ==
    \/ Upload(r) \/ CreateFile(r) \/ WriteFile(r) \/ InsertRow(r)
    \/ Send(r) \/ InsertMessage(r) \/ Link(r) \/ Announce(r)
    \/ DeleteMessage(r)
    \/ Delete(r) \/ Get(r) \/ Exists(r) \/ RemoveFile(r) \/ DropRow(r)
    \/ Download(r) \/ FindRow(r) \/ ReadFile(r)

Next ==
    \/ \E r \in Requests : Handle(r) \/ Stop(r)
    \/ \E f \in Files : LastBlock(f)

Spec == Init /\ [][Next]_vars

-----------------------------------------------------------------------------
Deleting(f) == \E r \in Requests : At(r, "delete", "drop") /\ req[r].file = f

(* Whatever overlaps or stops: a row is there only when its file is, whole *)
(* or but for the block that is being written, except for an attachment    *)
(* that is being deleted or whose deletion stopped, and for one whose last *)
(* block could not be written, which nobody notices; a download finds no   *)
(* file only then.  Unless something was deleted meanwhile, a message is   *)
(* announced with the attachment it was sent with and no other, or with    *)
(* none where the SELECT of its attachments failed.                        *)
UploadsAgree ==
    /\ {"stopped", "torn"} \cap odd = {} =>
           \A f \in Files : row[f] # "no" /\ ~Deleting(f) => disk[f] \in {"last", "whole"}
    /\ {"removed", "torn"} \cap odd = {} => ~served
    /\ "removed" \notin odd =>
           /\ \A r \in Requests : At(r, "send", "done") =>
                  \/ told[req[r].message] = {req[r].file}
                  \/ told[req[r].message] = {} /\ "unread" \in odd
           /\ \A f \in Files : row[f] \in Messages => message[row[f]] = "there"
=============================================================================
