--------------------------- MODULE ServerProofs ---------------------------
(***************************************************************************)
(* Proofs about the components that the server's database holds together,  *)
(* for every value of their constants. Each is instantiated under its own  *)
(* name, and its variables have theirs here, with the component in front   *)
(* where two use one name.                                                 *)
(***************************************************************************)
EXTENDS Naturals, Sequences, FiniteSets, FiniteSetTheorems, WellFoundedInduction, TLAPS

CONSTANTS Files, Messages, MaxUpRequests, None, Users, MaxRecRequests,
    Channels, Clicks, Breaking, VoiceFailing, MaxMsgs, First, PageSize,
    Requests, Failing, FeedLoads, Olders

VARIABLES disk, up_row, up_message, up_told, served, up_req, up_odd,
    community, owner, members, channels, invite, dms, orphans, rec_req,
    rec_odd, voice_row, flag, subscribers, online, voice_requests,
    voice_inbox, local, shown, mine, voice_pc, chan, found, hasty, late,
    failed, silent, stale, rows, text, pinned, react, last, feed_pc,
    feed_kind, msg, data, feed_list, reactions, subscribed, feed_inbox,
    load, page, loading, reached_end, last_count, older, from, olderPage,
    raced, again, bare

Up == INSTANCE Uploads WITH
    req <- up_req, told <- up_told, odd <- up_odd, row <- up_row,
    message <- up_message, MaxRequests <- MaxUpRequests
Rec == INSTANCE Records WITH
    req <- rec_req, odd <- rec_odd, MaxRequests <- MaxRecRequests
V == INSTANCE Voice WITH
    Failing <- VoiceFailing, row <- voice_row, pc <- voice_pc,
    inbox <- voice_inbox, requests <- voice_requests
Feed == INSTANCE ChannelFeed WITH
    pc <- feed_pc, inbox <- feed_inbox, kind <- feed_kind,
    list <- feed_list, Loads <- FeedLoads

-----------------------------------------------------------------------------
(* Attachments (Uploads).                                                  *)

(* What a row says of an attachment without a message is no message.       *)
UploadsAssumption == {"no", "free"} \cap Messages = {} /\ None \notin Files \cup Messages

(* The actions of Next, one by one.                                        *)
LEMMA UploadsCases ==
    ASSUME Up!Next, NEW G,
           ASSUME NEW r \in Up!Requests, Up!Upload(r) PROVE G,
           ASSUME NEW r \in Up!Requests, Up!CreateFile(r) PROVE G,
           ASSUME NEW r \in Up!Requests, Up!WriteFile(r) PROVE G,
           ASSUME NEW r \in Up!Requests, Up!InsertRow(r) PROVE G,
           ASSUME NEW r \in Up!Requests, Up!Send(r) PROVE G,
           ASSUME NEW r \in Up!Requests, Up!InsertMessage(r) PROVE G,
           ASSUME NEW r \in Up!Requests, Up!Link(r) PROVE G,
           ASSUME NEW r \in Up!Requests, Up!Announce(r) PROVE G,
           ASSUME NEW r \in Up!Requests, Up!DeleteMessage(r) PROVE G,
           ASSUME NEW r \in Up!Requests, Up!Delete(r) PROVE G,
           ASSUME NEW r \in Up!Requests, Up!Get(r) PROVE G,
           ASSUME NEW r \in Up!Requests, Up!Exists(r) PROVE G,
           ASSUME NEW r \in Up!Requests, Up!RemoveFile(r) PROVE G,
           ASSUME NEW r \in Up!Requests, Up!DropRow(r) PROVE G,
           ASSUME NEW r \in Up!Requests, Up!Download(r) PROVE G,
           ASSUME NEW r \in Up!Requests, Up!FindRow(r) PROVE G,
           ASSUME NEW r \in Up!Requests, Up!ReadFile(r) PROVE G,
           ASSUME NEW r \in Up!Requests, Up!Stop(r) PROVE G,
           ASSUME NEW f \in Files, Up!LastBlock(f) PROVE G
    PROVE  G
  BY DEF Up!Next, Up!Handle

(* Where a request of each kind may stand.                                 *)
Stages(kind) ==
    CASE kind = "none" -> {"new"}
      [] kind = "upload" -> {"create", "write", "insert", "done", "failed"}
      [] kind = "send" -> {"create", "link", "tell", "done", "failed"}
      [] kind = "unsend" -> {"done"}
      [] kind = "delete" -> {"get", "exists", "remove", "drop", "done", "failed"}
      [] kind = "download" -> {"get", "read", "done", "failed"}

(* What a request is about; only what has been uploaded is sent, deleted   *)
(* and downloaded.                                                         *)
KindInv ==
    \A r \in Up!Requests :
        /\ up_req[r].at \in Stages(up_req[r].kind)
        /\ up_req[r].kind \in {"upload", "send", "delete", "download"} => up_req[r].file \in Files
        /\ up_req[r].kind = "send" => up_req[r].message \in Messages
        /\ up_req[r].kind \in {"send", "delete", "download"} => Up!Uploaded(up_req[r].file)

(* An upload and a send have their file, and a send its message, to        *)
(* themselves.                                                             *)
OwnInv ==
    \A q, r \in Up!Requests :
        /\ q # r /\ up_req[q].kind = up_req[r].kind /\ up_req[q].file = up_req[r].file
              => up_req[q].kind \notin {"upload", "send"}
        /\ q # r /\ up_req[q].kind = "send" /\ up_req[r].kind = "send" => up_req[q].message # up_req[r].message

(* The file is whole, or but for the block that is being written.          *)
Good(f) == disk[f] \in {"last", "whole"}

(* A file and its row while they are uploaded, and afterwards.             *)
FileInv ==
    /\ \A f \in Files : up_row[f] # "no" => Up!Uploaded(f)
    /\ "torn" \notin up_odd => \A r \in Up!Requests : Up!At(r, "upload", "insert") => Good(up_req[r].file)
    /\ "torn" \notin up_odd /\ "stopped" \notin up_odd =>
           \A f \in Files : up_row[f] # "no" /\ ~Up!Deleting(f) => Good(f)

(* As long as nothing has been removed: no deletion is past its look, what *)
(* was uploaded is there, a message that was sent is linked to its         *)
(* attachment and announced with it, and no row is linked otherwise.       *)
NoDeletion ==
    /\ \A r \in Up!Requests : up_req[r].at \notin {"exists", "remove", "drop"}
    /\ \A m \in Messages : up_message[m] # "gone"

FilesWhole ==
    /\ \A f \in Files : Up!Uploaded(f) => up_row[f] # "no"
    /\ "torn" \notin up_odd => ~served /\ \A f \in Files : Up!Uploaded(f) => Good(f)

SendsLinked ==
    \A r \in Up!Requests :
        /\ Up!At(r, "send", "link") => up_message[up_req[r].message] = "there"
        /\ Up!At(r, "send", "tell") \/ Up!At(r, "send", "done") =>
                 up_row[up_req[r].file] = up_req[r].message /\ up_message[up_req[r].message] = "there"
        /\ Up!At(r, "send", "done") =>
                 \/ up_told[up_req[r].message] = {up_req[r].file}
                 \/ up_told[up_req[r].message] = {} /\ "unread" \in up_odd

RowsLinked ==
    \A f \in Files : up_row[f] \in Messages =>
        /\ up_message[up_row[f]] = "there"
        /\ \E r \in Up!Requests :
              up_req[r].kind = "send" /\ up_req[r].file = f /\ up_req[r].message = up_row[f]

Whole == NoDeletion /\ FilesWhole /\ SendsLinked /\ RowsLinked
WholeInv == "removed" \notin up_odd => Whole

(* A message is announced by the request that sends it.                    *)
Announced(m) == \E r \in Up!Requests : Up!At(r, "send", "done") /\ up_req[r].message = m
ToldInv == \A m \in Messages : up_told[m] # {} => Announced(m)

UploadsInv == Up!TypeOK /\ KindInv /\ OwnInv /\ FileInv /\ WholeInv

-----------------------------------------------------------------------------
(* A request goes on, and what it is about stays.                          *)
Moved(r, step) ==
    /\ up_req' \in [Up!Requests -> [kind : Up!Kinds, file : Files \cup {None},
                                    message : Messages \cup {None}, at : Up!Steps]]
    /\ KindInv' /\ OwnInv'
    /\ \A q \in Up!Requests :
          /\ up_req'[q].kind = up_req[q].kind /\ up_req'[q].file = up_req[q].file
          /\ up_req'[q].message = up_req[q].message
          /\ up_req'[q].at = IF q = r THEN step ELSE up_req[q].at
    /\ \A f : Up!Uploaded(f) => Up!Uploaded(f)'
    /\ \A f : Up!Uploaded(f)' =>
          Up!Uploaded(f) \/ (up_req[r].kind = "upload" /\ step = "done" /\ f = up_req[r].file)

(* A request that goes on, and was not an upload that is over, leaves the  *)
(* files and messages of the others to them.                               *)
LEMMA Going ==
    ASSUME Up!TypeOK, KindInv, OwnInv, NEW r \in Up!Requests, NEW step \in Up!Steps, Up!Goes(r, step),
           step \in Stages(up_req[r].kind), ~Up!At(r, "upload", "done")
    PROVE  Moved(r, step)
<1>1. /\ up_req \in [Up!Requests -> [kind : Up!Kinds, file : Files \cup {None},
                                     message : Messages \cup {None}, at : Up!Steps]]
      /\ up_req' = [up_req EXCEPT ![r].at = step]
  BY DEF Up!TypeOK, Up!Goes
<1>2. /\ up_req' \in [Up!Requests -> [kind : Up!Kinds, file : Files \cup {None},
                                      message : Messages \cup {None}, at : Up!Steps]]
      /\ \A q \in Up!Requests :
            /\ up_req'[q].kind = up_req[q].kind /\ up_req'[q].file = up_req[q].file
            /\ up_req'[q].message = up_req[q].message
            /\ up_req'[q].at = IF q = r THEN step ELSE up_req[q].at
  BY <1>1
<1>3. \A f : Up!Uploaded(f) => Up!Uploaded(f)'
  BY <1>2 DEF Up!Uploaded, Up!At
<1>4. \A f : Up!Uploaded(f)' =>
          Up!Uploaded(f) \/ (up_req[r].kind = "upload" /\ step = "done" /\ f = up_req[r].file)
  BY <1>2 DEF Up!Uploaded, Up!At
<1>5. KindInv'
  <2> SUFFICES ASSUME NEW q \in Up!Requests
               PROVE  /\ up_req'[q].at \in Stages(up_req'[q].kind)
                      /\ up_req'[q].kind \in {"upload", "send", "delete", "download"} =>
                                up_req'[q].file \in Files
                      /\ up_req'[q].kind = "send" => up_req'[q].message \in Messages
                      /\ up_req'[q].kind \in {"send", "delete", "download"} => Up!Uploaded(up_req[q].file)'
    BY <1>2 DEF KindInv, Up!Uploaded, Up!At
  <2> QED
    BY <1>2, <1>3 DEF KindInv
<1>6. OwnInv'
  BY <1>2 DEF OwnInv
<1> QED
  BY <1>2, <1>3, <1>4, <1>5, <1>6 DEF Moved

(* A request comes.                                                        *)
LEMMA Coming ==
    ASSUME Up!TypeOK, KindInv, OwnInv, NEW r \in Up!Requests, up_req[r].at = "new",
           NEW kind \in Up!Kinds \ {"none"}, NEW f \in Files \cup {None},
           NEW m \in Messages \cup {None}, NEW step \in Stages(kind),
           up_req' = [up_req EXCEPT ![r] = [kind |-> kind, file |-> f, message |-> m, at |-> step]],
           kind # "unsend" => f \in Files,
           kind = "send" => m \in Messages,
           kind \in {"send", "delete", "download"} => Up!Uploaded(f),
           kind = "upload" =>
              step # "done" /\ \A q \in Up!Requests : up_req[q].kind = "upload" => up_req[q].file # f,
           kind = "send" => \A q \in Up!Requests :
                               up_req[q].kind = "send" => up_req[q].file # f /\ up_req[q].message # m
    PROVE  /\ up_req' \in [Up!Requests -> [kind : Up!Kinds, file : Files \cup {None},
                                           message : Messages \cup {None}, at : Up!Steps]]
           /\ KindInv' /\ OwnInv'
           /\ \A q \in Up!Requests : q # r => up_req'[q] = up_req[q]
           /\ up_req[r].kind = "none"
           /\ up_req'[r] = [kind |-> kind, file |-> f, message |-> m, at |-> step]
           /\ \A g : Up!Uploaded(g)' <=> Up!Uploaded(g)
<1>1. /\ up_req \in [Up!Requests -> [kind : Up!Kinds, file : Files \cup {None},
                                     message : Messages \cup {None}, at : Up!Steps]]
      /\ step \in Up!Steps
  BY DEF Up!TypeOK, Stages, Up!Kinds, Up!Steps
<1>2. up_req[r].kind = "none"
  BY <1>1 DEF KindInv, Stages, Up!Kinds
<1>3. /\ up_req' \in [Up!Requests -> [kind : Up!Kinds, file : Files \cup {None},
                                      message : Messages \cup {None}, at : Up!Steps]]
      /\ \A q \in Up!Requests : q # r => up_req'[q] = up_req[q]
      /\ up_req'[r] = [kind |-> kind, file |-> f, message |-> m, at |-> step]
  BY <1>1
<1>4. \A g : Up!Uploaded(g)' <=> Up!Uploaded(g)
  BY <1>2, <1>3 DEF Up!Uploaded, Up!At
<1>5. KindInv'
  <2> SUFFICES ASSUME NEW q \in Up!Requests
               PROVE  /\ up_req'[q].at \in Stages(up_req'[q].kind)
                      /\ up_req'[q].kind \in {"upload", "send", "delete", "download"} =>
                                up_req'[q].file \in Files
                      /\ up_req'[q].kind = "send" => up_req'[q].message \in Messages
                      /\ \A g : g = up_req'[q].file /\ up_req'[q].kind \in {"send", "delete", "download"}
                                => Up!Uploaded(g)'
    BY DEF KindInv, Up!Uploaded, Up!At
  <2>1. CASE q = r
    BY <1>3, <1>4, <2>1 DEF Up!Kinds
  <2>2. CASE q # r
    BY <1>3, <1>4, <2>2 DEF KindInv
  <2> QED
    BY <2>1, <2>2
<1>6. OwnInv'
  <2> SUFFICES ASSUME NEW p \in Up!Requests, NEW q \in Up!Requests, p # q
               PROVE  /\ up_req'[p].kind = up_req'[q].kind /\ up_req'[p].file = up_req'[q].file
                               => up_req'[p].kind \notin {"upload", "send"}
                      /\ up_req'[p].kind = "send" /\ up_req'[q].kind = "send"
                               => up_req'[p].message # up_req'[q].message
    BY DEF OwnInv
  <2>1. CASE p # r /\ q # r
    BY <1>3, <2>1 DEF OwnInv
  <2>2. CASE p = r
    BY <1>3, <2>2
  <2>3. CASE q = r
    BY <1>3, <2>3
  <2> QED
    BY <2>1, <2>2, <2>3
<1> QED
  BY <1>2, <1>3, <1>4, <1>5, <1>6

-----------------------------------------------------------------------------
(* Every action keeps the invariant.  Who only comes changes no table.     *)
LEMMA Arriving ==
    ASSUME UploadsInv, NEW r \in Up!Requests,
           NEW kind \in {"upload", "send", "delete", "download"}, NEW f \in Files,
           NEW m \in Messages \cup {None}, NEW step \in {"create", "get"}, step \in Stages(kind),
           Up!Comes(r, kind, f, m, step),
           kind = "send" => m \in Messages,
           kind # "upload" => Up!Uploaded(f),
           kind = "upload" => \A q \in Up!Requests : up_req[q].kind = "upload" => up_req[q].file # f,
           kind = "send" => \A q \in Up!Requests :
                               up_req[q].kind = "send" => up_req[q].file # f /\ up_req[q].message # m
    PROVE  UploadsInv'
<1>1. Up!TypeOK /\ KindInv /\ OwnInv /\ FileInv /\ WholeInv
  BY DEF UploadsInv
<1>2. /\ up_req[r].at = "new" /\ UNCHANGED <<disk, up_row, up_message, up_told, served, up_odd>>
      /\ up_req' = [up_req EXCEPT ![r] = [kind |-> kind, file |-> f, message |-> m, at |-> step]]
  BY DEF Up!Comes, Up!IsNext, Up!Requests, Up!tables
<1>3. /\ up_req' \in [Up!Requests -> [kind : Up!Kinds, file : Files \cup {None},
                                      message : Messages \cup {None}, at : Up!Steps]]
      /\ KindInv' /\ OwnInv'
      /\ \A q \in Up!Requests : q # r => up_req'[q] = up_req[q]
      /\ up_req[r].kind = "none"
      /\ up_req'[r] = [kind |-> kind, file |-> f, message |-> m, at |-> step]
      /\ \A g : Up!Uploaded(g)' <=> Up!Uploaded(g)
  <2>1. /\ kind \in Up!Kinds \ {"none"} /\ f \in Files \cup {None} /\ step \in Stages(kind)
        /\ kind \in {"send", "delete", "download"} => Up!Uploaded(f)
        /\ kind = "upload" =>
              step # "done" /\ \A q \in Up!Requests : up_req[q].kind = "upload" => up_req[q].file # f
    BY DEF Up!Kinds
  <2> QED
    BY <1>1, <1>2, <2>1, Coming
<1>4. Up!TypeOK'
  BY <1>1, <1>2, <1>3 DEF Up!TypeOK
<1>5. \A g : Up!Deleting(g) => Up!Deleting(g)'
  BY <1>3 DEF Up!Deleting, Up!At
<1>6. FileInv'
  BY <1>1, <1>2, <1>3, <1>5 DEF FileInv, Up!TypeOK, Up!At, Good
<1>7. WholeInv'
  <2> SUFFICES ASSUME Whole PROVE Whole'
    BY <1>1, <1>2 DEF WholeInv
  <2>1. NoDeletion' /\ FilesWhole'
    BY <1>2, <1>3 DEF Whole, NoDeletion, FilesWhole, Good
  <2>2. SendsLinked'
    BY <1>2, <1>3 DEF Whole, SendsLinked, Up!At
  <2>3. RowsLinked'
    BY <1>2, <1>3 DEF Whole, RowsLinked
  <2> QED
    BY <2>1, <2>2, <2>3 DEF Whole
<1> QED
  BY <1>3, <1>4, <1>6, <1>7 DEF UploadsInv

(* A request that has ended stays as it is, and only the announcement      *)
(* writes what is told.                                                    *)
LEMMA ToldStep == ASSUME Up!TypeOK, ToldInv, Up!Next PROVE ToldInv'
<1>0. /\ up_req \in [Up!Requests -> [kind : Up!Kinds, file : Files \cup {None},
                                     message : Messages \cup {None}, at : Up!Steps]]
      /\ up_told \in [Messages -> SUBSET Files]
  BY DEF Up!TypeOK
<1>1. ASSUME NEW r \in Up!Requests, NEW new, up_req[r].at # "done", up_req' = [up_req EXCEPT ![r] = new]
      PROVE  \A m : Announced(m) => Announced(m)'
  BY <1>0, <1>1 DEF Announced, Up!At
<1>2. ASSUME NEW r \in Up!Requests, NEW step, up_req[r].at # "done", Up!Goes(r, step)
      PROVE  \A m : Announced(m) => Announced(m)'
  BY <1>0, <1>2 DEF Announced, Up!At, Up!Goes
<1>3. ASSUME up_told' = up_told, \A m : Announced(m) => Announced(m)' PROVE ToldInv'
  BY <1>3 DEF ToldInv
<1>4. ASSUME NEW r \in Up!Requests, NEW kind, NEW f, NEW m, NEW step, Up!Comes(r, kind, f, m, step)
      PROVE  ToldInv'
  <2>1. up_req[r].at = "new"
    BY <1>4 DEF Up!Comes, Up!IsNext, Up!Requests
  <2> QED
    BY <1>1, <1>3, <1>4, <2>1 DEF Up!Comes, Up!tables
<1>5. ASSUME NEW r \in Up!Requests, Up!Upload(r) \/ Up!Send(r) \/ Up!Delete(r) \/ Up!Download(r) PROVE ToldInv'
  BY <1>4, <1>5 DEF Up!Upload, Up!Send, Up!Delete, Up!Download
<1>6. ASSUME NEW r \in Up!Requests, Up!CreateFile(r) \/ Up!WriteFile(r) \/ Up!InsertRow(r) PROVE ToldInv'
  BY <1>2, <1>3, <1>6 DEF Up!CreateFile, Up!WriteFile, Up!InsertRow, Up!At
<1>7. ASSUME NEW r \in Up!Requests, Up!InsertMessage(r) \/ Up!Link(r) PROVE ToldInv'
  BY <1>2, <1>3, <1>7 DEF Up!InsertMessage, Up!Link, Up!At
<1>8. ASSUME NEW r \in Up!Requests, Up!Get(r) \/ Up!Exists(r) \/ Up!RemoveFile(r) \/ Up!DropRow(r) PROVE ToldInv'
  BY <1>2, <1>3, <1>8 DEF Up!Get, Up!Exists, Up!RemoveFile, Up!DropRow, Up!At, Up!tables
<1>9. ASSUME NEW r \in Up!Requests, Up!FindRow(r) \/ Up!ReadFile(r) \/ Up!Stop(r) PROVE ToldInv'
  BY <1>2, <1>3, <1>9 DEF Up!FindRow, Up!ReadFile, Up!Stop, Up!At, Up!tables
<1>10. ASSUME NEW r \in Up!Requests, Up!DeleteMessage(r) PROVE ToldInv'
  <2>1. up_req[r].at = "new"
    BY <1>10 DEF Up!DeleteMessage, Up!IsNext, Up!Requests
  <2>2. PICK new : up_req' = [up_req EXCEPT ![r] = new]
    BY <1>10 DEF Up!DeleteMessage
  <2>3. up_told' = up_told
    BY <1>10 DEF Up!DeleteMessage
  <2> QED
    BY <1>1, <1>3, <2>1, <2>2, <2>3
<1>11. ASSUME NEW f \in Files, Up!LastBlock(f) PROVE ToldInv'
  BY <1>11 DEF Up!LastBlock, ToldInv, Announced, Up!At
<1>12. ASSUME NEW r \in Up!Requests, Up!Announce(r) PROVE ToldInv'
  <2>1. Up!At(r, "send", "tell") /\ Up!Goes(r, "done")
    BY <1>12 DEF Up!Announce
  <2>2. \A m : Announced(m) => Announced(m)'
    BY <1>2, <2>1 DEF Up!At
  <2>3. \A m : m = up_req[r].message => Announced(m)'
    BY <1>0, <2>1 DEF Announced, Up!At, Up!Goes
  <2>4. \A m \in Messages : m # up_req[r].message => up_told'[m] = up_told[m]
    BY <1>0, <1>12 DEF Up!Announce
  <2> QED
    BY <2>2, <2>3, <2>4 DEF ToldInv
<1> QED
  BY UploadsCases, <1>5, <1>6, <1>7, <1>8, <1>9, <1>10, <1>11, <1>12

(* The rest of the invariant.                                              *)
LEMMA UploadsStep == ASSUME UploadsAssumption, UploadsInv, ToldInv, Up!Next PROVE UploadsInv'
<1> USE DEF Moved, Good
<1>0. Up!TypeOK /\ KindInv /\ OwnInv /\ FileInv /\ WholeInv
  BY DEF UploadsInv
<1>1. ASSUME NEW r \in Up!Requests, Up!Upload(r) PROVE UploadsInv'
  BY <1>1, Arriving DEF Up!Upload, Stages
<1>2. ASSUME NEW r \in Up!Requests, Up!Send(r) PROVE UploadsInv'
  BY <1>2, Arriving DEF Up!Send, Stages
<1>3. ASSUME NEW r \in Up!Requests, Up!Delete(r) PROVE UploadsInv'
  BY <1>3, Arriving DEF Up!Delete, Stages
<1>4. ASSUME NEW r \in Up!Requests, Up!Download(r) PROVE UploadsInv'
  BY <1>4, Arriving DEF Up!Download, Stages
<1>5. ASSUME NEW r \in Up!Requests, Up!CreateFile(r) PROVE UploadsInv'
  <2>1. /\ Up!At(r, "upload", "create") /\ Up!Goes(r, "write")
        /\ UNCHANGED <<up_row, up_message, up_told, served, up_odd>>
        /\ disk' = [disk EXCEPT ![up_req[r].file] = "part"]
    BY <1>5 DEF Up!CreateFile, Up!tables
  <2>2. "write" \in Up!Steps /\ "write" \in Stages(up_req[r].kind) /\ ~Up!At(r, "upload", "done")
    BY <2>1 DEF Up!At, Stages, Up!Steps
  <2>3. Moved(r, "write")
    BY <1>0, <2>1, <2>2, Going
  <2>4. up_req[r].file \in Files /\ (up_req[r].kind = "send" => up_req[r].message \in Messages)
    BY <1>0, <2>1 DEF KindInv, Up!At
  <2>5. /\ ~Up!Uploaded(up_req[r].file) /\ up_row[up_req[r].file] = "no"
        /\ \A q \in Up!Requests : q # r /\ up_req[q].kind = "upload" => up_req[q].file # up_req[r].file
        /\ \A q \in Up!Requests : up_req[q].kind = "send" => up_req[q].file # up_req[r].file
    BY <1>0, <2>1, <2>4 DEF Up!Uploaded, Up!At, OwnInv, FileInv, KindInv
  <2>6. Up!TypeOK'
    BY <1>0, <2>1, <2>3, <2>4 DEF Up!TypeOK
  <2>7. \A g : Up!Deleting(g) => Up!Deleting(g)'
    BY <1>0, <2>1, <2>3 DEF Up!Deleting, Up!At
  <2>8. FileInv'
    BY <1>0, <2>1, <2>3, <2>4, <2>5, <2>7, SMTT(30) DEF FileInv, Up!TypeOK, Up!At
  <2>9. WholeInv'
    <3> SUFFICES ASSUME Whole PROVE Whole'
      BY <1>0, <2>1 DEF WholeInv
    <3>1. NoDeletion'
      BY <1>0, <2>1, <2>3, <2>4, <2>5, <2>7 DEF Whole, NoDeletion, Up!TypeOK, Up!At
    <3>2. FilesWhole'
      BY <1>0, <2>1, <2>3, <2>4, <2>5, <2>7 DEF Whole, FilesWhole, Up!TypeOK, Up!At
    <3>3. SendsLinked'
      BY <1>0, <2>1, <2>3, <2>4, <2>5, <2>7 DEF Whole, SendsLinked, KindInv, Up!TypeOK, Up!At
    <3>4. RowsLinked'
      BY <1>0, <2>1, <2>3, <2>4, <2>5, <2>7 DEF Whole, RowsLinked, Up!TypeOK, Up!At
    <3> QED
      BY <3>1, <3>2, <3>3, <3>4 DEF Whole
  <2> QED
    BY <2>3, <2>6, <2>8, <2>9 DEF UploadsInv
<1>6. ASSUME NEW r \in Up!Requests, Up!WriteFile(r) PROVE UploadsInv'
  <2>1. /\ Up!At(r, "upload", "write") /\ Up!Goes(r, "insert")
        /\ UNCHANGED <<up_row, up_message, up_told, served, up_odd>>
        /\ disk' = [disk EXCEPT ![up_req[r].file] = "last"]
    BY <1>6 DEF Up!WriteFile, Up!tables
  <2>2. "insert" \in Up!Steps /\ "insert" \in Stages(up_req[r].kind) /\ ~Up!At(r, "upload", "done")
    BY <2>1 DEF Up!At, Stages, Up!Steps
  <2>3. Moved(r, "insert")
    BY <1>0, <2>1, <2>2, Going
  <2>4. up_req[r].file \in Files /\ (up_req[r].kind = "send" => up_req[r].message \in Messages)
    BY <1>0, <2>1 DEF KindInv, Up!At
  <2>5. /\ ~Up!Uploaded(up_req[r].file) /\ up_row[up_req[r].file] = "no"
        /\ \A q \in Up!Requests : q # r /\ up_req[q].kind = "upload" => up_req[q].file # up_req[r].file
        /\ \A q \in Up!Requests : up_req[q].kind = "send" => up_req[q].file # up_req[r].file
    BY <1>0, <2>1, <2>4 DEF Up!Uploaded, Up!At, OwnInv, FileInv, KindInv
  <2>6. Up!TypeOK'
    BY <1>0, <2>1, <2>3, <2>4 DEF Up!TypeOK
  <2>7. \A g : Up!Deleting(g) => Up!Deleting(g)'
    BY <1>0, <2>1, <2>3 DEF Up!Deleting, Up!At
  <2>8. FileInv'
    BY <1>0, <2>1, <2>3, <2>4, <2>5, <2>7 DEF FileInv, Up!TypeOK, Up!At
  <2>9. WholeInv'
    <3> SUFFICES ASSUME Whole PROVE Whole'
      BY <1>0, <2>1 DEF WholeInv
    <3>1. NoDeletion'
      BY <1>0, <2>1, <2>3, <2>4, <2>5, <2>7 DEF Whole, NoDeletion, Up!TypeOK, Up!At
    <3>2. FilesWhole'
      BY <1>0, <2>1, <2>3, <2>4, <2>5, <2>7 DEF Whole, FilesWhole, Up!TypeOK, Up!At
    <3>3. SendsLinked'
      BY <1>0, <2>1, <2>3, <2>4, <2>5, <2>7 DEF Whole, SendsLinked, KindInv, Up!TypeOK, Up!At
    <3>4. RowsLinked'
      BY <1>0, <2>1, <2>3, <2>4, <2>5, <2>7 DEF Whole, RowsLinked, Up!TypeOK, Up!At
    <3> QED
      BY <3>1, <3>2, <3>3, <3>4 DEF Whole
  <2> QED
    BY <2>3, <2>6, <2>8, <2>9 DEF UploadsInv
<1>7. ASSUME NEW r \in Up!Requests, Up!InsertRow(r) PROVE UploadsInv'
  <2>1. /\ Up!At(r, "upload", "insert") /\ Up!Goes(r, "done")
        /\ UNCHANGED <<disk, up_message, up_told, served, up_odd>>
        /\ up_row' = [up_row EXCEPT ![up_req[r].file] = "free"]
    BY <1>7 DEF Up!InsertRow, Up!tables
  <2>2. "done" \in Up!Steps /\ "done" \in Stages(up_req[r].kind) /\ ~Up!At(r, "upload", "done")
    BY <2>1 DEF Up!At, Stages, Up!Steps
  <2>3. Moved(r, "done")
    BY <1>0, <2>1, <2>2, Going
  <2>4. up_req[r].file \in Files /\ (up_req[r].kind = "send" => up_req[r].message \in Messages)
    BY <1>0, <2>1 DEF KindInv, Up!At
  <2>5. /\ ~Up!Uploaded(up_req[r].file) /\ up_row[up_req[r].file] = "no"
        /\ \A q \in Up!Requests : q # r /\ up_req[q].kind = "upload" => up_req[q].file # up_req[r].file
        /\ \A q \in Up!Requests : up_req[q].kind = "send" => up_req[q].file # up_req[r].file
    BY <1>0, <2>1, <2>4 DEF Up!Uploaded, Up!At, OwnInv, FileInv, KindInv
  <2>6. (\A g : g = up_req[r].file => Up!Uploaded(g)') /\ ("torn" \notin up_odd => Good(up_req[r].file)) /\ "free" \notin Messages
    BY <1>0, <2>1, <2>3 DEF Up!Uploaded, Up!At, FileInv, UploadsAssumption
  <2>7. Up!TypeOK'
    BY <1>0, <2>1, <2>3, <2>4 DEF Up!TypeOK
  <2>8. \A g : Up!Deleting(g) => Up!Deleting(g)'
    BY <1>0, <2>1, <2>3 DEF Up!Deleting, Up!At
  <2>9. FileInv'
    <3>1. \A g \in Files : up_row'[g] # "no" => Up!Uploaded(g)'
      BY <1>0, <2>1, <2>3, <2>4, <2>6 DEF FileInv, Up!TypeOK
    <3>2. "torn" \notin up_odd =>
            \A q \in Up!Requests : Up!At(q, "upload", "insert")' => disk[up_req'[q].file] \in {"last", "whole"}
      BY <1>0, <2>1, <2>3 DEF FileInv, Up!At
    <3>3. "torn" \notin up_odd /\ "stopped" \notin up_odd =>
            \A g \in Files : up_row'[g] # "no" /\ ~Up!Deleting(g)' => disk[g] \in {"last", "whole"}
      BY <1>0, <2>1, <2>4, <2>6, <2>8 DEF FileInv, Up!TypeOK
    <3> QED
      BY <2>1, <3>1, <3>2, <3>3 DEF FileInv
  <2>10. WholeInv'
    <3> SUFFICES ASSUME Whole PROVE Whole'
      BY <1>0, <2>1 DEF WholeInv
    <3>1. NoDeletion'
      BY <1>0, <2>1, <2>3, <2>4, <2>5, <2>6, <2>8 DEF Whole, NoDeletion, Up!TypeOK, Up!At
    <3>2. FilesWhole'
      BY <1>0, <2>1, <2>3, <2>4, <2>5, <2>6, <2>8 DEF Whole, FilesWhole, Up!TypeOK, Up!At
    <3>3. SendsLinked'
      BY <1>0, <2>1, <2>3, <2>4, <2>5, <2>6, <2>8 DEF Whole, SendsLinked, KindInv, Up!TypeOK, Up!At
    <3>4. RowsLinked'
      BY <1>0, <2>1, <2>3, <2>4, <2>5, <2>6, <2>8 DEF Whole, RowsLinked, Up!TypeOK, Up!At
    <3> QED
      BY <3>1, <3>2, <3>3, <3>4 DEF Whole
  <2> QED
    BY <2>3, <2>7, <2>9, <2>10 DEF UploadsInv
<1>8. ASSUME NEW r \in Up!Requests, Up!InsertMessage(r) PROVE UploadsInv'
  <2>1. /\ Up!At(r, "send", "create") /\ Up!Goes(r, "link")
        /\ UNCHANGED <<disk, up_row, up_told, served, up_odd>>
        /\ up_message' = [up_message EXCEPT ![up_req[r].message] = "there"]
    BY <1>8 DEF Up!InsertMessage, Up!tables
  <2>2. "link" \in Up!Steps /\ "link" \in Stages(up_req[r].kind) /\ ~Up!At(r, "upload", "done")
    BY <2>1 DEF Up!At, Stages, Up!Steps
  <2>3. Moved(r, "link")
    BY <1>0, <2>1, <2>2, Going
  <2>4. up_req[r].file \in Files /\ (up_req[r].kind = "send" => up_req[r].message \in Messages)
    BY <1>0, <2>1 DEF KindInv, Up!At
  <2>5. Up!TypeOK'
    BY <1>0, <2>1, <2>3, <2>4 DEF Up!TypeOK
  <2>6. \A g : Up!Deleting(g) => Up!Deleting(g)'
    BY <1>0, <2>1, <2>3 DEF Up!Deleting, Up!At
  <2>7. FileInv'
    BY <1>0, <2>1, <2>3, <2>4, <2>6, SMTT(30) DEF FileInv, Up!TypeOK, Up!At
  <2>8. WholeInv'
    <3> SUFFICES ASSUME Whole PROVE Whole'
      BY <1>0, <2>1 DEF WholeInv
    <3>1. NoDeletion'
      BY <1>0, <2>1, <2>3, <2>4, <2>6 DEF Whole, NoDeletion, Up!TypeOK, Up!At
    <3>2. FilesWhole'
      BY <1>0, <2>1, <2>3, <2>4, <2>6 DEF Whole, FilesWhole, Up!TypeOK, Up!At
    <3>3. SendsLinked'
      BY <1>0, <2>1, <2>3, <2>4, <2>6 DEF Whole, SendsLinked, KindInv, Up!TypeOK, Up!At
    <3>4. RowsLinked'
      BY <1>0, <2>1, <2>3, <2>4, <2>6 DEF Whole, RowsLinked, Up!TypeOK, Up!At
    <3> QED
      BY <3>1, <3>2, <3>3, <3>4 DEF Whole
  <2> QED
    BY <2>3, <2>5, <2>7, <2>8 DEF UploadsInv
<1>9. ASSUME NEW r \in Up!Requests, Up!Link(r) PROVE UploadsInv'
  <2>1. PICK step \in {"failed", "tell"} :
          /\ Up!At(r, "send", "link") /\ Up!Goes(r, step)
          /\ UNCHANGED <<disk, up_message, up_told, served, up_odd>>
          /\ up_row' = IF step = "failed" \/ up_row[up_req[r].file] = "no" THEN up_row
                       ELSE [up_row EXCEPT ![up_req[r].file] = up_req[r].message]
          /\ step = "failed" => up_message[up_req[r].message] = "gone"
    BY <1>9 DEF Up!Link
  <2>2. step \in Up!Steps /\ step \in Stages(up_req[r].kind) /\ ~Up!At(r, "upload", "done")
    BY <2>1 DEF Up!At, Stages, Up!Steps
  <2>3. Moved(r, step)
    BY <1>0, <2>1, <2>2, Going
  <2>4. up_req[r].file \in Files /\ (up_req[r].kind = "send" => up_req[r].message \in Messages)
    BY <1>0, <2>1 DEF KindInv, Up!At
  <2>5. Up!Uploaded(up_req[r].file) /\ up_req[r].message \in Messages /\ up_req[r].message # "no"
    BY <1>0, <2>1 DEF KindInv, Up!At, UploadsAssumption
  <2>6. Up!TypeOK'
    BY <1>0, <2>1, <2>3, <2>4, <2>5 DEF Up!TypeOK
  <2>7. \A g : Up!Deleting(g) => Up!Deleting(g)'
    BY <2>1, <2>3 DEF Up!Deleting, Up!At
  <2>8. \A g \in Files : up_row'[g] # "no" <=> up_row[g] # "no"
    BY <1>0, <2>1, <2>4, <2>5 DEF Up!TypeOK
  <2>9. FileInv'
    BY <1>0, <2>1, <2>3, <2>7, <2>8 DEF FileInv, Up!At
  <2>10. WholeInv'
    <3> SUFFICES ASSUME Whole PROVE Whole'
      BY <1>0, <2>1 DEF WholeInv
    <3>1. /\ step = "tell" /\ up_message[up_req[r].message] = "there"
          /\ up_row' = [up_row EXCEPT ![up_req[r].file] = up_req[r].message]
      BY <1>0, <2>1, <2>4, <2>5 DEF Whole, NoDeletion, FilesWhole, SendsLinked, Up!At
    <3>2. \A q \in Up!Requests : q # r /\ up_req[q].kind = "send" => up_req[q].file # up_req[r].file
      BY <1>0, <2>1 DEF OwnInv, Up!At
    <3>3. NoDeletion' /\ FilesWhole'
      BY <2>1, <2>3, <2>8, <3>1 DEF Whole, NoDeletion, FilesWhole, Up!At
    <3>4. SendsLinked'
      BY <1>0, <2>1, <2>3, <2>4, <3>1, <3>2 DEF Whole, SendsLinked, KindInv, Up!TypeOK, Up!At
    <3>5. RowsLinked'
      BY <1>0, <2>1, <2>3, <2>4, <3>1 DEF Whole, RowsLinked, Up!TypeOK, Up!At
    <3> QED
      BY <3>3, <3>4, <3>5 DEF Whole
  <2> QED
    BY <2>3, <2>6, <2>9, <2>10 DEF UploadsInv
<1>10. ASSUME NEW r \in Up!Requests, Up!Announce(r) PROVE UploadsInv'
  <2>1. /\ Up!At(r, "send", "tell") /\ Up!Goes(r, "done")
        /\ UNCHANGED <<disk, up_row, up_message, served>>
        /\ \/ up_odd' = up_odd /\ up_told' = [up_told EXCEPT ![up_req[r].message] = Up!LinkedTo(up_req[r].message)]
           \/ up_odd' = up_odd \cup {"unread"} /\ up_told' = up_told
    BY <1>10 DEF Up!Announce
  <2>2. "done" \in Up!Steps /\ "done" \in Stages(up_req[r].kind) /\ ~Up!At(r, "upload", "done")
    BY <2>1 DEF Up!At, Stages, Up!Steps
  <2>3. Moved(r, "done")
    BY <1>0, <2>1, <2>2, Going
  <2>4. up_req[r].file \in Files /\ (up_req[r].kind = "send" => up_req[r].message \in Messages)
    BY <1>0, <2>1 DEF KindInv, Up!At
  <2>5. up_req[r].message \in Messages
    BY <2>1, <2>4 DEF Up!At
  <2>6. Up!TypeOK'
    <3>1. \A m \in Messages : up_told'[m] \in SUBSET Files
      BY <1>0, <2>1 DEF Up!TypeOK, Up!LinkedTo
    <3>2. up_told' \in [Messages -> SUBSET Files] /\ up_odd' \subseteq {"removed", "stopped", "torn", "unread"}
      BY <1>0, <2>1, <3>1 DEF Up!TypeOK
    <3>3. up_req' \in [Up!Requests -> [kind : Up!Kinds, file : Files \cup {None},
                                      message : Messages \cup {None}, at : Up!Steps]]
      BY <2>3 DEF Moved
    <3> QED
      BY <1>0, <2>1, <3>2, <3>3 DEF Up!TypeOK
  <2>7. \A g : Up!Deleting(g) => Up!Deleting(g)'
    BY <2>1, <2>3 DEF Up!Deleting, Up!At
  <2>8. FileInv'
    BY <1>0, <2>1, <2>3, <2>7 DEF FileInv, Up!At
  <2>9. WholeInv'
    <3> SUFFICES ASSUME Whole PROVE Whole'
      BY <1>0, <2>1 DEF WholeInv
    <3>0. up_told[up_req[r].message] = {}
      <4> SUFFICES ASSUME NEW q \in Up!Requests, Up!At(q, "send", "done"), up_req[q].message = up_req[r].message
                   PROVE  FALSE
        BY <2>5 DEF ToldInv, Announced
      <4> QED
        BY <1>0, <2>1 DEF OwnInv, Up!At
    <3>1. Up!LinkedTo(up_req[r].message) = {up_req[r].file}
      <4>1. up_req[r].file \in Up!LinkedTo(up_req[r].message)
        BY <2>1, <2>4 DEF Whole, SendsLinked, Up!LinkedTo
      <4>2. ASSUME NEW g \in Up!LinkedTo(up_req[r].message) PROVE g = up_req[r].file
        <5>1. PICK q \in Up!Requests :
                 up_req[q].kind = "send" /\ up_req[q].file = g /\ up_req[q].message = up_req[r].message
          BY <2>5 DEF Whole, RowsLinked, Up!LinkedTo
        <5>2. q = r
          BY <1>0, <2>1, <5>1 DEF OwnInv, Up!At
        <5> QED
          BY <5>1, <5>2
      <4> QED
        BY <4>1, <4>2
    <3>2. \A q \in Up!Requests : q # r /\ up_req[q].kind = "send" => up_req[q].message # up_req[r].message
      BY <1>0, <2>1 DEF OwnInv, Up!At
    <3>3. NoDeletion' /\ FilesWhole'
      BY <2>1, <2>3 DEF Whole, NoDeletion, FilesWhole, Up!At
    <3>4. RowsLinked'
      BY <2>1, <2>3 DEF Whole, RowsLinked
    <3>5. \/ up_told'[up_req[r].message] = {up_req[r].file}
          \/ up_told'[up_req[r].message] = {} /\ "unread" \in up_odd'
      BY <1>0, <2>1, <2>5, <3>0, <3>1 DEF Up!TypeOK
    <3>6. \A q \in Up!Requests : q # r /\ up_req[q].kind = "send" => up_told'[up_req[q].message] = up_told[up_req[q].message]
      BY <1>0, <2>1, <3>2 DEF Up!TypeOK, KindInv
    <3>7. SendsLinked'
      <4> SUFFICES ASSUME NEW q \in Up!Requests, up_req[q].kind = "send"
                   PROVE  /\ up_req'[q].at = "link" => up_message[up_req[q].message] = "there"
                          /\ up_req'[q].at \in {"tell", "done"} =>
                                   up_row[up_req[q].file] = up_req[q].message /\ up_message[up_req[q].message] = "there"
                          /\ up_req'[q].at = "done" =>
                                   \/ up_told'[up_req[q].message] = {up_req[q].file}
                                   \/ up_told'[up_req[q].message] = {} /\ "unread" \in up_odd'
        BY <2>1, <2>3 DEF SendsLinked, Up!At
      <4>1. CASE q = r
        BY <2>1, <2>3, <3>5, <4>1 DEF Whole, SendsLinked, Up!At
      <4>2. CASE q # r
        BY <2>1, <2>3, <3>6, <4>2 DEF Whole, SendsLinked, Up!At
      <4> QED
        BY <4>1, <4>2
    <3> QED
      BY <3>3, <3>4, <3>7 DEF Whole
  <2> QED
    BY <2>3, <2>6, <2>8, <2>9 DEF UploadsInv
<1>11. ASSUME NEW r \in Up!Requests, Up!DeleteMessage(r) PROVE UploadsInv'
  <2>0. up_req[r].at = "new"
    BY <1>11 DEF Up!DeleteMessage, Up!IsNext, Up!Requests
  <2>1. PICK m \in Messages :
          /\ up_req[r].at = "new" /\ up_message' = [up_message EXCEPT ![m] = "gone"]
          /\ up_row' = [f \in Files |-> IF up_row[f] = m THEN "no" ELSE up_row[f]]
          /\ up_odd' = up_odd \cup {"removed"}
          /\ up_req' = [up_req EXCEPT ![r] =
                              [kind |-> "unsend", file |-> None, message |-> m, at |-> "done"]]
          /\ UNCHANGED <<disk, up_told, served>>
    BY <1>11, <2>0 DEF Up!DeleteMessage
  <2>2. "unsend" \in Up!Kinds \ {"none"} /\ "done" \in Stages("unsend") /\ None \in Files \cup {None}
    BY DEF Up!Kinds, Stages
  <2>3. /\ up_req' \in [Up!Requests -> [kind : Up!Kinds, file : Files \cup {None},
                                        message : Messages \cup {None}, at : Up!Steps]]
        /\ KindInv' /\ OwnInv'
        /\ \A q \in Up!Requests : q # r => up_req'[q] = up_req[q]
        /\ up_req[r].kind = "none" /\ up_req'[r].kind = "unsend"
        /\ \A g : Up!Uploaded(g)' <=> Up!Uploaded(g)
    BY <1>0, <2>1, <2>2, Coming
  <2>4. Up!TypeOK'
    BY <1>0, <2>1, <2>3 DEF Up!TypeOK
  <2>5. \A g : Up!Deleting(g) => Up!Deleting(g)'
    BY <2>3 DEF Up!Deleting, Up!At
  <2>6. FileInv'
    BY <1>0, <2>1, <2>3, <2>5 DEF FileInv, Up!TypeOK, Up!At
  <2>7. WholeInv'
    BY <2>1 DEF WholeInv
  <2> QED
    BY <2>3, <2>4, <2>6, <2>7 DEF UploadsInv
<1>12. ASSUME NEW r \in Up!Requests, Up!Get(r) PROVE UploadsInv'
  <2>1. PICK step \in {"done", "exists"} :
          /\ Up!At(r, "delete", "get") /\ Up!Goes(r, step)
          /\ UNCHANGED <<disk, up_row, up_message, up_told, served>>
          /\ up_odd' = IF step = "done" THEN up_odd ELSE up_odd \cup {"removed"}
          /\ step = "done" => up_row[up_req[r].file] = "no"
    BY <1>12 DEF Up!Get, Up!tables
  <2>2. step \in Up!Steps /\ step \in Stages(up_req[r].kind) /\ ~Up!At(r, "upload", "done")
    BY <2>1 DEF Up!At, Stages, Up!Steps
  <2>3. Moved(r, step)
    BY <1>0, <2>1, <2>2, Going
  <2>4. up_req[r].file \in Files /\ (up_req[r].kind = "send" => up_req[r].message \in Messages)
    BY <1>0, <2>1 DEF KindInv, Up!At
  <2>5. Up!TypeOK'
    BY <1>0, <2>1, <2>3, <2>4 DEF Up!TypeOK
  <2>6. \A g : Up!Deleting(g) => Up!Deleting(g)'
    BY <2>1, <2>3 DEF Up!Deleting, Up!At
  <2>7. FileInv'
    BY <1>0, <2>1, <2>3, <2>4, <2>6, SMTT(30) DEF FileInv, Up!TypeOK, Up!At
  <2>8. WholeInv'
    BY <1>0, <2>1, <2>4 DEF WholeInv, Whole, FilesWhole, KindInv, Up!At
  <2> QED
    BY <2>3, <2>5, <2>7, <2>8 DEF UploadsInv
<1>13. ASSUME NEW r \in Up!Requests, Up!Exists(r) PROVE UploadsInv'
  <2>1. PICK step \in {"done", "drop", "remove"} :
          /\ Up!At(r, "delete", "exists") /\ Up!Goes(r, step)
          /\ UNCHANGED <<disk, up_row, up_message, up_told, served, up_odd>>
    BY <1>13 DEF Up!Exists, Up!AfterExists, Up!tables
  <2>2. step \in Up!Steps /\ step \in Stages(up_req[r].kind) /\ ~Up!At(r, "upload", "done")
    BY <2>1 DEF Up!At, Stages, Up!Steps
  <2>3. Moved(r, step)
    BY <1>0, <2>1, <2>2, Going
  <2>4. up_req[r].file \in Files /\ (up_req[r].kind = "send" => up_req[r].message \in Messages)
    BY <1>0, <2>1 DEF KindInv, Up!At
  <2>5. Up!TypeOK'
    BY <1>0, <2>1, <2>3, <2>4 DEF Up!TypeOK
  <2>6. \A g : Up!Deleting(g) => Up!Deleting(g)'
    BY <2>1, <2>3 DEF Up!Deleting, Up!At
  <2>7. FileInv'
    BY <1>0, <2>1, <2>3, <2>4, <2>6, SMTT(30) DEF FileInv, Up!TypeOK, Up!At
  <2>8. WholeInv'
    BY <1>0, <2>1 DEF WholeInv, Whole, NoDeletion, Up!At
  <2> QED
    BY <2>3, <2>5, <2>7, <2>8 DEF UploadsInv
<1>14. ASSUME NEW r \in Up!Requests, Up!RemoveFile(r) PROVE UploadsInv'
  <2>1. PICK step \in {"done", "drop"} :
          /\ Up!At(r, "delete", "remove") /\ Up!Goes(r, step)
          /\ UNCHANGED <<up_row, up_message, up_told, served, up_odd>>
          /\ disk' = [disk EXCEPT ![up_req[r].file] = "no"]
          /\ step = "done" => disk[up_req[r].file] = "no"
    BY <1>14 DEF Up!RemoveFile
  <2>2. step \in Up!Steps /\ step \in Stages(up_req[r].kind) /\ ~Up!At(r, "upload", "done")
    BY <2>1 DEF Up!At, Stages, Up!Steps
  <2>3. Moved(r, step)
    BY <1>0, <2>1, <2>2, Going
  <2>4. up_req[r].file \in Files /\ (up_req[r].kind = "send" => up_req[r].message \in Messages)
    BY <1>0, <2>1 DEF KindInv, Up!At
  <2>5. Up!TypeOK'
    BY <1>0, <2>1, <2>3, <2>4 DEF Up!TypeOK
  <2>6. (\A g : Up!Deleting(g) => Up!Deleting(g)') /\ \A g : step = "drop" /\ g = up_req[r].file => Up!Deleting(g)'
    BY <2>1, <2>3 DEF Up!Deleting, Up!At
  <2>7. FileInv'
    <3>1. ~\E q \in Up!Requests : Up!At(q, "upload", "insert") /\ up_req[q].file = up_req[r].file
      BY <1>0, <2>1 DEF KindInv, OwnInv, Up!Uploaded, Up!At
    <3>2. "torn" \notin up_odd' => \A q \in Up!Requests : Up!At(q, "upload", "insert")' => disk'[up_req'[q].file] \in {"last", "whole"}
      BY <1>0, <2>1, <2>3, <2>4, <3>1 DEF FileInv, KindInv, Up!TypeOK, Up!At
    <3> QED
      BY <1>0, <2>1, <2>3, <2>4, <2>6, <3>2 DEF FileInv, Up!TypeOK
  <2>8. WholeInv'
    BY <1>0, <2>1 DEF WholeInv, Whole, NoDeletion, Up!At
  <2> QED
    BY <2>3, <2>5, <2>7, <2>8 DEF UploadsInv
<1>15. ASSUME NEW r \in Up!Requests, Up!DropRow(r) PROVE UploadsInv'
  <2>1. PICK step \in {"done"} :
          /\ Up!At(r, "delete", "drop") /\ Up!Goes(r, step)
          /\ UNCHANGED <<disk, up_message, up_told, served, up_odd>>
          /\ up_row' = [up_row EXCEPT ![up_req[r].file] = "no"]
    BY <1>15 DEF Up!DropRow
  <2>2. step \in Up!Steps /\ step \in Stages(up_req[r].kind) /\ ~Up!At(r, "upload", "done")
    BY <2>1 DEF Up!At, Stages, Up!Steps
  <2>3. Moved(r, step)
    BY <1>0, <2>1, <2>2, Going
  <2>4. up_req[r].file \in Files /\ (up_req[r].kind = "send" => up_req[r].message \in Messages)
    BY <1>0, <2>1 DEF KindInv, Up!At
  <2>5. Up!TypeOK'
    BY <1>0, <2>1, <2>3, <2>4 DEF Up!TypeOK
  <2>6. \A g : Up!Deleting(g) /\ g # up_req[r].file => Up!Deleting(g)'
    BY <2>1, <2>3 DEF Up!Deleting, Up!At
  <2>7. FileInv'
    BY <1>0, <2>1, <2>3, <2>4, <2>6, SMTT(30) DEF FileInv, Up!TypeOK, Up!At
  <2>8. WholeInv'
    BY <1>0, <2>1 DEF WholeInv, Whole, NoDeletion, Up!At
  <2> QED
    BY <2>3, <2>5, <2>7, <2>8 DEF UploadsInv
<1>16. ASSUME NEW r \in Up!Requests, Up!FindRow(r) PROVE UploadsInv'
  <2>1. PICK step \in {"done", "read"} :
          /\ Up!At(r, "download", "get") /\ Up!Goes(r, step)
          /\ UNCHANGED <<disk, up_row, up_message, up_told, served, up_odd>>
    BY <1>16 DEF Up!FindRow, Up!tables
  <2>2. step \in Up!Steps /\ step \in Stages(up_req[r].kind) /\ ~Up!At(r, "upload", "done")
    BY <2>1 DEF Up!At, Stages, Up!Steps
  <2>3. Moved(r, step)
    BY <1>0, <2>1, <2>2, Going
  <2>4. up_req[r].file \in Files /\ (up_req[r].kind = "send" => up_req[r].message \in Messages)
    BY <1>0, <2>1 DEF KindInv, Up!At
  <2>5. Up!TypeOK'
    BY <1>0, <2>1, <2>3, <2>4 DEF Up!TypeOK
  <2>6. \A g : Up!Deleting(g) => Up!Deleting(g)'
    BY <2>1, <2>3 DEF Up!Deleting, Up!At
  <2>7. FileInv'
    <3>1. \A f \in Files : up_row'[f] # "no" => Up!Uploaded(f)'
      BY <1>0, <2>1, <2>3 DEF FileInv
    <3>2. "torn" \notin up_odd' => \A q \in Up!Requests : Up!At(q, "upload", "insert")' => disk'[up_req'[q].file] \in {"last", "whole"}
      BY <1>0, <2>1, <2>3 DEF FileInv, Up!At
    <3>3. ASSUME "torn" \notin up_odd', "stopped" \notin up_odd', NEW f \in Files, up_row'[f] # "no", ~Up!Deleting(f)'
          PROVE  disk'[f] \in {"last", "whole"}
      <4>1. "torn" \notin up_odd /\ "stopped" \notin up_odd /\ ~Up!Deleting(f)
        BY <2>1, <2>6, <3>3
      <4> QED
        BY <1>0, <2>1, <3>3, <4>1 DEF FileInv
    <3> QED
      BY <3>1, <3>2, <3>3 DEF FileInv
  <2>8. WholeInv'
    <3> SUFFICES ASSUME Whole, "removed" \notin up_odd' PROVE Whole'
      BY <1>0, <2>1 DEF WholeInv
    <3>1. NoDeletion' /\ FilesWhole'
      BY <2>1, <2>3 DEF Whole, NoDeletion, FilesWhole, KindInv, Up!At
    <3>2. SendsLinked'
      <4> SUFFICES ASSUME NEW q \in Up!Requests,
                          up_req'[q].kind = "send",
                          up_req'[q].at \in {"link", "tell", "done"}
                   PROVE  /\ up_req[q].kind = "send" /\ up_req[q].at = up_req'[q].at
                          /\ up_req'[q].file = up_req[q].file
                          /\ up_req'[q].message = up_req[q].message
        BY <2>1 DEF Whole, SendsLinked, Up!At
      <4> QED
        BY <2>1, <2>3 DEF Up!At
    <3>3. RowsLinked'
      BY <2>1, <2>3 DEF Whole, RowsLinked
    <3> QED
      BY <3>1, <3>2, <3>3 DEF Whole
  <2> QED
    BY <2>3, <2>5, <2>7, <2>8 DEF UploadsInv
<1>17. ASSUME NEW r \in Up!Requests, Up!ReadFile(r) PROVE UploadsInv'
  <2>1. PICK step \in {"done"} :
          /\ Up!At(r, "download", "read") /\ Up!Goes(r, step)
          /\ UNCHANGED <<disk, up_row, up_message, up_told, up_odd>>
          /\ served' = (served \/ disk[up_req[r].file] \in {"no", "part"})
    BY <1>17 DEF Up!ReadFile
  <2>2. step \in Up!Steps /\ step \in Stages(up_req[r].kind) /\ ~Up!At(r, "upload", "done")
    BY <2>1 DEF Up!At, Stages, Up!Steps
  <2>3. Moved(r, step)
    BY <1>0, <2>1, <2>2, Going
  <2>4. up_req[r].file \in Files /\ (up_req[r].kind = "send" => up_req[r].message \in Messages)
    BY <1>0, <2>1 DEF KindInv, Up!At
  <2>5. Up!TypeOK'
    BY <1>0, <2>1, <2>3, <2>4 DEF Up!TypeOK
  <2>6. \A g : Up!Deleting(g) => Up!Deleting(g)'
    BY <2>1, <2>3 DEF Up!Deleting, Up!At
  <2>7. FileInv'
    <3>1. \A f \in Files : up_row'[f] # "no" => Up!Uploaded(f)'
      BY <1>0, <2>1, <2>3 DEF FileInv
    <3>2. "torn" \notin up_odd' => \A q \in Up!Requests : Up!At(q, "upload", "insert")' => disk'[up_req'[q].file] \in {"last", "whole"}
      BY <1>0, <2>1, <2>3 DEF FileInv, Up!At
    <3>3. ASSUME "torn" \notin up_odd', "stopped" \notin up_odd', NEW f \in Files, up_row'[f] # "no", ~Up!Deleting(f)'
          PROVE  disk'[f] \in {"last", "whole"}
      <4>1. "torn" \notin up_odd /\ "stopped" \notin up_odd /\ ~Up!Deleting(f)
        BY <2>1, <2>6, <3>3
      <4> QED
        BY <1>0, <2>1, <3>3, <4>1 DEF FileInv
    <3> QED
      BY <3>1, <3>2, <3>3 DEF FileInv
  <2>8. WholeInv'
    <3> SUFFICES ASSUME Whole, "removed" \notin up_odd' PROVE Whole'
      BY <1>0, <2>1 DEF WholeInv
    <3>0. "torn" \notin up_odd => ~served'
      BY <1>0, <2>1, <2>4 DEF Whole, NoDeletion, FilesWhole, KindInv, Up!At
    <3>1. NoDeletion' /\ FilesWhole'
      BY <2>1, <2>3, <3>0 DEF Whole, NoDeletion, FilesWhole, KindInv, Up!At
    <3>2. SendsLinked'
      <4> SUFFICES ASSUME NEW q \in Up!Requests,
                          up_req'[q].kind = "send",
                          up_req'[q].at \in {"link", "tell", "done"}
                   PROVE  /\ up_req[q].kind = "send" /\ up_req[q].at = up_req'[q].at
                          /\ up_req'[q].file = up_req[q].file
                          /\ up_req'[q].message = up_req[q].message
        BY <2>1, <3>0 DEF Whole, SendsLinked, Up!At
      <4> QED
        BY <2>1, <2>3 DEF Up!At
    <3>3. RowsLinked'
      BY <2>1, <2>3, <3>0 DEF Whole, RowsLinked
    <3> QED
      BY <3>1, <3>2, <3>3 DEF Whole
  <2> QED
    BY <2>3, <2>5, <2>7, <2>8 DEF UploadsInv
<1>18. ASSUME NEW r \in Up!Requests, Up!Stop(r) PROVE UploadsInv'
  <2>1. PICK step \in {"failed"} :
          /\ up_req[r].at \notin {"new", "done", "failed"}
          /\ Up!Goes(r, step) /\ UNCHANGED <<disk, up_row, up_message, up_told, served>>
          /\ up_odd' = IF up_req[r].kind = "delete" THEN up_odd \cup {"stopped"} ELSE up_odd
    BY <1>18 DEF Up!Stop, Up!tables
  <2>2. step \in Up!Steps /\ step \in Stages(up_req[r].kind) /\ ~Up!At(r, "upload", "done")
    BY <1>0, <2>1 DEF Up!At, Stages, Up!Steps, KindInv, Up!TypeOK, Up!Kinds
  <2>3. Moved(r, step)
    BY <1>0, <2>1, <2>2, Going
  <2>5. Up!TypeOK'
    BY <1>0, <2>1, <2>3 DEF Up!TypeOK
  <2>6. up_req[r].kind # "delete" => \A g : Up!Deleting(g) => Up!Deleting(g)'
    BY <2>1, <2>3 DEF Up!Deleting, Up!At
  <2>7. FileInv'
    <3>1. \A f \in Files : up_row'[f] # "no" => Up!Uploaded(f)'
      BY <1>0, <2>1, <2>3 DEF FileInv
    <3>2. "torn" \notin up_odd' => \A q \in Up!Requests : Up!At(q, "upload", "insert")' => disk'[up_req'[q].file] \in {"last", "whole"}
      BY <1>0, <2>1, <2>3 DEF FileInv, Up!At
    <3>3. ASSUME "torn" \notin up_odd', "stopped" \notin up_odd', NEW f \in Files, up_row'[f] # "no", ~Up!Deleting(f)'
          PROVE  disk'[f] \in {"last", "whole"}
      <4>1. "torn" \notin up_odd /\ "stopped" \notin up_odd /\ ~Up!Deleting(f)
        BY <2>1, <2>6, <3>3
      <4> QED
        BY <1>0, <2>1, <3>3, <4>1 DEF FileInv
    <3> QED
      BY <3>1, <3>2, <3>3 DEF FileInv
  <2>8. WholeInv'
    <3> SUFFICES ASSUME Whole, "removed" \notin up_odd' PROVE Whole'
      BY <1>0, <2>1 DEF WholeInv
    <3>1. NoDeletion' /\ FilesWhole'
      BY <2>1, <2>3 DEF Whole, NoDeletion, FilesWhole, KindInv, Up!At
    <3>2. SendsLinked'
      <4> SUFFICES ASSUME NEW q \in Up!Requests,
                          up_req'[q].kind = "send",
                          up_req'[q].at \in {"link", "tell", "done"}
                   PROVE  /\ up_req[q].kind = "send" /\ up_req[q].at = up_req'[q].at
                          /\ up_req'[q].file = up_req[q].file
                          /\ up_req'[q].message = up_req[q].message
        BY <2>1 DEF Whole, SendsLinked, Up!At
      <4> QED
        BY <2>1, <2>3 DEF Up!At
    <3>3. RowsLinked'
      BY <2>1, <2>3 DEF Whole, RowsLinked
    <3> QED
      BY <3>1, <3>2, <3>3 DEF Whole
  <2> QED
    BY <2>3, <2>5, <2>7, <2>8 DEF UploadsInv
<1>19. ASSUME NEW g \in Files, Up!LastBlock(g) PROVE UploadsInv'
  <2>1. /\ disk[g] = "last" /\ UNCHANGED <<up_row, up_message, up_told, served, up_req>>
        /\ \/ disk' = [disk EXCEPT ![g] = "whole"] /\ up_odd' = up_odd
           \/ disk' = [disk EXCEPT ![g] = "part"] /\ up_odd' = up_odd \cup {"torn"}
    BY <1>19 DEF Up!LastBlock
  <2>2. Up!TypeOK' /\ KindInv' /\ OwnInv'
    <3>1. Up!TypeOK'
      BY <1>0, <2>1 DEF Up!TypeOK
    <3>2. KindInv'
      BY <1>0, <2>1 DEF KindInv, Up!Uploaded, Up!At
    <3>3. OwnInv'
      BY <1>0, <2>1 DEF OwnInv
    <3> QED
      BY <3>1, <3>2, <3>3
  <2>3. \A f : (Up!Uploaded(f)' <=> Up!Uploaded(f)) /\ (Up!Deleting(f)' <=> Up!Deleting(f))
    BY <2>1 DEF Up!Uploaded, Up!Deleting, Up!At
  <2>4. \A f \in Files : "torn" \notin up_odd' => "torn" \notin up_odd /\ (Good(f) => Good(f)')
    BY <1>0, <2>1 DEF Up!TypeOK
  <2>5. FileInv'
    BY <1>0, <2>1, <2>3, <2>4 DEF FileInv, KindInv, Up!At
  <2>6. WholeInv'
    <3> SUFFICES ASSUME Whole PROVE Whole'
      BY <1>0, <2>1 DEF WholeInv
    <3>1. NoDeletion' /\ RowsLinked'
      BY <2>1 DEF Whole, NoDeletion, RowsLinked
    <3>2. FilesWhole'
      BY <2>1, <2>3, <2>4 DEF Whole, FilesWhole
    <3>3. SendsLinked'
      BY <2>1 DEF Whole, SendsLinked, Up!At
    <3> QED
      BY <3>1, <3>2, <3>3 DEF Whole
  <2> QED
    BY <2>2, <2>5, <2>6 DEF UploadsInv
<1> QED
  BY UploadsCases, <1>1, <1>2, <1>3, <1>4, <1>5, <1>6, <1>7, <1>8, <1>9, <1>10, <1>11, <1>12,
     <1>13, <1>14, <1>15, <1>16, <1>17, <1>18, <1>19

-----------------------------------------------------------------------------
(* It holds initially.                                                     *)
LEMMA UploadsInitially == UploadsAssumption /\ Up!Init => UploadsInv
<1> SUFFICES ASSUME UploadsAssumption, Up!Init PROVE UploadsInv
  OBVIOUS
<1>1. \A r \in Up!Requests : up_req[r] = Up!NewReq
  BY DEF Up!Init
<1>2. Up!TypeOK
  BY DEF Up!Init, Up!TypeOK, Up!NewReq, Up!Kinds, Up!Steps
<1>3. KindInv /\ OwnInv
  BY <1>1 DEF KindInv, OwnInv, Up!NewReq, Stages
<1>4. \A g : ~Up!Uploaded(g)
  BY <1>1 DEF Up!Uploaded, Up!At, Up!NewReq
<1>5. FileInv
  BY <1>1, <1>4 DEF Up!Init, FileInv, Up!At, Up!NewReq
<1>6. WholeInv
  <2>1. ASSUME NEW f \in Files, up_row[f] \in Messages PROVE FALSE
    BY <2>1 DEF Up!Init, UploadsAssumption
  <2> QED
    BY <1>1, <1>4, <2>1
       DEF Up!Init, WholeInv, Whole, NoDeletion, FilesWhole, SendsLinked, RowsLinked, Up!At, Up!NewReq
<1> QED
  BY <1>2, <1>3, <1>5, <1>6 DEF UploadsInv

(* The invariant, for any number of attachments, messages and requests.    *)
THEOREM UploadsInvariance == ASSUME UploadsAssumption PROVE Up!Spec => [](UploadsInv /\ ToldInv)
<1>1. UploadsInv /\ ToldInv /\ UNCHANGED Up!vars => (UploadsInv /\ ToldInv)'
  BY DEF UploadsInv, Up!TypeOK, KindInv, OwnInv, FileInv, WholeInv, Whole, NoDeletion, FilesWhole,
         SendsLinked, RowsLinked, Up!Uploaded, Up!Deleting, Up!At, Up!vars, Good, ToldInv, Announced
<1>2. UploadsInv /\ ToldInv /\ [Up!Next]_(Up!vars) => (UploadsInv /\ ToldInv)'
  BY <1>1, UploadsStep, ToldStep DEF UploadsInv
<1>3. Up!Init => UploadsInv /\ ToldInv
  BY UploadsInitially DEF Up!Init, ToldInv
<1> QED
  BY <1>2, <1>3, PTL DEF Up!Spec

(* Rows have their files and messages their attachments, for any number of *)
(* attachments, messages and requests, in any order, stopping anywhere.    *)
THEOREM UploadsAlwaysAgree == ASSUME UploadsAssumption PROVE Up!Spec => [](Up!TypeOK /\ Up!UploadsAgree)
<1>1. ASSUME UploadsInv PROVE Up!UploadsAgree
  <2>1. FileInv /\ WholeInv
    BY <1>1 DEF UploadsInv
  <2>2. {"stopped", "torn"} \cap up_odd = {} =>
           \A f \in Files : up_row[f] # "no" /\ ~Up!Deleting(f) => disk[f] \in {"last", "whole"}
    BY <2>1 DEF FileInv, Good
  <2>3. {"removed", "torn"} \cap up_odd = {} => ~served
    BY <2>1 DEF WholeInv, Whole, FilesWhole
  <2>4. "removed" \notin up_odd =>
           /\ \A r \in Up!Requests : Up!At(r, "send", "done") =>
                  \/ up_told[up_req[r].message] = {up_req[r].file}
                  \/ up_told[up_req[r].message] = {} /\ "unread" \in up_odd
           /\ \A f \in Files : up_row[f] \in Messages => up_message[up_row[f]] = "there"
    BY <2>1 DEF WholeInv, Whole, SendsLinked, RowsLinked
  <2> QED
    BY <2>2, <2>3, <2>4 DEF Up!UploadsAgree
<1>2. UploadsInv => Up!TypeOK
  BY DEF UploadsInv
<1> QED
  BY <1>1, <1>2, UploadsInvariance, PTL

-----------------------------------------------------------------------------
(* Communities, invites and direct channels (Records).                     *)

(* A finite set is counted in the same way there and here.                 *)
LEMMA RecordsCounts == \A S : Rec!Cardinality(S) = Cardinality(S)
  BY DEF Rec!Cardinality, Cardinality

RecordsAssumption == MaxRecRequests \in Nat /\ None \notin Users

(* Who a request is about.                                                 *)
About ==
    /\ \A r \in Rec!Requests : rec_req[r].kind \in {"create", "join", "dm"} => rec_req[r].user \in Users
    /\ \A r \in Rec!Requests : rec_req[r].kind = "dm" => rec_req[r].other \in Users
    /\ community = "there" => owner \in Users

(* A request that makes a community.                                       *)
Creator(r) ==
    rec_req[r].kind = "create" /\ rec_req[r].at \in {"member", "textMax", "text", "voiceMax", "voice"}

(* A request that has found an invite.                                     *)
Joining(r) == rec_req[r].kind = "join" /\ rec_req[r].at \in {"member", "insert", "uses"}

(* Nobody has become a member, or can.                                     *)
Unfounded ==
    /\ members = {} /\ invite = Rec!NoInvite
    /\ \A r \in Rec!Requests : ~Joining(r) /\ ~Rec!At(r, "invite", "insert")

Founding ==
    /\ \A r, q \in Rec!Requests : Creator(r) /\ Creator(q) => r = q
    /\ community = "no" => Unfounded /\ \A r \in Rec!Requests : ~Creator(r)
    /\ community = "there" => owner \in members \/ Unfounded
    /\ community = "there" /\ (\E r \in Rec!Requests : Rec!At(r, "create", "member")) => Unfounded
    /\ community = "gone" => members = {} /\ channels = {} /\ invite = Rec!NoInvite

Names == {c.name : c \in channels}

Creating ==
    community = "there" /\ "create" \notin rec_odd =>
        /\ owner \in members \/ \E r \in Rec!Requests : Rec!At(r, "create", "member")
        /\ "removed" \notin rec_odd =>
              /\ \/ "text" \in Names
                 \/ \E r \in Rec!Requests : Creator(r) /\ rec_req[r].at \in {"member", "textMax", "text"}
              /\ "voice" \in Names \/ \E r \in Rec!Requests : Creator(r)

Uses == {r \in Rec!Requests : Rec!At(r, "join", "uses")}
Over == {r \in Rec!Requests : rec_req[r].at = "done"}

Joined ==
    /\ IsFiniteSet(members)
    /\ community = "there" /\ invite = Rec!NoInvite =>
          members \subseteq {owner} /\ \A r \in Rec!Requests : ~Joining(r)
    /\ invite # Rec!NoInvite => invite <= Cardinality(Over)
    /\ invite # Rec!NoInvite /\ "join" \notin rec_odd =>
          Cardinality(members \ {owner}) = invite + Cardinality(Uses)

Placing ==
    /\ \E top \in Nat : \A c \in channels : c.position <= top
    /\ "positions" \notin rec_odd =>
          /\ \A c, d \in channels : c.position = d.position => c = d
          /\ \A r, q \in Rec!Requests : Rec!Places(r) /\ Rec!Places(q) => r = q
          /\ \A r \in Rec!Requests : Rec!Places(r) => \A c \in channels : c.position < rec_req[r].seen

Asking(r) == rec_req[r].kind = "dm" /\ rec_req[r].at \in {"insert", "row"}

Directs ==
    "dm" \notin rec_odd =>
        /\ \A c, d \in dms : Rec!Pair(c) = Rec!Pair(d) => c = d
        /\ \A r, q \in Rec!Requests : Asking(r) /\ Asking(q) /\ Rec!PairOf(r) = Rec!PairOf(q) => r = q
        /\ \A r \in Rec!Requests : Asking(r) => ~Rec!Found(r)
        /\ \A r \in orphans : Rec!At(r, "dm", "row")

RecordsInv == Rec!TypeOK /\ About /\ Founding /\ Creating /\ Joined /\ Placing /\ Directs

-----------------------------------------------------------------------------
(* One request moves at a time; the others stay where they are.            *)
LEMMA GoesOn ==
    ASSUME Rec!TypeOK, NEW r \in Rec!Requests, NEW step \in Rec!Steps, Rec!Goes(r, step)
    PROVE  /\ rec_req' \in [Rec!Requests -> [kind : Rec!Kinds, user : Users \cup {None},
                                             other : Users \cup {None}, at : Rec!Steps, seen : Nat]]
           /\ \A q \in Rec!Requests : q # r => rec_req'[q] = rec_req[q]
           /\ step = "done" => rec_req'[r].kind = "none" /\ rec_req'[r].at = "done"
           /\ step # "done" =>
                 /\ rec_req'[r].at = step /\ rec_req'[r].kind = rec_req[r].kind
                 /\ rec_req'[r].user = rec_req[r].user /\ rec_req'[r].other = rec_req[r].other
                 /\ rec_req'[r].seen = rec_req[r].seen
<1>1. "none" \in Rec!Kinds /\ Rec!NewReq \in [kind : Rec!Kinds, user : Users \cup {None},
                                             other : Users \cup {None}, at : Rec!Steps, seen : Nat]
  BY DEF Rec!NewReq, Rec!Kinds, Rec!Steps
<1> QED  BY <1>1 DEF Rec!Goes, Rec!TypeOK, Rec!NewReq

(* A request that comes in is the next one, which was not there before.    *)
LEMMA ComesIn ==
    ASSUME Rec!TypeOK, NEW r \in Rec!Requests, NEW kind \in Rec!Kinds, NEW user \in Users,
           NEW other \in Users \cup {None}, NEW step \in Rec!Steps, Rec!Comes(r, kind, user, other, step)
    PROVE  /\ rec_req' \in [Rec!Requests -> [kind : Rec!Kinds, user : Users \cup {None},
                                             other : Users \cup {None}, at : Rec!Steps, seen : Nat]]
           /\ \A q \in Rec!Requests : q # r => rec_req'[q] = rec_req[q]
           /\ rec_req'[r] = [kind |-> kind, user |-> user, other |-> other, at |-> step, seen |-> 0]
           /\ rec_req[r].at = "new"
           /\ UNCHANGED <<Rec!tables, rec_odd>>
<1>1. rec_req[r].at = "new"
  BY DEF Rec!Comes, Rec!IsNext, Rec!Requests
<1> QED  BY <1>1 DEF Rec!Comes, Rec!TypeOK

(* The next position is above all that there are.                          *)
LEMMA PositionAbove ==
    ASSUME Rec!TypeOK, Placing
    PROVE  /\ Rec!NextPosition \in Nat
           /\ \A c \in channels : c.position < Rec!NextPosition
<1>1. \A c \in channels : c.position \in Nat
  BY DEF Rec!TypeOK
<1>2. CASE channels = {}
  BY <1>2 DEF Rec!NextPosition
<1>3. CASE channels # {}
  <2> DEFINE Tops == {t \in Nat : \A c \in channels : c.position <= t}
  <2>1. Tops # {} /\ Tops \subseteq Nat
    BY DEF Placing
  <2>2. PICK top \in Tops : \A t \in Tops : <<t, top>> \notin OpToRel(<, Nat)
    BY <2>1, NatLessThanWellFounded, WFMin
  <2>3. \A t \in Tops : ~(t < top)
    BY <2>2 DEF OpToRel
  <2>4. top \in Nat /\ \A c \in channels : c.position <= top
    OBVIOUS
  <2>5. \E c \in channels : c.position = top
    <3> SUFFICES ASSUME \A c \in channels : c.position # top  PROVE FALSE
      OBVIOUS
    <3>1. PICK c \in channels : TRUE
      BY <1>3
    <3>2. top > 0
      BY <3>1, <2>4, <1>1
    <3>3. top - 1 \in Tops
      BY <3>2, <2>4, <1>1
    <3> QED  BY <3>3, <2>3, <2>4
  <2> HIDE DEF Tops
  <2>6. \E p \in {c.position + 1 : c \in channels} : \A c \in channels : c.position < p
    <3>1. PICK c \in channels : c.position = top
      BY <2>5
    <3>2. c.position + 1 \in {d.position + 1 : d \in channels}
      OBVIOUS
    <3>3. \A d \in channels : d.position < c.position + 1
      BY <3>1, <2>4, <1>1
    <3> QED  BY <3>2, <3>3
  <2>7. /\ Rec!NextPosition \in {c.position + 1 : c \in channels}
        /\ \A c \in channels : c.position < Rec!NextPosition
    BY <2>6, <1>3 DEF Rec!NextPosition
  <2> QED  BY <2>7, <1>1
<1> QED  BY <1>2, <1>3

(* Every step is a step of one request.                                    *)
Moves(r) == Rec!Request(r) \/ Rec!Handle(r) \/ Rec!Stop(r)

(* A request that moves keeps what it is about, and where it goes next is  *)
(* one of the steps of its kind.                                           *)
LEMMA TypesStep ==
    ASSUME RecordsAssumption, Rec!TypeOK, About, Placing, NEW r \in Rec!Requests, Moves(r)
    PROVE  Rec!TypeOK' /\ \A q \in Rec!Requests : q # r => rec_req'[q] = rec_req[q]
<1> DEFINE Rs == [Rec!Requests -> [kind : Rec!Kinds, user : Users \cup {None},
                                   other : Users \cup {None}, at : Rec!Steps, seen : Nat]]
           Fine == rec_req' \in Rs /\ \A q \in Rec!Requests : q # r => rec_req'[q] = rec_req[q]
<1>1. \A step \in Rec!Steps : Rec!Goes(r, step) => Fine
  BY GoesOn
<1>2. rec_req \in Rs /\ rec_req[r] \in [kind : Rec!Kinds, user : Users \cup {None},
                                       other : Users \cup {None}, at : Rec!Steps, seen : Nat]
  BY DEF Rec!TypeOK
<1>3. CASE Rec!Request(r)
  <2>1. PICK u \in Users : \/ Rec!Comes(r, "create", u, None, "insert")
                          \/ Rec!Comes(r, "channel", u, None, "owner")
                          \/ Rec!Comes(r, "delete", u, None, "owner")
                          \/ Rec!Comes(r, "invite", u, None, "member")
                          \/ Rec!Comes(r, "join", u, None, "find")
                          \/ \E v \in Users : Rec!Comes(r, "dm", u, v, "find")
    BY <1>3 DEF Rec!Request
  <2>2. ASSUME NEW kind \in Rec!Kinds, NEW other \in Users \cup {None}, NEW step \in Rec!Steps,
               Rec!Comes(r, kind, u, other, step)
        PROVE  Fine /\ UNCHANGED <<Rec!tables, rec_odd>>
    BY <2>2, ComesIn
  <2> HIDE DEF Fine
  <2>3. \/ Rec!Comes(r, "create", u, None, "insert") \/ Rec!Comes(r, "channel", u, None, "owner")
        \/ Rec!Comes(r, "delete", u, None, "owner") \/ Rec!Comes(r, "invite", u, None, "member")
        \/ Rec!Comes(r, "join", u, None, "find")
        => Fine /\ UNCHANGED <<Rec!tables, rec_odd>>
    BY <2>2 DEF Rec!Kinds, Rec!Steps
  <2>4. (\E v \in Users : Rec!Comes(r, "dm", u, v, "find")) => Fine /\ UNCHANGED <<Rec!tables, rec_odd>>
    BY <2>2 DEF Rec!Kinds, Rec!Steps
  <2>5. Fine /\ UNCHANGED <<Rec!tables, rec_odd>>
    BY <2>1, <2>3, <2>4
  <2> QED  BY <2>5 DEF Rec!TypeOK, Rec!tables, Fine
<1>4. CASE Rec!Stop(r)
  <2>1. Fine /\ UNCHANGED Rec!tables
    BY <1>4, <1>1 DEF Rec!Stop, Rec!Fails, Rec!Steps
  <2>2. rec_odd' \subseteq Rec!Odd
    BY <1>4 DEF Rec!Stop, Rec!TypeOK
  <2> QED  BY <2>1, <2>2 DEF Rec!TypeOK, Rec!tables
<1>5. CASE Rec!CreateCommunity(r)
  <2>1. Fine
    BY <1>5, <1>1 DEF Rec!CreateCommunity, Rec!Steps
  <2> QED  BY <1>5, <1>2, <2>1 DEF Rec!CreateCommunity, Rec!TypeOK
<1>6. CASE Rec!CreateAnother(r) \/ Rec!CheckOwner(r) \/ Rec!CheckMember(r) \/ Rec!FindInvite(r) \/ Rec!CheckJoined(r)
  <2>1. Fine
    BY <1>6, <1>1 DEF Rec!CreateAnother, Rec!CheckOwner, Rec!CheckMember, Rec!FindInvite, Rec!CheckJoined, Rec!Fails, Rec!Steps
  <2>2. UNCHANGED <<Rec!tables, rec_odd>>
    BY <1>6 DEF Rec!CreateAnother, Rec!CheckOwner, Rec!CheckMember, Rec!FindInvite, Rec!CheckJoined, Rec!Fails
  <2> QED  BY <2>1, <2>2 DEF Rec!TypeOK, Rec!tables
<1>7. CASE Rec!AddOwner(r)
  <2>1. Fine
    BY <1>7, <1>1 DEF Rec!AddOwner, Rec!Fails, Rec!Steps
  <2>2. \/ UNCHANGED Rec!tables
        \/ /\ members' = members \cup {owner} /\ owner \in Users
           /\ UNCHANGED <<community, owner, channels, invite, dms, orphans>>
    BY <1>7 DEF Rec!AddOwner, Rec!Fails, About
  <2>3. UNCHANGED rec_odd
    BY <1>7 DEF Rec!AddOwner
  <2> QED  BY <2>1, <2>2, <2>3 DEF Rec!TypeOK, Rec!tables
<1>8. CASE Rec!ReadMax(r)
  <2>1. Rec!NextPosition \in Nat
    BY PositionAbove
  <2>2. Fine
    BY <1>8, <1>2, <2>1 DEF Rec!ReadMax, Rec!Steps
  <2>3. UNCHANGED Rec!tables /\ rec_odd' \subseteq Rec!Odd
    BY <1>8 DEF Rec!ReadMax, Rec!TypeOK, Rec!Odd
  <2> QED  BY <2>2, <2>3 DEF Rec!TypeOK, Rec!tables
<1>9. CASE Rec!InsertChannel(r)
  <2>1. Fine
    BY <1>9, <1>1 DEF Rec!InsertChannel, Rec!Fails, Rec!Steps
  <2>2. Rec!NameAt(rec_req[r].at) \in {"text", "voice", "more"} /\ rec_req[r].seen \in Nat /\ r \in 0..MaxRecRequests
    BY <1>2 DEF Rec!NameAt, Rec!Requests
  <2>3. UNCHANGED <<community, owner, members, invite, dms, orphans, rec_odd>>
    BY <1>9 DEF Rec!InsertChannel, Rec!Fails, Rec!tables
  <2>4. channels' \subseteq [by : 0..MaxRecRequests, name : {"text", "voice", "more"}, position : Nat]
    BY <1>9, <2>2 DEF Rec!InsertChannel, Rec!Fails, Rec!tables, Rec!TypeOK
  <2> QED  BY <2>1, <2>3, <2>4 DEF Rec!TypeOK
<1>10. CASE Rec!DeleteCommunity(r)
  <2>1. Fine
    BY <1>10, <1>1 DEF Rec!DeleteCommunity, Rec!Steps
  <2>2. /\ community' = "gone" /\ owner' = None /\ members' = {} /\ channels' = {}
        /\ invite' \in Nat /\ UNCHANGED <<dms, orphans, rec_odd>>
    BY <1>10 DEF Rec!DeleteCommunity, Rec!NoInvite, RecordsAssumption
  <2> QED  BY <2>1, <2>2 DEF Rec!TypeOK
<1>11. CASE Rec!DeleteChannel(r)
  <2>1. Fine
    BY <1>11, <1>2 DEF Rec!DeleteChannel, Rec!Steps
  <2>2. /\ channels' \subseteq channels /\ rec_odd' \subseteq rec_odd \cup {"removed"}
        /\ UNCHANGED <<community, owner, members, invite, dms, orphans>>
    BY <1>11 DEF Rec!DeleteChannel
  <2> QED  BY <2>1, <2>2 DEF Rec!TypeOK, Rec!Odd
<1>12. CASE Rec!InsertInvite(r) \/ Rec!CountUse(r)
  <2>1. Fine
    BY <1>12, <1>1 DEF Rec!InsertInvite, Rec!CountUse, Rec!Fails, Rec!Steps
  <2>2. invite' \in Nat /\ UNCHANGED <<community, owner, members, channels, dms, orphans, rec_odd>>
    BY <1>12 DEF Rec!InsertInvite, Rec!CountUse, Rec!Fails, Rec!tables, Rec!TypeOK, Rec!NoInvite
  <2> QED  BY <2>1, <2>2 DEF Rec!TypeOK
<1>13. CASE Rec!AddMember(r)
  <2>1. Fine
    BY <1>13, <1>1 DEF Rec!AddMember, Rec!Fails, Rec!Steps
  <2>2. /\ members' \subseteq members \cup Users
        /\ UNCHANGED <<community, owner, channels, invite, dms, orphans, rec_odd>>
    BY <1>13 DEF Rec!AddMember, Rec!Fails, Rec!tables, About, Rec!At
  <2> QED  BY <2>1, <2>2 DEF Rec!TypeOK
<1>14. CASE Rec!FindDm(r)
  <2>1. Fine
    BY <1>14, <1>1 DEF Rec!FindDm, Rec!Steps
  <2>2. UNCHANGED Rec!tables /\ rec_odd' \subseteq rec_odd \cup {"dm"}
    BY <1>14 DEF Rec!FindDm
  <2> QED  BY <2>1, <2>2 DEF Rec!TypeOK, Rec!tables, Rec!Odd
<1>15. CASE Rec!InsertDm(r)
  <2>1. Fine
    BY <1>15, <1>1 DEF Rec!InsertDm, Rec!Steps
  <2> QED  BY <1>15, <2>1 DEF Rec!InsertDm, Rec!TypeOK
<1>16. CASE Rec!LinkDm(r)
  <2>1. Fine
    BY <1>16, <1>1 DEF Rec!LinkDm, Rec!Fails, Rec!Steps
  <2>2. rec_req[r].user \in Users /\ rec_req[r].other \in Users
    BY <1>16 DEF Rec!LinkDm, Rec!At, About
  <2>3. /\ \/ dms' = dms
           \/ dms' = dms \cup {[user1 |-> rec_req[r].user, user2 |-> rec_req[r].other, channel |-> r]}
        /\ orphans' \subseteq orphans
        /\ UNCHANGED <<community, owner, members, channels, invite, rec_odd>>
    BY <1>16 DEF Rec!LinkDm, Rec!Fails, Rec!tables
  <2> QED  BY <2>1, <2>2, <2>3 DEF Rec!TypeOK
<1> QED
  BY <1>3, <1>4, <1>5, <1>6, <1>7, <1>8, <1>9, <1>10, <1>11, <1>12, <1>13, <1>14, <1>15, <1>16
     DEF Moves, Rec!Handle

(* Where a request goes: it comes in, it is over, or it goes on to the next *)
(* statement of its kind.                                                  *)
Began(r) ==
    /\ rec_req[r].at = "new" /\ UNCHANGED <<Rec!tables, rec_odd>>
    /\ rec_req'[r].user \in Users /\ rec_req'[r].seen = 0
    /\ rec_req'[r].kind = "dm" => rec_req'[r].other \in Users
    /\ <<rec_req'[r].kind, rec_req'[r].at>> \in
          {<<"create", "insert">>, <<"channel", "owner">>, <<"delete", "owner">>,
           <<"invite", "member">>, <<"join", "find">>, <<"dm", "find">>}

Same(r) ==
    /\ rec_req'[r].kind = rec_req[r].kind /\ rec_req'[r].user = rec_req[r].user /\ rec_req'[r].other = rec_req[r].other

Ended(r) == rec_req'[r].at = "done" /\ (rec_req'[r].kind = "none" \/ Same(r))

WentOn(r) ==
    /\ Same(r)
    /\ <<rec_req[r].kind, rec_req[r].at, rec_req'[r].at>> \in
          {<<"create", "insert", "member">>, <<"create", "member", "textMax">>,
           <<"create", "textMax", "text">>, <<"create", "text", "voiceMax">>,
           <<"create", "voiceMax", "voice">>, <<"create", "max", "insert">>,
           <<"channel", "textMax", "text">>, <<"channel", "voiceMax", "voice">>,
           <<"channel", "owner", "max">>, <<"channel", "max", "insert">>,
           <<"delete", "owner", "row">>, <<"invite", "member", "insert">>,
           <<"join", "find", "member">>, <<"join", "member", "insert">>,
           <<"join", "insert", "uses">>, <<"dm", "find", "insert">>, <<"dm", "insert", "row">>}

(* A request that moves comes in, is over, or goes on.                     *)
LEMMA Onward ==
    ASSUME Rec!TypeOK, NEW r \in Rec!Requests, Moves(r)
    PROVE  Began(r) \/ Ended(r) \/ WentOn(r)
<1>1. CASE Rec!Request(r)
  <2>1. PICK u \in Users : \/ Rec!Comes(r, "create", u, None, "insert")
                          \/ Rec!Comes(r, "channel", u, None, "owner")
                          \/ Rec!Comes(r, "delete", u, None, "owner")
                          \/ Rec!Comes(r, "invite", u, None, "member")
                          \/ Rec!Comes(r, "join", u, None, "find")
                          \/ \E v \in Users : Rec!Comes(r, "dm", u, v, "find")
    BY <1>1 DEF Rec!Request
  <2>2. ASSUME NEW kind \in Rec!Kinds, NEW other \in Users \cup {None}, NEW step \in Rec!Steps,
               Rec!Comes(r, kind, u, other, step), kind = "dm" => other \in Users,
               <<kind, step>> \in {<<"create", "insert">>, <<"channel", "owner">>,
                                  <<"delete", "owner">>, <<"invite", "member">>,
                                  <<"join", "find">>, <<"dm", "find">>}
        PROVE  Began(r)
    <3>1. rec_req'[r] = [kind |-> kind, user |-> u, other |-> other, at |-> step, seen |-> 0]
      BY <2>2, ComesIn
    <3>2. rec_req[r].at = "new" /\ UNCHANGED <<Rec!tables, rec_odd>>
      BY <2>2, ComesIn
    <3> QED  BY <3>1, <3>2, <2>2 DEF Began
  <2>3. /\ Rec!Comes(r, "create", u, None, "insert") => Began(r)
        /\ Rec!Comes(r, "channel", u, None, "owner") => Began(r)
        /\ Rec!Comes(r, "delete", u, None, "owner") => Began(r)
        /\ Rec!Comes(r, "invite", u, None, "member") => Began(r)
        /\ Rec!Comes(r, "join", u, None, "find") => Began(r)
    BY <2>2 DEF Rec!Kinds, Rec!Steps
  <2>4. ASSUME NEW v \in Users, Rec!Comes(r, "dm", u, v, "find")
        PROVE  Began(r)
    BY <2>4, <2>2 DEF Rec!Kinds, Rec!Steps
  <2> QED  BY <2>1, <2>3, <2>4
<1>2. ASSUME Rec!Goes(r, "done")
      PROVE  Ended(r)
  BY <1>2, GoesOn DEF Ended, Rec!Steps
<1>3. ASSUME NEW step \in Rec!Steps, step # "done", Rec!Goes(r, step)
      PROVE  Same(r) /\ rec_req'[r].at = step
  BY <1>3, GoesOn DEF Same
<1>4. CASE Rec!ReadMax(r)
  <2>1. Same(r) /\ rec_req'[r].at = CASE rec_req[r].at = "textMax" -> "text"
                                        [] rec_req[r].at = "voiceMax" -> "voice"
                                        [] OTHER -> "insert"
    BY <1>4 DEF Rec!ReadMax, Rec!TypeOK, Same
  <2> QED  BY <2>1, <1>4 DEF Rec!ReadMax, WentOn, Rec!MaxSteps
<1>5. CASE Rec!DeleteChannel(r)
  BY <1>5 DEF Rec!DeleteChannel, Rec!TypeOK, Ended, Same
<1>6. CASE Rec!CreateCommunity(r) \/ Rec!AddOwner(r) \/ Rec!CheckOwner(r) \/ Rec!CheckMember(r)
           \/ Rec!FindInvite(r) \/ Rec!CheckJoined(r) \/ Rec!AddMember(r) \/ Rec!FindDm(r) \/ Rec!InsertDm(r)
  BY <1>6, <1>2, <1>3
     DEF Rec!CreateCommunity, Rec!AddOwner, Rec!CheckOwner, Rec!CheckMember, Rec!FindInvite, Rec!CheckJoined, Rec!AddMember,
         Rec!FindDm, Rec!InsertDm, Rec!Fails, Rec!At, WentOn, Rec!Steps
<1>7. CASE Rec!InsertChannel(r)
  BY <1>7, <1>2, <1>3 DEF Rec!InsertChannel, Rec!Places, Rec!Fails, Rec!At, WentOn, Rec!Steps
<1>8. CASE Rec!Stop(r) \/ Rec!CreateAnother(r) \/ Rec!DeleteCommunity(r) \/ Rec!InsertInvite(r) \/ Rec!CountUse(r)
           \/ Rec!LinkDm(r)
  BY <1>8, <1>2 DEF Rec!Stop, Rec!CreateAnother, Rec!DeleteCommunity, Rec!InsertInvite, Rec!CountUse, Rec!LinkDm, Rec!Fails
<1> QED  BY <1>1, <1>4, <1>5, <1>6, <1>7, <1>8 DEF Moves, Rec!Handle

(* What a request may do to the community and to its owner.                *)
LEMMA OwnerStep ==
    ASSUME Rec!TypeOK, NEW r \in Rec!Requests, Moves(r)
    PROVE  \/ UNCHANGED <<community, owner>>
           \/ Rec!CreateCommunity(r)
           \/ Rec!DeleteCommunity(r)
BY DEF Moves, Rec!Handle, Rec!Request, Rec!Comes, Rec!Stop, Rec!CreateAnother, Rec!AddOwner, Rec!ReadMax, Rec!InsertChannel,
       Rec!CheckOwner, Rec!DeleteChannel, Rec!CheckMember, Rec!InsertInvite, Rec!FindInvite, Rec!CheckJoined, Rec!AddMember,
       Rec!CountUse, Rec!FindDm, Rec!InsertDm, Rec!LinkDm, Rec!Fails, Rec!tables

(* A request is about users all the way, and a community that is there has *)
(* a user as its owner.                                                    *)
LEMMA AboutStep ==
    ASSUME Rec!TypeOK, About, NEW r \in Rec!Requests, Moves(r),
           \A q \in Rec!Requests : q # r => rec_req'[q] = rec_req[q]
    PROVE  About'
<1>1. \A q \in Rec!Requests : rec_req'[q].kind \in {"create", "join", "dm"} => rec_req'[q].user \in Users
  BY Onward DEF Began, Ended, WentOn, Same, About
<1>2. \A q \in Rec!Requests : rec_req'[q].kind = "dm" => rec_req'[q].other \in Users
  BY Onward DEF Began, Ended, WentOn, Same, About
<1>3. community' = "there" => owner' \in Users
  BY OwnerStep DEF Rec!CreateCommunity, Rec!DeleteCommunity, Rec!At, About
<1> QED  BY <1>1, <1>2, <1>3 DEF About

(* What a request may do to the members and the invite.                    *)
LEMMA MembersStep ==
    ASSUME Rec!TypeOK, NEW r \in Rec!Requests, Moves(r)
    PROVE  \/ UNCHANGED <<members, invite>>
           \/ Rec!DeleteCommunity(r) \/ Rec!AddOwner(r) \/ Rec!AddMember(r) \/ Rec!InsertInvite(r) \/ Rec!CountUse(r)
BY DEF Moves, Rec!Handle, Rec!Request, Rec!Comes, Rec!Stop, Rec!CreateAnother, Rec!CreateCommunity, Rec!ReadMax, Rec!InsertChannel,
       Rec!CheckOwner, Rec!DeleteChannel, Rec!CheckMember, Rec!FindInvite, Rec!CheckJoined,
       Rec!FindDm, Rec!InsertDm, Rec!LinkDm, Rec!Fails, Rec!tables

(* What a request may do to the channels.                                  *)
LEMMA ChannelsStep ==
    ASSUME Rec!TypeOK, NEW r \in Rec!Requests, Moves(r)
    PROVE  \/ UNCHANGED channels
           \/ Rec!InsertChannel(r) \/ Rec!DeleteChannel(r) \/ Rec!DeleteCommunity(r)
BY DEF Moves, Rec!Handle, Rec!Request, Rec!Comes, Rec!Stop, Rec!CreateAnother, Rec!CreateCommunity, Rec!AddOwner, Rec!ReadMax,
       Rec!CheckOwner, Rec!CheckMember, Rec!InsertInvite, Rec!FindInvite, Rec!CheckJoined, Rec!AddMember, Rec!CountUse,
       Rec!FindDm, Rec!InsertDm, Rec!LinkDm, Rec!Fails, Rec!tables

(* Which statements bring a request to the steps that matter.              *)
LEMMA WayToMember ==
    ASSUME Rec!TypeOK, NEW r \in Rec!Requests, Moves(r), Rec!At(r, "create", "insert")
    PROVE  Rec!CreateCommunity(r) \/ Ended(r)
<1>1. rec_req[r].at = "insert" /\ rec_req[r].kind = "create"
  BY DEF Rec!At
<1>2. Rec!CreateCommunity(r) \/ Rec!CreateAnother(r) \/ Rec!Stop(r)
  BY <1>1 DEF Moves, Rec!Handle, Rec!Request, Rec!Comes, Rec!IsNext, Rec!Requests, Rec!AddOwner, Rec!ReadMax, Rec!MaxSteps,
       Rec!InsertChannel, Rec!Places, Rec!CheckOwner, Rec!DeleteCommunity, Rec!DeleteChannel, Rec!CheckMember,
       Rec!InsertInvite, Rec!FindInvite, Rec!CheckJoined, Rec!AddMember, Rec!CountUse, Rec!FindDm, Rec!InsertDm, Rec!LinkDm, Rec!At
<1> QED
  BY <1>2, GoesOn DEF Rec!CreateAnother, Rec!Stop, Rec!Fails, Ended, Rec!Steps

(* A join comes past its first statement only with an invite, and an       *)
(* invite only with a member.                                              *)
LEMMA WayIn ==
    ASSUME Rec!TypeOK, NEW r \in Rec!Requests, Moves(r)
    PROVE  /\ Rec!At(r, "join", "find") => Rec!FindInvite(r) \/ Ended(r)
           /\ Rec!At(r, "invite", "member") => Rec!CheckMember(r) \/ Ended(r)
<1>1. Rec!At(r, "join", "find") => Rec!FindInvite(r) \/ Rec!Stop(r)
  BY DEF Moves, Rec!Handle, Rec!Request, Rec!Comes, Rec!IsNext, Rec!Requests, Rec!CreateCommunity, Rec!CreateAnother, Rec!AddOwner,
       Rec!ReadMax, Rec!MaxSteps, Rec!InsertChannel, Rec!Places, Rec!CheckOwner, Rec!DeleteCommunity, Rec!DeleteChannel,
       Rec!CheckMember, Rec!InsertInvite, Rec!CheckJoined, Rec!AddMember, Rec!CountUse, Rec!FindDm, Rec!InsertDm, Rec!LinkDm, Rec!At
<1>2. Rec!At(r, "invite", "member") => Rec!CheckMember(r) \/ Rec!Stop(r)
  BY DEF Moves, Rec!Handle, Rec!Request, Rec!Comes, Rec!IsNext, Rec!Requests, Rec!CreateCommunity, Rec!CreateAnother, Rec!AddOwner,
       Rec!ReadMax, Rec!MaxSteps, Rec!InsertChannel, Rec!Places, Rec!CheckOwner, Rec!DeleteCommunity, Rec!DeleteChannel,
       Rec!FindInvite, Rec!InsertInvite, Rec!CheckJoined, Rec!AddMember, Rec!CountUse, Rec!FindDm, Rec!InsertDm, Rec!LinkDm, Rec!At
<1> QED
  BY <1>1, <1>2, GoesOn DEF Rec!Stop, Rec!Fails, Ended, Rec!Steps

(* As long as nobody is a member nobody becomes one, but the owner.        *)
LEMMA UnfoundedStays ==
    ASSUME Rec!TypeOK, Unfounded, NEW r \in Rec!Requests, Moves(r), ~Rec!AddOwner(r),
           \A q \in Rec!Requests : q # r => rec_req'[q] = rec_req[q]
    PROVE  Unfounded'
<1>1. ~Joining(r) /\ ~Rec!At(r, "invite", "insert") /\ members = {} /\ invite = Rec!NoInvite
  BY DEF Unfounded
<1>2. members' = {} /\ invite' = Rec!NoInvite
  BY <1>1, MembersStep DEF Rec!DeleteCommunity, Rec!AddMember, Rec!InsertInvite, Rec!CountUse, Joining, Rec!At
<1>3. ~(rec_req'[r].kind = "join" /\ rec_req'[r].at \in {"member", "insert", "uses"})
  <2>1. CASE Rec!At(r, "join", "find")
    BY <1>1, <2>1, WayIn, GoesOn DEF Rec!FindInvite, Rec!Fails, Ended, Rec!Steps
  <2>2. CASE ~Rec!At(r, "join", "find")
    BY <1>1, <2>2, Onward DEF Began, Ended, WentOn, Same, Joining, Rec!At
  <2> QED  BY <2>1, <2>2
<1>4. ~(rec_req'[r].kind = "invite" /\ rec_req'[r].at = "insert")
  <2>1. CASE Rec!At(r, "invite", "member")
    BY <1>1, <2>1, WayIn, GoesOn DEF Rec!CheckMember, Rec!Fails, Ended, Rec!Steps
  <2>2. CASE ~Rec!At(r, "invite", "member")
    BY <1>1, <2>2, Onward DEF Began, Ended, WentOn, Same, Rec!At
  <2> QED  BY <2>1, <2>2
<1> QED
  BY <1>2, <1>3, <1>4 DEF Unfounded, Joining, Rec!At, Rec!NoInvite

(* The community is made once, by one request, which makes its owner the   *)
(* first member.                                                           *)
LEMMA FoundingStep ==
    ASSUME Rec!TypeOK, Founding, NEW r \in Rec!Requests, Moves(r),
           \A q \in Rec!Requests : q # r => rec_req'[q] = rec_req[q]
    PROVE  Founding'
<1>1. Creator(r)' => Creator(r) \/ Rec!CreateCommunity(r)
  <2>1. CASE Rec!At(r, "create", "insert")
    BY <2>1, WayToMember DEF Ended, Creator
  <2>2. CASE ~Rec!At(r, "create", "insert")
    BY <2>2, Onward DEF Began, Ended, WentOn, Same, Creator, Rec!At
  <2> QED  BY <2>1, <2>2
<1>2. \A q \in Rec!Requests : q # r => (Creator(q)' <=> Creator(q))
  BY DEF Creator
<1>3. \A p, q \in Rec!Requests : Creator(p)' /\ Creator(q)' => p = q
  BY <1>1, <1>2 DEF Rec!CreateCommunity, Founding
<1>4. Rec!AddOwner(r) => Creator(r) /\ Rec!At(r, "create", "member")
  BY DEF Rec!AddOwner, Creator, Rec!At
<1>5. ASSUME community' = "no"
      PROVE  Unfounded' /\ \A q \in Rec!Requests : ~Creator(q)'
  <2>1. community = "no"
    BY <1>5, OwnerStep DEF Rec!CreateCommunity, Rec!DeleteCommunity
  <2>2. ~Rec!CreateCommunity(r) /\ Unfounded /\ \A q \in Rec!Requests : ~Creator(q)
    BY <2>1, <1>5 DEF Rec!CreateCommunity, Founding
  <2> QED  BY <2>2, <1>1, <1>2, <1>4, UnfoundedStays
<1>6. ASSUME community' = "there"
      PROVE  owner' \in members' \/ Unfounded'
  <2>1. CASE Rec!CreateCommunity(r)
    BY <2>1, <1>4, UnfoundedStays DEF Rec!CreateCommunity, Founding
  <2>2. CASE UNCHANGED <<community, owner>> /\ Unfounded
    <3>1. CASE Rec!AddOwner(r)
      BY <3>1, <2>2, <1>6 DEF Rec!AddOwner, Unfounded
    <3> QED  BY <3>1, <2>2, UnfoundedStays
  <2>3. CASE UNCHANGED <<community, owner>> /\ owner \in members
    BY <2>3, <1>6, MembersStep
       DEF Rec!DeleteCommunity, Rec!AddOwner, Rec!AddMember, Rec!InsertInvite, Rec!CountUse, Rec!Fails, Rec!tables
  <2> QED  BY <2>1, <2>2, <2>3, <1>6, OwnerStep DEF Rec!DeleteCommunity, Founding
<1>7. ASSUME community' = "there", NEW q \in Rec!Requests, Rec!At(q, "create", "member")'
      PROVE  Unfounded'
  <2>1. CASE Rec!CreateCommunity(r)
    BY <2>1, <1>4, UnfoundedStays DEF Rec!CreateCommunity, Founding
  <2>2. CASE ~Rec!CreateCommunity(r)
    <3>1. community = "there"
      BY <2>2, <1>7, OwnerStep DEF Rec!DeleteCommunity
    <3>2. Rec!At(q, "create", "member")
      <4>1. CASE q # r
        BY <4>1, <1>7 DEF Rec!At
      <4>2. CASE q = r
        <5>1. Rec!At(r, "create", "insert")
          BY <4>2, <1>7, Onward DEF Began, Ended, WentOn, Same, Rec!At
        <5> QED  BY <5>1, <4>2, <2>2, <1>7, WayToMember DEF Ended, Rec!At
      <4> QED  BY <4>1, <4>2
    <3>3. Unfounded
      BY <3>1, <3>2 DEF Founding
    <3>4. CASE Rec!AddOwner(r)
      <4>1. q = r
        BY <3>2, <3>4, <1>4 DEF Founding, Creator, Rec!At
      <4>2. Rec!Goes(r, "textMax") \/ Rec!Goes(r, "done")
        BY <3>4 DEF Rec!AddOwner, Rec!Fails
      <4>3. rec_req'[r].at # "member"
        BY <4>2, GoesOn DEF Rec!Steps
      <4> QED  BY <4>1, <4>3, <1>7 DEF Rec!At
    <3> QED  BY <3>3, <3>4, UnfoundedStays
  <2> QED  BY <2>1, <2>2
<1>8. ASSUME community' = "gone"
      PROVE  members' = {} /\ channels' = {} /\ invite' = Rec!NoInvite
  <2>1. CASE Rec!DeleteCommunity(r)
    BY <2>1 DEF Rec!DeleteCommunity
  <2>2. CASE ~Rec!DeleteCommunity(r)
    <3>1. community = "gone" /\ members = {} /\ channels = {} /\ invite = Rec!NoInvite
      BY <2>2, <1>8, OwnerStep DEF Rec!CreateCommunity, Founding
    <3>2. UNCHANGED <<members, invite>>
      BY <2>2, <3>1, MembersStep DEF Rec!AddOwner, Rec!AddMember, Rec!InsertInvite, Rec!CountUse, Rec!Fails, Rec!tables
    <3>3. UNCHANGED channels
      BY <2>2, <3>1, ChannelsStep DEF Rec!InsertChannel, Rec!DeleteChannel, Rec!Fails, Rec!tables
    <3> QED  BY <3>1, <3>2, <3>3
  <2> QED  BY <2>1, <2>2
<1> QED  BY <1>3, <1>5, <1>6, <1>7, <1>8 DEF Founding, Rec!NoInvite

(* The record of what has overlapped or stopped only grows.                *)
LEMMA OddGrows ==
    ASSUME Rec!TypeOK, NEW r \in Rec!Requests, Moves(r)
    PROVE  rec_odd \subseteq rec_odd'
BY DEF Moves, Rec!Handle, Rec!Request, Rec!Comes, Rec!Stop, Rec!CreateAnother, Rec!CreateCommunity, Rec!AddOwner, Rec!ReadMax,
       Rec!InsertChannel, Rec!CheckOwner, Rec!DeleteCommunity, Rec!DeleteChannel, Rec!CheckMember, Rec!InsertInvite,
       Rec!FindInvite, Rec!CheckJoined, Rec!AddMember, Rec!CountUse, Rec!FindDm, Rec!InsertDm, Rec!LinkDm

(* What the request that makes the community does next, unless it stops.   *)
LEMMA WayOfCreator ==
    ASSUME Rec!TypeOK, NEW r \in Rec!Requests, Moves(r), Creator(r), "create" \notin rec_odd'
    PROVE  /\ rec_req[r].at = "member" => Rec!AddOwner(r)
           /\ rec_req[r].at \in {"textMax", "voiceMax"} => Rec!ReadMax(r)
           /\ rec_req[r].at \in {"text", "voice"} => Rec!InsertChannel(r)
<1>1. ~Rec!Stop(r)
  BY DEF Rec!Stop, Creator, Rec!Odd
<1>2. Rec!AddOwner(r) \/ Rec!ReadMax(r) \/ Rec!InsertChannel(r)
  BY <1>1 DEF Creator, Moves, Rec!Handle, Rec!Request, Rec!Comes, Rec!IsNext, Rec!Requests, Rec!CreateCommunity,
       Rec!CreateAnother, Rec!CheckOwner, Rec!DeleteCommunity, Rec!DeleteChannel, Rec!CheckMember,
       Rec!InsertInvite, Rec!FindInvite, Rec!CheckJoined, Rec!AddMember, Rec!CountUse, Rec!FindDm, Rec!InsertDm, Rec!LinkDm, Rec!At
<1> QED
  BY <1>2 DEF Rec!AddOwner, Rec!ReadMax, Rec!InsertChannel, Rec!Places, Rec!MaxSteps, Rec!At, Creator

(* The owner stays a member as long as the community is there.             *)
LEMMA OwnerStays ==
    ASSUME Rec!TypeOK, Founding, NEW r \in Rec!Requests, Moves(r), community' = "there",
           owner \in members
    PROVE  owner' \in members'
<1>1. UNCHANGED <<community, owner>>
  BY OwnerStep DEF Rec!CreateCommunity, Rec!DeleteCommunity, Founding, Unfounded
<1> QED
  BY <1>1, MembersStep DEF Rec!DeleteCommunity, Rec!AddOwner, Rec!AddMember, Rec!InsertInvite, Rec!CountUse, Rec!Fails, Rec!tables

(* As long as no creation has stopped half-way, what the community lacks   *)
(* of its owner and its two channels is still to come from the request     *)
(* that makes it.                                                          *)
LEMMA CreatingStep ==
    ASSUME Rec!TypeOK, Founding, Creating, NEW r \in Rec!Requests, Moves(r),
           \A q \in Rec!Requests : q # r => rec_req'[q] = rec_req[q]
    PROVE  Creating'
<1> SUFFICES ASSUME community' = "there", "create" \notin rec_odd'
             PROVE  /\ owner' \in members' \/ \E q \in Rec!Requests : Rec!At(q, "create", "member")'
                    /\ "removed" \notin rec_odd' =>
                         /\ \/ "text" \in Names'
                            \/ \E q \in Rec!Requests :
                                  Creator(q)' /\ rec_req'[q].at \in {"member", "textMax", "text"}
                         /\ "voice" \in Names' \/ \E q \in Rec!Requests : Creator(q)'
  BY DEF Creating
<1>1. CASE Rec!CreateCommunity(r)
  <2>1. Rec!At(r, "create", "member")'
    BY <1>1, GoesOn DEF Rec!CreateCommunity, Rec!At, Rec!Steps
  <2> QED  BY <2>1 DEF Rec!At, Creator
<1>2. CASE ~Rec!CreateCommunity(r)
  <2>1. community = "there" /\ "create" \notin rec_odd
    BY <1>2, OwnerStep, OddGrows DEF Rec!DeleteCommunity
  <2>2. \A q \in Rec!Requests : q # r /\ Creator(q) => Creator(q)' /\ rec_req'[q].at = rec_req[q].at
    BY DEF Creator
  <2>3. Creator(r) /\ rec_req[r].at = "member" =>
          owner' \in members' /\ Creator(r)' /\ rec_req'[r].at = "textMax"
    <3> SUFFICES ASSUME Creator(r), rec_req[r].at = "member"
                 PROVE  owner' \in members' /\ Creator(r)' /\ rec_req'[r].at = "textMax"
      OBVIOUS
    <3>1. Rec!AddOwner(r)
      BY WayOfCreator
    <3>2. owner \notin members
      BY <2>1 DEF Founding, Unfounded, Creator, Rec!At
    <3>3. Rec!Goes(r, "textMax") /\ members' = members \cup {owner} /\ owner' = owner
      BY <3>1, <3>2, <2>1 DEF Rec!AddOwner
    <3> QED  BY <3>3, GoesOn DEF Creator, Rec!Steps
  <2>4. Creator(r) /\ rec_req[r].at \in {"textMax", "voiceMax"} =>
          Creator(r)' /\ rec_req'[r].at = IF rec_req[r].at = "textMax" THEN "text" ELSE "voice"
    <3> SUFFICES ASSUME Creator(r), rec_req[r].at \in {"textMax", "voiceMax"}
                 PROVE  Creator(r)' /\ rec_req'[r].at = IF rec_req[r].at = "textMax" THEN "text" ELSE "voice"
      OBVIOUS
    <3>1. Rec!ReadMax(r)
      BY WayOfCreator
    <3>2. /\ rec_req'[r].kind = rec_req[r].kind
          /\ rec_req'[r].at = IF rec_req[r].at = "textMax" THEN "text" ELSE "voice"
      BY <3>1 DEF Rec!ReadMax, Rec!TypeOK
    <3> QED  BY <3>2 DEF Creator
  <2>5. Creator(r) /\ rec_req[r].at \in {"text", "voice"} =>
          rec_req[r].at \in Names' /\ (rec_req[r].at = "text" => Creator(r)')
    <3> SUFFICES ASSUME Creator(r), rec_req[r].at \in {"text", "voice"}
                 PROVE  rec_req[r].at \in Names' /\ (rec_req[r].at = "text" => Creator(r)')
      OBVIOUS
    <3>1. Rec!InsertChannel(r)
      BY WayOfCreator
    <3>2. /\ channels' = channels \cup
                {[by |-> r, name |-> rec_req[r].at, position |-> rec_req[r].seen]}
          /\ Rec!Goes(r, IF rec_req[r].at = "text" THEN "voiceMax" ELSE "done")
      BY <3>1, <2>1 DEF Rec!InsertChannel, Rec!NameAt
    <3>3. [by |-> r, name |-> rec_req[r].at, position |-> rec_req[r].seen].name \in Names'
      BY <3>2 DEF Names
    <3> QED  BY <3>2, <3>3, GoesOn DEF Creator, Rec!Steps
  <2>6. "removed" \notin rec_odd' => Names \subseteq Names' /\ "removed" \notin rec_odd
    <3> SUFFICES ASSUME "removed" \notin rec_odd'
                 PROVE  Names \subseteq Names' /\ "removed" \notin rec_odd
      OBVIOUS
    <3>1. ~Rec!DeleteChannel(r) /\ ~Rec!DeleteCommunity(r)
      BY DEF Rec!DeleteChannel, Rec!DeleteCommunity
    <3>2. channels \subseteq channels'
      BY <3>1, ChannelsStep DEF Rec!InsertChannel, Rec!Fails, Rec!tables
    <3> QED  BY <3>2, OddGrows DEF Names
  <2>7. owner' \in members' \/ \E q \in Rec!Requests : Rec!At(q, "create", "member")'
    <3>1. CASE owner \in members
      BY <3>1, OwnerStays
    <3>2. ASSUME NEW q \in Rec!Requests, Rec!At(q, "create", "member")
          PROVE  owner' \in members' \/ Rec!At(q, "create", "member")'
      BY <3>2, <2>2, <2>3 DEF Rec!At, Creator
    <3> QED  BY <3>1, <3>2, <2>1 DEF Creating
  <2>8. ASSUME "removed" \notin rec_odd'
        PROVE  "text" \in Names' \/ \E q \in Rec!Requests :
                                        Creator(q)' /\ rec_req'[q].at \in {"member", "textMax", "text"}
    <3>1. CASE "text" \in Names
      BY <3>1, <2>6, <2>8
    <3>2. ASSUME NEW q \in Rec!Requests, Creator(q), rec_req[q].at \in {"member", "textMax", "text"}
          PROVE  "text" \in Names' \/ (Creator(q)' /\ rec_req'[q].at \in {"member", "textMax", "text"})
      BY <3>2, <2>2, <2>3, <2>4, <2>5
    <3> QED  BY <3>1, <3>2, <2>1, <2>6, <2>8 DEF Creating
  <2>9. ASSUME "removed" \notin rec_odd'
        PROVE  "voice" \in Names' \/ \E q \in Rec!Requests : Creator(q)'
    <3>1. CASE "voice" \in Names
      BY <3>1, <2>6, <2>9
    <3>2. ASSUME NEW q \in Rec!Requests, Creator(q)
          PROVE  "voice" \in Names' \/ Creator(q)'
      BY <3>2, <2>2, <2>3, <2>4, <2>5 DEF Creator
    <3> QED  BY <3>1, <3>2, <2>1, <2>6, <2>9 DEF Creating
  <2> QED  BY <2>7, <2>8, <2>9
<1> QED  BY <1>1, <1>2

(* A request that asks for a position at a time when nobody else has one.  *)
LEMMA PlacingStep ==
    ASSUME Rec!TypeOK, Placing, NEW r \in Rec!Requests, Moves(r), Rec!TypeOK',
           \A q \in Rec!Requests : q # r => rec_req'[q] = rec_req[q]
    PROVE  Placing'
<1>1. \A q \in Rec!Requests : q # r => (Rec!Places(q)' <=> Rec!Places(q)) /\ rec_req'[q].seen = rec_req[q].seen
  BY DEF Rec!Places, Rec!At
<1>2. CASE Rec!ReadMax(r)
  <2>1. Rec!NextPosition \in Nat /\ \A c \in channels : c.position < Rec!NextPosition
    BY PositionAbove
  <2>2. UNCHANGED channels /\ rec_req'[r].seen = Rec!NextPosition
    BY <1>2 DEF Rec!ReadMax, Rec!tables, Rec!TypeOK
  <2>3. "positions" \notin rec_odd' => "positions" \notin rec_odd /\ \A q \in Rec!Requests : ~Rec!Places(q)
    BY <1>2 DEF Rec!ReadMax
  <2>4. "positions" \notin rec_odd' =>
          /\ \A p, q \in Rec!Requests : Rec!Places(p)' /\ Rec!Places(q)' => p = q
          /\ \A q \in Rec!Requests : Rec!Places(q)' => q = r
    BY <2>3, <1>1
  <2> QED  BY <2>1, <2>2, <2>3, <2>4 DEF Placing
<1>3. CASE ~Rec!ReadMax(r)
  <2>1. "positions" \notin rec_odd' => "positions" \notin rec_odd
    BY OddGrows
  <2>2. Rec!Places(r)' => Rec!Places(r) /\ rec_req'[r].seen = rec_req[r].seen /\ ~Rec!InsertChannel(r)
    <3>1. Rec!InsertChannel(r) => ~Rec!Places(r)'
      <4>1. Rec!InsertChannel(r) => Rec!Goes(r, "voiceMax") \/ Rec!Goes(r, "done")
        BY DEF Rec!InsertChannel, Rec!Fails
      <4> QED  BY <4>1, GoesOn DEF Rec!Places, Rec!At, Rec!Steps
    <3>2. CASE Rec!At(r, "channel", "max") \/ (rec_req[r].kind = "create" /\ rec_req[r].at \in {"textMax", "voiceMax"})
      <4>1. Rec!Stop(r)
        BY <3>2, <1>3 DEF Moves, Rec!Handle, Rec!Request, Rec!Comes, Rec!IsNext, Rec!Requests, Rec!CreateCommunity,
             Rec!CreateAnother, Rec!AddOwner, Rec!InsertChannel, Rec!Places, Rec!CheckOwner, Rec!DeleteCommunity,
             Rec!DeleteChannel, Rec!CheckMember, Rec!InsertInvite, Rec!FindInvite, Rec!CheckJoined, Rec!AddMember, Rec!CountUse,
             Rec!FindDm, Rec!InsertDm, Rec!LinkDm, Rec!At
      <4>2. Rec!Goes(r, "done")
        BY <4>1 DEF Rec!Stop, Rec!Fails
      <4> QED  BY <4>2, GoesOn DEF Rec!Places, Rec!At, Rec!Steps
    <3>3. CASE ~(Rec!At(r, "channel", "max")
                       \/ (rec_req[r].kind = "create" /\ rec_req[r].at \in {"textMax", "voiceMax"}))
      BY <3>3, <3>1, Onward DEF Began, Ended, WentOn, Same, Rec!Places, Rec!At
    <3> QED  BY <3>2, <3>3
  <2>3. CASE Rec!InsertChannel(r) /\ community = "there"
    <3>1. PICK new \in channels' : channels' = channels \cup {new} /\ new.position = rec_req[r].seen
      <4>1. channels' = channels \cup
                     {[by |-> r, name |-> Rec!NameAt(rec_req[r].at), position |-> rec_req[r].seen]}
        BY <2>3 DEF Rec!InsertChannel
      <4>2. [by |-> r, name |-> Rec!NameAt(rec_req[r].at), position |-> rec_req[r].seen].position = rec_req[r].seen
        OBVIOUS
      <4> QED  BY <4>1, <4>2
    <3>2. \A c \in channels : c.position \in Nat
      BY DEF Rec!TypeOK
    <3>3. rec_req[r].seen \in Nat
      BY DEF Rec!TypeOK
    <3>4. \E top \in Nat : \A c \in channels' : c.position <= top
      <4>1. PICK top \in Nat : \A c \in channels : c.position <= top
        BY DEF Placing
      <4>2. \A c \in channels : c.position <= top + rec_req[r].seen
        BY <4>1, <3>2, <3>3
      <4>3. new.position <= top + rec_req[r].seen
        BY <4>1, <3>1, <3>3
      <4>4. \A c \in channels' : c.position <= top + rec_req[r].seen
        BY <4>2, <4>3, <3>1
      <4>5. top + rec_req[r].seen \in Nat
        BY <4>1, <3>3
      <4> QED  BY <4>4, <4>5
    <3>5. ASSUME "positions" \notin rec_odd'
          PROVE  /\ \A c, d \in channels' : c.position = d.position => c = d
                 /\ \A p, q \in Rec!Requests : Rec!Places(p)' /\ Rec!Places(q)' => p = q
                 /\ \A q \in Rec!Requests : Rec!Places(q)' => \A c \in channels' : c.position < rec_req'[q].seen
      <4>1. Rec!Places(r)
        BY <2>3 DEF Rec!InsertChannel
      <4>2. /\ \A c, d \in channels : c.position = d.position => c = d
            /\ \A q \in Rec!Requests : Rec!Places(q) => q = r
            /\ \A c \in channels : c.position < rec_req[r].seen
        BY <4>1, <3>5, <2>1 DEF Placing
      <4>3. \A c, d \in channels' : c.position = d.position => c = d
        BY <4>2, <3>1, <3>2, <3>3
      <4>4. \A q \in Rec!Requests : ~Rec!Places(q)'
        BY <4>2, <1>1, <2>2, <2>3
      <4> QED  BY <4>3, <4>4
    <3> QED  BY <3>4, <3>5 DEF Placing
  <2>4. CASE ~(Rec!InsertChannel(r) /\ community = "there")
    <3>1. channels' \subseteq channels
      BY <2>4, ChannelsStep DEF Rec!InsertChannel, Rec!DeleteChannel, Rec!DeleteCommunity, Rec!Fails, Rec!tables
    <3>2. \A p, q \in Rec!Requests : Rec!Places(p)' /\ Rec!Places(q)' => Rec!Places(p) /\ Rec!Places(q)
      BY <1>1, <2>2
    <3>3. \A q \in Rec!Requests : Rec!Places(q)' => Rec!Places(q) /\ rec_req'[q].seen = rec_req[q].seen
      BY <1>1, <2>2
    <3> QED  BY <3>1, <3>2, <3>3, <2>1 DEF Placing
  <2> QED  BY <2>3, <2>4
<1> QED  BY <1>2, <1>3

(* What a request may do to the channels of direct messages.               *)
LEMMA DirectStep ==
    ASSUME Rec!TypeOK, NEW r \in Rec!Requests, Moves(r)
    PROVE  UNCHANGED <<dms, orphans>> \/ Rec!InsertDm(r) \/ Rec!LinkDm(r)
BY DEF Moves, Rec!Handle, Rec!Request, Rec!Comes, Rec!Stop, Rec!CreateAnother, Rec!CreateCommunity, Rec!AddOwner, Rec!ReadMax,
       Rec!InsertChannel, Rec!CheckOwner, Rec!DeleteCommunity, Rec!DeleteChannel, Rec!CheckMember, Rec!InsertInvite,
       Rec!FindInvite, Rec!CheckJoined, Rec!AddMember, Rec!CountUse, Rec!FindDm, Rec!Fails, Rec!tables

(* What a request for a direct channel does next, unless it stops.         *)
LEMMA WayOfDm ==
    ASSUME Rec!TypeOK, NEW r \in Rec!Requests, Moves(r), rec_req[r].kind = "dm", "dm" \notin rec_odd'
    PROVE  /\ rec_req[r].at = "find" => Rec!FindDm(r)
           /\ rec_req[r].at = "insert" => Rec!InsertDm(r)
           /\ rec_req[r].at = "row" => Rec!LinkDm(r)
<1> SUFFICES ASSUME rec_req[r].at \in {"find", "insert", "row"}
             PROVE  Rec!FindDm(r) \/ Rec!InsertDm(r) \/ Rec!LinkDm(r)
  BY DEF Rec!FindDm, Rec!InsertDm, Rec!LinkDm, Rec!At
<1>1. ~Rec!Stop(r)
  BY DEF Rec!Stop, Rec!Odd
<1> QED
  BY <1>1 DEF Moves, Rec!Handle, Rec!Request, Rec!Comes, Rec!IsNext, Rec!Requests, Rec!CreateCommunity, Rec!CreateAnother,
       Rec!AddOwner, Rec!ReadMax, Rec!InsertChannel, Rec!Places, Rec!CheckOwner, Rec!DeleteCommunity, Rec!DeleteChannel,
       Rec!CheckMember, Rec!InsertInvite, Rec!FindInvite, Rec!CheckJoined, Rec!AddMember, Rec!CountUse, Rec!At

(* Two users who do not ask at a time get one channel, and no channel is   *)
(* left without its row.                                                   *)
LEMMA DirectsStep ==
    ASSUME Rec!TypeOK, About, Directs, NEW r \in Rec!Requests, Moves(r),
           \A q \in Rec!Requests : q # r => rec_req'[q] = rec_req[q]
    PROVE  Directs'
<1> SUFFICES ASSUME "dm" \notin rec_odd'
             PROVE  /\ \A c, d \in dms' : Rec!Pair(c) = Rec!Pair(d) => c = d
                    /\ \A p, q \in Rec!Requests :
                          Asking(p)' /\ Asking(q)' /\ Rec!PairOf(p)' = Rec!PairOf(q)' => p = q
                    /\ \A q \in Rec!Requests : Asking(q)' => ~Rec!Found(q)'
                    /\ \A q \in orphans' : Rec!At(q, "dm", "row")'
  BY DEF Directs, Rec!Pair
<1>1. /\ \A c, d \in dms : Rec!Pair(c) = Rec!Pair(d) => c = d
      /\ \A p, q \in Rec!Requests : Asking(p) /\ Asking(q) /\ Rec!PairOf(p) = Rec!PairOf(q) => p = q
      /\ \A q \in Rec!Requests : Asking(q) => ~Rec!Found(q)
      /\ \A q \in orphans : Rec!At(q, "dm", "row")
  BY OddGrows DEF Directs
<1>2. \A q \in Rec!Requests : q # r =>
         (Asking(q)' <=> Asking(q)) /\ Rec!PairOf(q)' = Rec!PairOf(q) /\ (Rec!At(q, "dm", "row")' <=> Rec!At(q, "dm", "row"))
  BY DEF Asking, Rec!PairOf, Rec!At
<1>3. Asking(r)' => /\ Rec!PairOf(r)' = Rec!PairOf(r)
                    /\ \/ Asking(r)
                       \/ /\ ~Rec!Found(r)
                          /\ \A q \in Rec!Requests \ {r} : Asking(q) => Rec!PairOf(q) # Rec!PairOf(r)
  <2> SUFFICES ASSUME Asking(r)'
               PROVE  /\ Rec!PairOf(r)' = Rec!PairOf(r)
                      /\ \/ Asking(r)
                         \/ /\ ~Rec!Found(r)
                            /\ \A q \in Rec!Requests \ {r} : Asking(q) => Rec!PairOf(q) # Rec!PairOf(r)
    OBVIOUS
  <2>1. Same(r) /\ (Asking(r) \/ Rec!At(r, "dm", "find"))
    BY Onward DEF Began, Ended, WentOn, Same, Asking, Rec!At
  <2>2. CASE Rec!At(r, "dm", "find")
    <3>1. Rec!FindDm(r)
      BY <2>2, WayOfDm DEF Rec!At
    <3>2. ~Rec!Found(r)
      BY <3>1, GoesOn DEF Rec!FindDm, Asking, Rec!Steps
    <3>3. \A q \in Rec!Requests \ {r} : Asking(q) => Rec!PairOf(q) # Rec!PairOf(r)
      BY <3>1 DEF Rec!FindDm, Asking
    <3> QED  BY <3>2, <3>3, <2>1 DEF Same, Rec!PairOf
  <2> QED  BY <2>1, <2>2 DEF Same, Rec!PairOf
<1>4. \A p, q \in Rec!Requests : Asking(p)' /\ Asking(q)' /\ Rec!PairOf(p)' = Rec!PairOf(q)' => p = q
  BY <1>1, <1>2, <1>3
<1>5. CASE Rec!LinkDm(r)
  <2>1. Asking(r) /\ ~Rec!Found(r) /\ Rec!At(r, "dm", "row")
    BY <1>5, <1>1 DEF Rec!LinkDm, Asking, Rec!At
  <2>2. PICK new : /\ dms' = dms \cup {new} /\ orphans' = orphans \ {r}
                   /\ Rec!Goes(r, "done") /\ Rec!Pair(new) = Rec!PairOf(r)
    <3>1. ~(\E d \in dms : d.user1 = rec_req[r].user /\ d.user2 = rec_req[r].other)
      BY <2>1 DEF Rec!Found, Rec!Pair, Rec!PairOf
    <3> DEFINE n == [user1 |-> rec_req[r].user, user2 |-> rec_req[r].other, channel |-> r]
    <3>2. /\ dms' = dms \cup {n} /\ orphans' = orphans \ {r} /\ Rec!Goes(r, "done")
      BY <3>1, <1>5 DEF Rec!LinkDm
    <3>3. Rec!Pair(n) = Rec!PairOf(r)
      BY DEF Rec!Pair, Rec!PairOf
    <3> HIDE DEF n
    <3> QED  BY <3>2, <3>3
  <2>3. ~Asking(r)'
    BY <2>2, GoesOn DEF Asking, Rec!Steps
  <2>4. \A c, d \in dms' : Rec!Pair(c) = Rec!Pair(d) => c = d
    BY <2>2, <2>1, <1>1 DEF Rec!Found
  <2>5. \A q \in Rec!Requests : Asking(q)' => ~Rec!Found(q)'
    <3> SUFFICES ASSUME NEW q \in Rec!Requests, Asking(q)', Rec!Found(q)'
                 PROVE  FALSE
      OBVIOUS
    <3>1. q # r /\ Asking(q) /\ Rec!PairOf(q)' = Rec!PairOf(q)
      BY <2>3, <1>2
    <3>2. PICK d \in dms' : Rec!Pair(d) = Rec!PairOf(q)
      BY <3>1 DEF Rec!Found, Rec!Pair
    <3>3. d # new
      BY <3>1, <3>2, <2>1, <2>2, <1>1
    <3> QED  BY <3>1, <3>2, <3>3, <2>2, <1>1 DEF Rec!Found
  <2>6. \A q \in orphans' : Rec!At(q, "dm", "row")'
    BY <2>2, <1>1, <1>2 DEF Rec!TypeOK
  <2> QED  BY <1>4, <2>4, <2>5, <2>6
<1>6. CASE ~Rec!LinkDm(r)
  <2>1. dms' = dms
    BY <1>6, DirectStep DEF Rec!InsertDm
  <2>2. \A c, d \in dms' : Rec!Pair(c) = Rec!Pair(d) => c = d
    BY <2>1, <1>1
  <2>3. \A q \in Rec!Requests : Asking(q)' => ~Rec!Found(q)'
    <3>1. \A q \in Rec!Requests : Asking(q)' => ~Rec!Found(q) /\ Rec!PairOf(q)' = Rec!PairOf(q)
      BY <1>1, <1>2, <1>3
    <3>2. \A q \in Rec!Requests : Rec!Found(q)' => \E d \in dms' : Rec!Pair(d) = Rec!PairOf(q)'
      BY DEF Rec!Found, Rec!Pair
    <3> QED  BY <3>1, <3>2, <2>1 DEF Rec!Found
  <2>4. \A q \in orphans' : Rec!At(q, "dm", "row")'
    <3>1. CASE Rec!InsertDm(r)
      <4>1. Rec!At(r, "dm", "insert") /\ orphans' = orphans \cup {r} /\ Rec!Goes(r, "row")
        BY <3>1 DEF Rec!InsertDm
      <4>2. Rec!At(r, "dm", "row")'
        BY <4>1, GoesOn DEF Rec!At, Rec!Steps
      <4> QED  BY <4>1, <4>2, <1>1, <1>2 DEF Rec!TypeOK
    <3>2. CASE ~Rec!InsertDm(r)
      <4>1. orphans' = orphans
        BY <3>2, <1>6, DirectStep
      <4>2. r \notin orphans
        BY <1>1, <1>6, WayOfDm DEF Rec!At
      <4> QED  BY <4>1, <4>2, <1>1, <1>2 DEF Rec!TypeOK
    <3> QED  BY <3>1, <3>2
  <2> QED  BY <1>4, <2>2, <2>3, <2>4
<1> QED  BY <1>5, <1>6

(* A request that is over does not move any more.                          *)
LEMMA OverStays ==
    ASSUME Rec!TypeOK, NEW r \in Rec!Requests, Moves(r)
    PROVE  rec_req[r].at # "done"
BY DEF Moves, Rec!Handle, Rec!Request, Rec!Comes, Rec!IsNext, Rec!Requests, Rec!Stop, Rec!CreateAnother, Rec!CreateCommunity,
       Rec!AddOwner, Rec!ReadMax, Rec!MaxSteps, Rec!InsertChannel, Rec!Places, Rec!CheckOwner, Rec!DeleteCommunity,
       Rec!DeleteChannel, Rec!CheckMember, Rec!InsertInvite, Rec!FindInvite, Rec!CheckJoined, Rec!AddMember, Rec!CountUse,
       Rec!FindDm, Rec!InsertDm, Rec!LinkDm, Rec!At

(* What a request that joins does next, unless it stops.                   *)
LEMMA WayOfJoin ==
    ASSUME Rec!TypeOK, NEW r \in Rec!Requests, Moves(r), rec_req[r].kind = "join", "join" \notin rec_odd'
    PROVE  /\ rec_req[r].at = "insert" => Rec!AddMember(r)
           /\ rec_req[r].at = "uses" => Rec!CountUse(r)
<1> SUFFICES ASSUME rec_req[r].at \in {"insert", "uses"}
             PROVE  Rec!AddMember(r) \/ Rec!CountUse(r)
  BY DEF Rec!AddMember, Rec!CountUse, Rec!At
<1>1. ~Rec!Stop(r)
  BY DEF Rec!Stop, Rec!Odd
<1> QED
  BY <1>1 DEF Moves, Rec!Handle, Rec!Request, Rec!Comes, Rec!IsNext, Rec!Requests, Rec!CreateCommunity, Rec!CreateAnother,
       Rec!AddOwner, Rec!ReadMax, Rec!InsertChannel, Rec!Places, Rec!CheckOwner, Rec!DeleteCommunity, Rec!DeleteChannel,
       Rec!CheckMember, Rec!InsertInvite, Rec!FindInvite, Rec!CheckJoined, Rec!FindDm, Rec!InsertDm, Rec!LinkDm, Rec!At, Rec!MaxSteps

(* Sets of requests are finite, and there are at most MaxRequests.         *)
LEMMA FewRequests ==
    ASSUME RecordsAssumption
    PROVE  \A S \in SUBSET Rec!Requests :
              IsFiniteSet(S) /\ Cardinality(S) \in Nat /\ Cardinality(S) <= MaxRecRequests
<1>1. IsFiniteSet(Rec!Requests) /\ Cardinality(Rec!Requests) = MaxRecRequests
  BY FS_Interval DEF Rec!Requests, RecordsAssumption
<1> QED
  BY <1>1, FS_Subset, FS_CardinalityType

(* The invite counts the members it brought, but for the joins on their way. *)
LEMMA JoinedStep ==
    ASSUME RecordsAssumption, Rec!TypeOK, About, Founding, Joined, NEW r \in Rec!Requests, Moves(r),
           \A q \in Rec!Requests : q # r => rec_req'[q] = rec_req[q]
    PROVE  Joined'
<1>1. IsFiniteSet(members)'
  <2>1. members' \subseteq members \cup {owner, rec_req[r].user}
    BY MembersStep DEF Rec!DeleteCommunity, Rec!AddOwner, Rec!AddMember, Rec!InsertInvite, Rec!CountUse, Rec!Fails, Rec!tables
  <2>2. IsFiniteSet((members \cup {owner}) \cup {rec_req[r].user})
    BY FS_AddElement DEF Joined
  <2> QED  BY <2>1, <2>2, FS_Subset
<1>2. Joining(r)' => Joining(r) \/ invite # Rec!NoInvite
  <2>1. CASE Rec!At(r, "join", "find")
    BY <2>1, WayIn, GoesOn DEF Rec!FindInvite, Rec!Fails, Ended, Joining, Rec!Steps
  <2>2. CASE ~Rec!At(r, "join", "find")
    BY <2>2, Onward DEF Began, Ended, WentOn, Same, Joining, Rec!At
  <2> QED  BY <2>1, <2>2
<1>3. /\ Over' \in SUBSET Rec!Requests /\ Over \subseteq Over' /\ r \notin Over
      /\ Ended(r) => Over' = Over \cup {r}
  BY OverStays DEF Over, Ended
<1>4. /\ Cardinality(Over) \in Nat /\ Cardinality(Over') \in Nat
      /\ Cardinality(Over) <= Cardinality(Over') /\ Cardinality(Over) < MaxRecRequests
      /\ Ended(r) => Cardinality(Over') = Cardinality(Over) + 1
  <2>1. IsFiniteSet(Over) /\ IsFiniteSet(Over') /\ Over \cup {r} \in SUBSET Rec!Requests
    BY <1>3, FewRequests DEF Over
  <2>2. Cardinality(Over \cup {r}) = Cardinality(Over) + 1
    BY <2>1, <1>3, FS_AddElement
  <2> QED
    BY <2>1, <2>2, <1>3, FewRequests, FS_Subset, FS_CardinalityType DEF RecordsAssumption
<1>5. invite # Rec!NoInvite => invite \in Nat /\ invite <= Cardinality(Over)
  BY DEF Joined, Rec!TypeOK
<1>6. \/ UNCHANGED invite
      \/ Rec!DeleteCommunity(r)
      \/ Rec!InsertInvite(r) /\ community = "there" /\ invite = Rec!NoInvite /\ invite' = 0
      \/ Rec!CountUse(r) /\ invite # Rec!NoInvite /\ invite' = invite + 1 /\ Ended(r)
  <2>1. Rec!CountUse(r) => Ended(r)
    BY GoesOn DEF Rec!CountUse, Ended, Rec!Steps
  <2> QED
    BY <2>1, MembersStep DEF Rec!AddOwner, Rec!AddMember, Rec!InsertInvite, Rec!CountUse, Rec!Fails, Rec!tables
<1>7. ASSUME community' = "there", invite' = Rec!NoInvite
      PROVE  members' \subseteq {owner'} /\ \A q \in Rec!Requests : ~Joining(q)'
  <2>1. ~Rec!DeleteCommunity(r)
    BY <1>7 DEF Rec!DeleteCommunity
  <2>2. invite = Rec!NoInvite
    BY <2>1, <1>4, <1>5, <1>6, <1>7 DEF Rec!NoInvite, RecordsAssumption
  <2>3. members \subseteq {owner'} /\ \A q \in Rec!Requests : ~Joining(q)
    BY <2>1, <2>2, <1>7, OwnerStep DEF Rec!CreateCommunity, Founding, Unfounded, Joined
  <2>4. \A q \in Rec!Requests : ~Joining(q)'
    BY <2>2, <2>3, <1>2 DEF Joining
  <2>5. members' \subseteq {owner'}
    BY <2>1, <2>3, MembersStep
       DEF Rec!AddOwner, Rec!AddMember, Rec!InsertInvite, Rec!CountUse, Rec!Fails, Rec!tables, Joining, Rec!At
  <2> QED  BY <2>4, <2>5
<1>8. ASSUME invite' # Rec!NoInvite
      PROVE  invite' <= Cardinality(Over')
  BY <1>8, <1>4, <1>5, <1>6 DEF Rec!DeleteCommunity
<1>9. ASSUME invite' # Rec!NoInvite, "join" \notin rec_odd'
      PROVE  Cardinality((members \ {owner})') = invite' + Cardinality(Uses')
  <2>1. "join" \notin rec_odd /\ ~Rec!DeleteCommunity(r)
    BY <1>9, OddGrows DEF Rec!DeleteCommunity
  <2>2. \A q \in Rec!Requests : q # r => (Rec!At(q, "join", "uses")' <=> Rec!At(q, "join", "uses"))
    BY DEF Rec!At
  <2>3. IsFiniteSet(Uses) /\ Cardinality(Uses) \in Nat /\ Uses \subseteq Rec!Requests
    BY FewRequests DEF Uses
  <2>4. CASE Rec!InsertInvite(r) /\ community = "there" /\ invite = Rec!NoInvite /\ invite' = 0
    <3>1. members \subseteq {owner} /\ \A q \in Rec!Requests : ~Joining(q)
      BY <2>4 DEF Joined
    <3>2. UNCHANGED <<members, owner>> /\ Rec!Goes(r, "done")
      BY <2>4 DEF Rec!InsertInvite, Rec!Fails, Rec!tables
    <3>3. members' \ {owner'} = {} /\ Uses' = {}
      BY <3>1, <3>2, <2>2, GoesOn DEF Uses, Rec!At, Joining, Rec!Steps
    <3> QED  BY <3>3, <2>4, FS_EmptySet
  <2>5. CASE Rec!CountUse(r) /\ invite # Rec!NoInvite /\ invite' = invite + 1 /\ Ended(r)
    <3>1. UNCHANGED <<members, owner>> /\ r \in Uses
      BY <2>5 DEF Rec!CountUse, Uses
    <3>2. Uses' = Uses \ {r}
      BY <2>2, <2>5 DEF Uses, Rec!At, Ended
    <3>3. Cardinality(members \ {owner}) = invite + Cardinality(Uses)
      BY <2>1, <2>5 DEF Joined
    <3>4. Cardinality(Uses \ {r}) = Cardinality(Uses) - 1
      BY <3>1, <2>3, FS_RemoveElement
    <3> QED  BY <3>1, <3>2, <3>3, <3>4, <2>3, <2>5, <1>5
  <2>6. CASE UNCHANGED invite
    <3>1. invite # Rec!NoInvite /\ Cardinality(members \ {owner}) = invite + Cardinality(Uses)
      BY <2>1, <2>6, <1>9 DEF Joined, Rec!NoInvite
    <3>2. ~Unfounded
      BY <3>1 DEF Unfounded
    <3>3. UNCHANGED <<community, owner>>
      BY <3>2, <2>1, OwnerStep DEF Rec!CreateCommunity, Founding
    <3>4. CASE Rec!AddMember(r) /\ community = "there" /\ rec_req[r].user \notin members
      <4>1. /\ members' = members \cup {rec_req[r].user} /\ Rec!Goes(r, "uses") /\ Rec!At(r, "join", "insert")
        BY <3>4 DEF Rec!AddMember
      <4>2. owner \in members
        BY <3>2, <3>4 DEF Founding
      <4>3. members' \ {owner'} = (members \ {owner}) \cup {rec_req[r].user}
        BY <4>1, <4>2, <3>3, <3>4
      <4>4. r \notin Uses /\ Uses' = Uses \cup {r}
        BY <4>1, <2>2, GoesOn DEF Uses, Rec!At, Rec!Steps
      <4>5. Cardinality(Uses') = Cardinality(Uses) + 1
        BY <4>4, <2>3, FS_AddElement
      <4>6. IsFiniteSet(members \ {owner}) /\ rec_req[r].user \notin members \ {owner}
        BY <3>4, FS_Subset DEF Joined
      <4>7. Cardinality(members' \ {owner'}) = Cardinality(members \ {owner}) + 1
        BY <4>3, <4>6, FS_AddElement
      <4> QED  BY <4>5, <4>7, <3>1, <2>3, <2>6, <1>5
    <3>5. CASE ~(Rec!AddMember(r) /\ community = "there" /\ rec_req[r].user \notin members)
      <4>1. members' = members
        BY <3>2, <3>5, <2>1, MembersStep
           DEF Rec!AddOwner, Rec!AddMember, Rec!InsertInvite, Rec!CountUse, Rec!Fails, Rec!tables, Founding
      <4>2. Rec!At(r, "join", "uses")' <=> Rec!At(r, "join", "uses")
        <5>1. CASE Rec!At(r, "join", "uses")
          <6>1. Rec!CountUse(r)
            BY <5>1, <1>9, WayOfJoin DEF Rec!At
          <6> QED  BY <6>1, <3>1, <2>6, <1>5 DEF Rec!CountUse
        <5>2. CASE Rec!At(r, "join", "insert")
          <6>1. Rec!AddMember(r)
            BY <5>2, <1>9, WayOfJoin DEF Rec!At
          <6>2. Rec!Goes(r, "done")
            BY <6>1, <3>5 DEF Rec!AddMember, Rec!Fails
          <6> QED  BY <6>2, <5>2, GoesOn DEF Rec!At, Rec!Steps
        <5>3. CASE ~Rec!At(r, "join", "uses") /\ ~Rec!At(r, "join", "insert")
          BY <5>3, Onward DEF Began, Ended, WentOn, Same, Rec!At
        <5> QED  BY <5>1, <5>2, <5>3
      <4>3. Uses' = Uses
        BY <4>2, <2>2 DEF Uses
      <4> QED  BY <4>1, <4>3, <3>1, <3>3, <2>6
    <3> QED  BY <3>4, <3>5
  <2> QED  BY <2>1, <2>4, <2>5, <2>6, <1>6
<1> QED
  BY <1>1, <1>7, <1>8, <1>9 DEF Joined, Rec!NoInvite

-----------------------------------------------------------------------------
(* RecordsInv holds at first.                                              *)
LEMMA RecordsInitially ==
    ASSUME RecordsAssumption, Rec!Init
    PROVE  RecordsInv
<1>1. Rec!TypeOK
  BY DEF Rec!Init, Rec!TypeOK, Rec!NewReq, Rec!NoInvite, Rec!Kinds, Rec!Steps, RecordsAssumption
<1>2. \A r \in Rec!Requests : rec_req[r].kind = "none" /\ rec_req[r].at = "new"
  BY DEF Rec!Init, Rec!NewReq
<1>3. About
  BY <1>2 DEF About, Rec!Init
<1>4. Founding
  BY <1>2 DEF Founding, Creator, Unfounded, Joining, Rec!At, Rec!Init
<1>5. Creating
  <2>1. ASSUME community = "there"
        PROVE  "text" \in Names /\ "voice" \in Names
    <3> DEFINE t == [by |-> 0, name |-> "text", position |-> 1]
               v == [by |-> 0, name |-> "voice", position |-> 2]
    <3>1. t \in channels /\ v \in channels /\ t.name = "text" /\ v.name = "voice"
      BY <2>1 DEF Rec!Init
    <3> HIDE DEF t, v
    <3> QED  BY <3>1 DEF Names
  <2> QED  BY <2>1 DEF Creating, Rec!Init
<1>6. Joined
  <2>1. IsFiniteSet(members)
    <3>1. members = {} \/ members = {owner}
      BY DEF Rec!Init
    <3> QED  BY <3>1, FS_EmptySet, FS_Singleton
  <2>2. Cardinality(Over) \in Nat /\ Over = {} /\ Uses = {}
    BY <1>2, FewRequests DEF Over, Uses, Rec!At
  <2>3. invite # Rec!NoInvite => members \ {owner} = {} /\ invite = 0
    BY DEF Rec!Init
  <2>4. community = "there" => invite # Rec!NoInvite
    BY DEF Rec!Init, Rec!NoInvite, RecordsAssumption
  <2> QED  BY <2>1, <2>2, <2>3, <2>4, <1>2, FS_EmptySet DEF Joined
<1>7. Placing
  <2>1. \A c \in channels : c.position <= 2
    BY DEF Rec!Init
  <2>2. \A c, d \in channels : c.position = d.position => c = d
    BY DEF Rec!Init
  <2> QED  BY <2>1, <2>2, <1>2 DEF Placing, Rec!Places, Rec!At
<1>8. Directs
  BY <1>2 DEF Directs, Asking, Rec!Init
<1> QED  BY <1>1, <1>3, <1>4, <1>5, <1>6, <1>7, <1>8 DEF RecordsInv

(* Every statement of every request keeps RecordsInv.                      *)
LEMMA RecordsStep ==
    ASSUME RecordsAssumption, RecordsInv, [Rec!Next]_(Rec!vars)
    PROVE  RecordsInv'
<1>1. CASE UNCHANGED Rec!vars
  <2> USE <1>1 DEF Rec!vars, Rec!tables
  <2>1. Rec!TypeOK' /\ About'
    BY DEF RecordsInv, Rec!TypeOK, About
  <2>2. Founding' /\ Creating'
    BY DEF RecordsInv, Founding, Creating, Creator, Unfounded, Joining, Rec!At, Names
  <2>3. Joined' /\ Placing'
    BY DEF RecordsInv, Joined, Placing, Joining, Rec!Places, Uses, Over, Rec!At
  <2>4. Directs'
    BY DEF RecordsInv, Directs, Asking, Rec!Found, Rec!Pair, Rec!PairOf, Rec!At
  <2> QED  BY <2>1, <2>2, <2>3, <2>4 DEF RecordsInv
<1>2. CASE Rec!Next
  <2>1. PICK r \in Rec!Requests : Moves(r)
    BY <1>2 DEF Rec!Next, Moves
  <2>2. Rec!TypeOK' /\ \A q \in Rec!Requests : q # r => rec_req'[q] = rec_req[q]
    BY <2>1, TypesStep DEF RecordsInv
  <2> QED
    BY <2>1, <2>2, AboutStep, FoundingStep, CreatingStep, JoinedStep, PlacingStep, DirectsStep
       DEF RecordsInv
<1> QED  BY <1>1, <1>2

(* With no request on its way, RecordsInv is what the records have to      *)
(* agree on.                                                               *)
LEMMA RecordsGives ==
    ASSUME RecordsAssumption, RecordsInv
    PROVE  Rec!TypeOK /\ Rec!RecordsAgree
<1>1. ASSUME Rec!Settled, community = "there", "create" \notin rec_odd
      PROVE  /\ owner \in members
             /\ "removed" \notin rec_odd => {"text", "voice"} \subseteq {c.name : c \in channels}
  BY <1>1 DEF RecordsInv, Creating, Rec!Settled, Rec!At, Creator, Names
<1>2. ASSUME Rec!Settled, invite # Rec!NoInvite, rec_odd \cap {"join", "create"} = {}
      PROVE  invite = Cardinality(members \ {owner})
  <2>1. Uses = {}
    BY <1>2 DEF Rec!Settled, Uses, Rec!At
  <2> QED  BY <1>2, <2>1, FS_EmptySet DEF RecordsInv, Joined, Rec!TypeOK
<1>3. "positions" \notin rec_odd => \A c, d \in channels : c.position = d.position => c = d
  BY DEF RecordsInv, Placing
<1>4. "dm" \notin rec_odd => /\ \A c, d \in dms : Rec!Pair(c) = Rec!Pair(d) => c = d
                             /\ Rec!Settled => orphans = {}
  BY DEF RecordsInv, Directs, Rec!Settled, Rec!At, Rec!TypeOK
<1>5. community = "gone" => members = {} /\ channels = {} /\ invite = Rec!NoInvite
  BY DEF RecordsInv, Founding
<1> QED  BY <1>1, <1>2, <1>3, <1>4, <1>5, RecordsCounts DEF Rec!RecordsAgree, RecordsInv

(* For any users and any number of requests, in any order of their         *)
(* statements and stopping anywhere: a community has its owner and its     *)
(* channels, an invite counts the members it brought, channels have        *)
(* positions and two users a direct channel of their own, but for what     *)
(* overlapped or stopped.                                                  *)
THEOREM RecordsSound ==
    ASSUME RecordsAssumption
    PROVE  Rec!Spec => [](Rec!TypeOK /\ Rec!RecordsAgree)
<1>1. Rec!Init => RecordsInv
  BY RecordsInitially
<1>2. RecordsInv /\ [Rec!Next]_(Rec!vars) => RecordsInv'
  BY RecordsStep
<1>3. RecordsInv => Rec!TypeOK /\ Rec!RecordsAgree
  BY RecordsGives
<1> QED
  BY <1>1, <1>2, <1>3, PTL DEF Rec!Spec

-----------------------------------------------------------------------------
(* Voice states (Voice).                                                   *)

VoiceAssumption ==
    /\ None \notin Channels
    /\ \A k \in Clicks : V!Who(k) \in Users

(* A task that has to do with a channel has one.                           *)
Directed == {"join", "enter", "delete", "insert", "tellJoin", "fetch", "fill", "tellLeave",
             "tellOff", "tellOn"}

VoiceTypes ==
    /\ V!TypeOK
    /\ \A k \in Clicks : voice_pc[k] \in Directed => chan[k] \in Channels

(* A user who has not clicked too soon has one unfinished task at most.    *)
Single ==
    \A j, k \in Clicks :
        V!Who(j) = V!Who(k) /\ V!Who(j) \notin hasty /\ voice_pc[j] \notin V!Idle /\ voice_pc[k] \notin V!Idle => j = k

(* The client's flag is the one in the table.                              *)
VoiceSame(u) == u \notin silent \cup failed => mine[u] = IF voice_row[u] = None THEN "off" ELSE flag[u]

(* Where the client and the server have a user between the clicks: a       *)
(* client in a channel is there in the table too, and only a request that  *)
(* failed can have left the row of a client in none.                       *)
Rest(u) ==
    /\ local[u] # None => voice_row[u] = local[u]
    /\ u \notin failed => voice_row[u] = local[u]
    /\ local[u] = None => mine[u] = "off"
    /\ VoiceSame(u)

(* And where at each point of a task.                                      *)
Stage(k) ==
    LET u == V!Who(k) IN
    /\ voice_pc[k] \in {"join", "enter"} => Rest(u) /\ local[u] # chan[k] /\ chan[k] \in Channels
    /\ voice_pc[k] \in {"delete", "insert"} => local[u] = chan[k] /\ chan[k] \in Channels
    /\ voice_pc[k] = "delete" /\ voice_row[u] = None => mine[u] = "off"
    /\ voice_pc[k] = "insert" => voice_row[u] = None /\ (u \notin silent => mine[u] = "off")
    /\ voice_pc[k] \in {"tellJoin", "fetch", "fill"} =>
                local[u] = chan[k] /\ voice_row[u] = chan[k] /\ chan[k] \in Channels /\ VoiceSame(u)
                /\ u \notin failed
    /\ voice_pc[k] = "tellJoin" => flag[u] = "off"
    /\ voice_pc[k] = "leaveSelect" => voice_row[u] = local[u] /\ local[u] \in Channels
    /\ voice_pc[k] = "leaveDelete" => voice_row[u] = local[u] /\ local[u] \in Channels /\ chan[k] = voice_row[u]
    /\ voice_pc[k] = "tellLeave" => voice_row[u] = None /\ local[u] = chan[k] /\ chan[k] \in Channels
    /\ voice_pc[k] = "exit" => voice_row[u] = None \/ u \in failed
    /\ voice_pc[k] \in {"setOff", "setOn"} =>
                voice_row[u] = local[u] /\ local[u] \in Channels
    /\ voice_pc[k] \in {"tellOff", "tellOn", "keepOff", "keepOn"} =>
                /\ voice_row[u] = local[u] /\ local[u] \in Channels /\ chan[k] = voice_row[u]
                /\ flag[u] = V!ValueOf(k)
    /\ voice_pc[k] = "revert" => u \in failed

PlaceOf(u) ==
    /\ ~V!Unfinished(u) => Rest(u)
    /\ \A k \in Clicks : V!Who(k) = u => Stage(k)

PlaceInv == \A u \in online \ hasty : PlaceOf(u)

SilentInv == Users \ silent \subseteq online

-----------------------------------------------------------------------------
Telling(y)    == \E k \in Clicks : V!Who(k) = y /\ voice_pc[k] = "tellJoin"
Leaving(y, c) == \E k \in Clicks : V!Who(k) = y /\ voice_pc[k] = "tellLeave" /\ chan[k] = c
Changing(y)   == \E k \in Clicks : V!Who(k) = y /\ voice_pc[k] \in {"tellOff", "tellOn"}

\* y is in c and this has been said; he is, or his leaving is still to be said.
Here(y, c)   == voice_row[y] = c /\ ~Telling(y)
There(y, c)  == voice_row[y] = c \/ Leaving(y, c)
ToldIn(y, c) == Here(y, c) \/ Leaving(y, c)

(* Nothing about y is still to be announced, and he is in c.               *)
Sure(y, c) == voice_row[y] = c /\ ~Telling(y) /\ ~Changing(y)

VoiceAbout(e, y, c) == e.user = y /\ e.channel = c
Mark(e, y, c)  == VoiceAbout(e, y, c) /\ e.kind \in {"joined", "left"}
Says(e)        == CASE e.kind = "joined" -> "off"
                    [] e.kind = "left" -> "absent"
                    [] e.kind \in {"off", "on"} -> e.kind

Abouts(s, y, c) == {i \in DOMAIN s : VoiceAbout(s[i], y, c)}
Marks(s, y, c)  == {i \in DOMAIN s : Mark(s[i], y, c)}

(* Of the events about y and c, the last that says who came or went says   *)
(* how it is, an update after it is about somebody who is there, and the   *)
(* last one of all has the flag, unless more is to be announced.           *)
EventsRight(s, y, c, told, sure, value) ==
    /\ \A i \in Marks(s, y, c) : (\A j \in Marks(s, y, c) : j <= i) =>
          (s[i].kind = "joined" <=> told)
    /\ \A i \in Abouts(s, y, c) : (\A j \in Marks(s, y, c) : j < i) => told
    /\ \A i \in Abouts(s, y, c) : (\A j \in Abouts(s, y, c) : j <= i) =>
          (sure => Says(s[i]) = value)

EventsFrom(x) == \A i \in DOMAIN voice_inbox[x] : x \in subscribers[voice_inbox[x][i].channel]

EventInv ==
    /\ \A x \in Users : EventsFrom(x)
    /\ \A x \in Users, y \in Users \ (hasty \cup silent), c \in Channels :
          EventsRight(voice_inbox[x], y, c, ToldIn(y, c), Sure(y, c), flag[y])

-----------------------------------------------------------------------------
Entering(x) ==
    \E k \in Clicks : V!Who(k) = x /\ voice_pc[k] \in {"delete", "insert", "tellJoin", "fetch", "revert"}
Bringing(x, y) == \E k \in Clicks : V!Who(k) = x /\ voice_pc[k] = "fill" /\ found[k][y] # "absent"

Viewers == online \ (hasty \cup late)
Viewed  == Users \ (hasty \cup silent)

(* A client that has fetched is subscribed, and one that is not subscribed *)
(* shows nobody else.                                                      *)
Subscribed(x, c) == ~Entering(x) => x \in subscribers[c]
Unaware(x, y, c) == x \notin subscribers[c] => shown[x][y] = "absent"

(* Whom a client shows is there, who is there is shown, and as what he is, *)
(* once the events about him have been read.                               *)
ShownIsThere(x, y, c) ==
    <<x, y>> \notin stale /\ shown[x][y] # "absent" /\ Marks(voice_inbox[x], y, c) = {} =>
        There(y, c)
ThereIsShown(x, y, c) ==
    ~Entering(x) /\ ~Bringing(x, y) /\ Here(y, c) /\ Marks(voice_inbox[x], y, c) = {} =>
        shown[x][y] # "absent"
ShownRight(x, y, c) ==
    <<x, y>> \notin stale /\ shown[x][y] # "absent" /\ Abouts(voice_inbox[x], y, c) = {}
    /\ Sure(y, c) =>
        shown[x][y] = flag[y]

ViewInv ==
    \A x \in Viewers, y \in Users, c \in Channels :
        local[x] = c /\ x # y =>
            /\ Subscribed(x, c) /\ Unaware(x, y, c)
            /\ y \in Viewed =>
                  ShownIsThere(x, y, c) /\ ThereIsShown(x, y, c) /\ ShownRight(x, y, c)

-----------------------------------------------------------------------------
(* A step that only a failed request makes.                                *)
Missed(k) == V!JoinFails(k) \/ V!FetchFails(k) \/ V!LeaveFails(k) \/ V!UpdateFails(k)

(* What a broadcast does to an inbox.                                      *)
LEMMA Broadcasting ==
    ASSUME V!TypeOK, NEW c \in Channels, NEW kind \in {"joined", "left", "off", "on"},
           NEW u \in Users,
           V!Broadcast(c, kind, u)
    PROVE  /\ voice_inbox' \in [Users -> Seq(V!Events)]
           /\ \A x \in Users : x \notin subscribers[c] => voice_inbox'[x] = voice_inbox[x]
           /\ \A x \in Users : x \in subscribers[c] =>
                 voice_inbox'[x] = Append(voice_inbox[x], [kind |-> kind, channel |-> c, user |-> u])
<1>1. [kind |-> kind, channel |-> c, user |-> u] \in V!Events
  BY DEF V!Events
<1> QED
  BY <1>1 DEF V!Broadcast, V!TypeOK

(* Every variable keeps its type.                                          *)
LEMMA TypeStep == VoiceAssumption /\ VoiceTypes /\ [V!Next]_(V!vars) => VoiceTypes'
<1> SUFFICES ASSUME VoiceAssumption, VoiceTypes, [V!Next]_(V!vars) PROVE VoiceTypes'
  OBVIOUS
<1> USE DEF V!Labels, V!Idle, Directed, V!db, V!socket, V!client, V!task, V!past
<1>1. CASE UNCHANGED V!vars
  BY <1>1 DEF V!vars, VoiceTypes, V!TypeOK
<1>2. ASSUME NEW k \in Clicks, NEW c \in Channels, V!ClickJoin(k, V!Who(k), c) PROVE VoiceTypes'
  BY <1>2 DEF V!ClickJoin, V!Spawn, V!Goto, VoiceTypes, V!TypeOK, VoiceAssumption
<1>3. ASSUME NEW k \in Clicks, V!ClickLeave(k, V!Who(k)) PROVE VoiceTypes'
  BY <1>3 DEF V!ClickLeave, V!Spawn, V!Goto, VoiceTypes, V!TypeOK, VoiceAssumption
<1>4. ASSUME NEW k \in Clicks, V!ClickToggle(k, V!Who(k)) PROVE VoiceTypes'
  BY <1>4 DEF V!ClickToggle, V!Spawn, V!Goto, VoiceTypes, V!TypeOK, VoiceAssumption
<1>5. ASSUME NEW k \in Clicks, V!Subscribe(k) PROVE VoiceTypes'
  BY <1>5 DEF V!Subscribe, V!Goto, VoiceTypes, V!TypeOK, VoiceAssumption
<1>6. ASSUME NEW k \in Clicks, V!EnterLocally(k) PROVE VoiceTypes'
  BY <1>6 DEF V!EnterLocally, V!Goto, VoiceTypes, V!TypeOK, VoiceAssumption, V!Nobody, V!Entries
<1>7. ASSUME NEW k \in Clicks, V!LeaveForJoin(k) PROVE VoiceTypes'
  <2>1. V!Who(k) \in Users
    BY DEF VoiceAssumption
  <2>2. /\ voice_row' \in [Users -> Channels \cup {None}]
        /\ silent' \subseteq Users
    BY <1>7, <2>1 DEF V!LeaveForJoin, VoiceTypes, V!TypeOK
  <2>3. /\ voice_pc' \in [Clicks -> V!Labels] /\ voice_pc[k] = "delete"
        /\ \A j \in Clicks : voice_pc'[j] = IF j = k THEN "insert" ELSE voice_pc[j]
    BY <1>7 DEF V!LeaveForJoin, V!Goto, VoiceTypes, V!TypeOK
  <2>4. UNCHANGED <<flag, V!socket, V!client, chan, found, hasty, late, failed, stale>>
    BY <1>7 DEF V!LeaveForJoin
  <2>5. \A j \in Clicks : voice_pc'[j] \in Directed => chan'[j] \in Channels
    BY <2>3, <2>4 DEF VoiceTypes
  <2>6. V!TypeOK'
    <3>1. /\ voice_row' \in [Users -> Channels \cup {None}]
          /\ voice_pc' \in [Clicks -> V!Labels]
          /\ silent' \subseteq Users
      BY <2>2, <2>3
    <3> QED
      BY <3>1, <2>4 DEF VoiceTypes, V!TypeOK
  <2> QED
    BY <2>5, <2>6 DEF VoiceTypes
<1>8. ASSUME NEW k \in Clicks, V!InsertRow(k) PROVE VoiceTypes'
  <2>1. V!Who(k) \in Users
    BY DEF VoiceAssumption
  <2>2. /\ voice_pc[k] = "insert" /\ voice_pc' \in [Clicks -> V!Labels]
        /\ \A j \in Clicks : j # k => voice_pc'[j] = voice_pc[j]
    BY <1>8 DEF V!InsertRow, V!Goto, VoiceTypes, V!TypeOK
  <2>3. chan[k] \in Channels
    BY <2>2 DEF VoiceTypes
  <2>4. voice_row' \in [Users -> Channels \cup {None}] /\ flag' \in [Users -> {"off", "on"}]
    BY <1>8, <2>1, <2>3 DEF V!InsertRow, VoiceTypes, V!TypeOK
  <2>5. UNCHANGED <<V!socket, V!client, chan, found, hasty, late, silent, stale>> /\ failed' \subseteq Users
    BY <1>8 DEF V!InsertRow, VoiceTypes, V!TypeOK
  <2>6. V!TypeOK'
    BY <2>2, <2>4, <2>5 DEF VoiceTypes, V!TypeOK
  <2>7. \A j \in Clicks : voice_pc'[j] \in Directed => chan'[j] \in Channels
    BY <2>2, <2>3, <2>5 DEF VoiceTypes
  <2> QED
    BY <2>6, <2>7 DEF VoiceTypes
<1>9. ASSUME NEW k \in Clicks, V!TellJoin(k) PROVE VoiceTypes'
  <2>1. chan[k] \in Channels /\ V!Who(k) \in Users /\ "joined" \in {"joined", "left", "off", "on"}
    BY <1>9 DEF V!TellJoin, VoiceTypes, VoiceAssumption, V!ValueOf
  <2>2. voice_inbox' \in [Users -> Seq(V!Events)]
    BY <1>9, <2>1, Broadcasting DEF V!TellJoin, VoiceTypes
  <2> QED
    BY <1>9, <2>2 DEF V!TellJoin, V!Goto, VoiceTypes, V!TypeOK, VoiceAssumption
<1>10. ASSUME NEW k \in Clicks, V!Fetch(k) PROVE VoiceTypes'
  BY <1>10 DEF V!Fetch, V!Goto, VoiceTypes, V!TypeOK, VoiceAssumption, V!Participants, V!Entries
<1>11. ASSUME NEW k \in Clicks, V!Fill(k) PROVE VoiceTypes'
  <2>1. [y \in Users |-> IF y \in V!Others(k) THEN found[k][y] ELSE shown[V!Who(k)][y]]
            \in [Users -> V!Entries]
    BY DEF VoiceTypes, V!TypeOK, VoiceAssumption, V!Entries
  <2>2. shown' \in [Users -> [Users -> V!Entries]]
    BY <1>11, <2>1 DEF V!Fill, VoiceTypes, V!TypeOK, VoiceAssumption
  <2>3. stale' \subseteq Users \X Users
    BY <1>11 DEF V!Fill, VoiceTypes, V!TypeOK, VoiceAssumption, V!Others
  <2>4. found' \in [Clicks -> [Users -> V!Entries]]
    BY <1>11 DEF V!Fill, VoiceTypes, V!TypeOK, V!Nobody, V!Entries
  <2> QED
    BY <1>11, <2>2, <2>3, <2>4 DEF V!Fill, V!Goto, VoiceTypes, V!TypeOK
<1>12. ASSUME NEW k \in Clicks, V!LeaveLocally(k) PROVE VoiceTypes'
  BY <1>12 DEF V!LeaveLocally, V!Goto, VoiceTypes, V!TypeOK, VoiceAssumption, V!Nobody, V!Entries
<1>13. ASSUME NEW k \in Clicks, V!LeaveSelect(k) PROVE VoiceTypes'
  BY <1>13 DEF V!LeaveSelect, V!Goto, VoiceTypes, V!TypeOK, VoiceAssumption
<1>14. ASSUME NEW k \in Clicks, V!LeaveDelete(k) PROVE VoiceTypes'
  BY <1>14 DEF V!LeaveDelete, V!Goto, VoiceTypes, V!TypeOK, VoiceAssumption
<1>15. ASSUME NEW k \in Clicks, V!TellLeave(k) PROVE VoiceTypes'
  <2>1. chan[k] \in Channels /\ V!Who(k) \in Users /\ "left" \in {"joined", "left", "off", "on"}
    BY <1>15 DEF V!TellLeave, VoiceTypes, VoiceAssumption, V!ValueOf
  <2>2. voice_inbox' \in [Users -> Seq(V!Events)]
    BY <1>15, <2>1, Broadcasting DEF V!TellLeave, VoiceTypes
  <2> QED
    BY <1>15, <2>2 DEF V!TellLeave, V!Goto, VoiceTypes, V!TypeOK, VoiceAssumption
<1>16. ASSUME NEW k \in Clicks, V!Update(k) PROVE VoiceTypes'
  <2>1. V!ValueOf(k) \in {"off", "on"} /\ V!Who(k) \in Users
    BY DEF V!ValueOf, VoiceAssumption
  <2>2. CASE voice_row[V!Who(k)] = None
    <3>1. /\ voice_pc' = [voice_pc EXCEPT ![k] = "done"]
          /\ UNCHANGED <<flag, chan>>
      BY <1>16, <2>2 DEF V!Update, V!Goto
    <3>2. UNCHANGED <<voice_row, V!socket, V!client, found, V!past>>
      BY <1>16 DEF V!Update
    <3> QED
      BY <3>1, <3>2 DEF VoiceTypes, V!TypeOK, V!socket, V!client, V!past
  <2>3. CASE voice_row[V!Who(k)] # None
    <3>1. voice_pc' \in [Clicks -> V!Labels] /\ flag' \in [Users -> {"off", "on"}]
      BY <1>16, <2>1, <2>3 DEF V!Update, V!Goto, VoiceTypes, V!TypeOK
    <3>2. voice_row[V!Who(k)] \in Channels
      BY <2>1, <2>3 DEF VoiceTypes, V!TypeOK
    <3>3. \A j \in Clicks : voice_pc'[j] \in Directed => chan'[j] \in Channels
      BY <1>16, <2>3, <3>2 DEF V!Update, V!Goto, VoiceTypes, V!TypeOK
    <3> QED
      BY <1>16, <2>3, <3>1, <3>2, <3>3 DEF V!Update, VoiceTypes, V!TypeOK
  <2> QED
    BY <2>2, <2>3
<1>17. ASSUME NEW k \in Clicks, V!TellUpdate(k) PROVE VoiceTypes'
  <2>1. chan[k] \in Channels /\ V!Who(k) \in Users /\ V!ValueOf(k) \in {"joined", "left", "off", "on"}
    BY <1>17 DEF V!TellUpdate, VoiceTypes, VoiceAssumption, V!ValueOf
  <2>2. voice_inbox' \in [Users -> Seq(V!Events)]
    BY <1>17, <2>1, Broadcasting DEF V!TellUpdate, VoiceTypes
  <2> QED
    BY <1>17, <2>2 DEF V!TellUpdate, V!Goto, VoiceTypes, V!TypeOK, VoiceAssumption
<1>18. ASSUME NEW k \in Clicks, V!KeepFlag(k) PROVE VoiceTypes'
  BY <1>18 DEF V!KeepFlag, V!Goto, VoiceTypes, V!TypeOK, VoiceAssumption, V!ValueOf
<1>19. ASSUME NEW u \in Users, V!ServeSubscribe(u) PROVE VoiceTypes'
  BY <1>19 DEF V!ServeSubscribe, VoiceTypes, V!TypeOK
<1>20. ASSUME NEW x \in Users, V!ReadEvent(x) PROVE VoiceTypes'
  <2>1. PICK e \in V!Events, list \in [Users -> V!Entries] :
          /\ voice_inbox' = [voice_inbox EXCEPT ![x] = Tail(@)] /\ voice_inbox[x] # <<>>
          /\ shown' = [shown EXCEPT ![x] = list]
          /\ \/ stale' = stale
             \/ stale' = stale \ {<<x, e.user>>}
             \/ stale' = stale \cup {<<x, e.user>>}
    <3> DEFINE e == Head(voice_inbox[x])
    <3>1. e \in V!Events /\ voice_inbox[x] # <<>>
      BY <1>20 DEF V!ReadEvent, VoiceTypes, V!TypeOK
    <3>2. V!AfterJoined(x, e) \in [Users -> V!Entries]
      BY DEF V!AfterJoined, VoiceTypes, V!TypeOK, V!Entries
    <3>3. V!AfterLeft(x, e) \in [Users -> V!Entries]
      BY DEF V!AfterLeft, VoiceTypes, V!TypeOK, V!Entries
    <3>4. e.kind \in {"off", "on"} => V!AfterUpdate(x, e) \in [Users -> V!Entries]
      BY DEF V!AfterUpdate, VoiceTypes, V!TypeOK, V!Entries
    <3>5. e.kind \in {"joined", "left", "off", "on"}
      BY <3>1 DEF V!Events
    <3> HIDE DEF e
    <3> QED
      BY <1>20, <3>1, <3>2, <3>3, <3>4, <3>5 DEF V!ReadEvent, e
  <2>2. voice_inbox' \in [Users -> Seq(V!Events)]
    BY <2>1 DEF VoiceTypes, V!TypeOK
  <2>3. shown' \in [Users -> [Users -> V!Entries]] /\ stale' \subseteq Users \X Users
    BY <2>1 DEF VoiceTypes, V!TypeOK, V!Events
  <2> QED
    BY <1>20, <2>2, <2>3 DEF V!ReadEvent, VoiceTypes, V!TypeOK
<1>21. ASSUME NEW u \in Users, V!Disconnect(u) PROVE VoiceTypes'
  <2>1. voice_row' \in [Users -> Channels \cup {None}] /\ silent' \subseteq Users
    BY <1>21 DEF V!Disconnect, VoiceTypes, V!TypeOK
  <2>2. /\ subscribers' \in [Channels -> SUBSET Users] /\ online' \subseteq Users
        /\ voice_requests' \in [Users -> Seq(Channels)]
        /\ voice_inbox' \in [Users -> Seq(V!Events)]
    BY <1>21 DEF V!Disconnect, VoiceTypes, V!TypeOK
  <2> QED
    BY <1>21, <2>1, <2>2 DEF V!Disconnect, VoiceTypes, V!TypeOK
<1>22. ASSUME NEW k \in Clicks, Missed(k) PROVE VoiceTypes'
  <2>1. /\ UNCHANGED <<V!db, V!socket, V!client, chan, found, hasty, silent, stale>>
        /\ late' \subseteq late \cup {V!Who(k)} /\ failed' \subseteq failed \cup {V!Who(k)}
        /\ \E next \in {"revert", "exit", "done"} : voice_pc' = [voice_pc EXCEPT ![k] = next]
    BY <1>22 DEF Missed, V!JoinFails, V!LeaveFails, V!UpdateFails, V!FetchFails, V!Fails, V!Goto
  <2>2. voice_pc' \in [Clicks -> V!Labels] /\ \A j \in Clicks : voice_pc'[j] \in Directed => voice_pc[j] \in Directed
    BY <2>1 DEF VoiceTypes, V!TypeOK
  <2>3. late' \subseteq Users /\ failed' \subseteq Users
    BY <2>1, VoiceAssumption DEF VoiceTypes, V!TypeOK, VoiceAssumption
  <2> QED
    BY <2>1, <2>2, <2>3 DEF VoiceTypes, V!TypeOK, V!db, V!socket, V!client
<1> QED
  BY <1>1, <1>2, <1>3, <1>4, <1>5, <1>6, <1>7, <1>8, <1>9, <1>10, <1>11, <1>12, <1>13, <1>14,
     <1>15, <1>16, <1>17, <1>18, <1>19, <1>20, <1>21, <1>22 DEF V!Next, V!Step, Missed

-----------------------------------------------------------------------------
(* What a step leaves alone.                                               *)
Clicked(k) ==
    \/ \E c \in Channels : V!ClickJoin(k, V!Who(k), c)
    \/ V!ClickLeave(k, V!Who(k))
    \/ V!ClickToggle(k, V!Who(k))

Untouched(u) ==
    /\ voice_row'[u] = voice_row[u] /\ flag'[u] = flag[u]
    /\ local'[u] = local[u] /\ mine'[u] = mine[u] /\ shown'[u] = shown[u]
    /\ u \in hasty' <=> u \in hasty
    /\ u \in late' <=> u \in late
    /\ u \in failed' <=> u \in failed
    /\ u \in silent' <=> u \in silent
    /\ \A y : <<u, y>> \in stale' <=> <<u, y>> \in stale

Alone(k) ==
    /\ online' = online
    /\ \A u \in Users \ {V!Who(k)} : Untouched(u)
    /\ \A j \in Clicks \ {k} : voice_pc'[j] = voice_pc[j] /\ chan'[j] = chan[j] /\ found'[j] = found[j]
    /\ hasty \subseteq hasty' /\ late \subseteq late' /\ silent \subseteq silent'

(* A task has to do with its own user only.                                *)
LEMMA TaskAlone ==
    ASSUME VoiceTypes, NEW k \in Clicks, V!Step(k)
    PROVE  Alone(k) /\ voice_pc[k] \notin V!Idle /\ hasty' = hasty
<1> USE DEF Untouched, Alone, V!Idle, V!db, V!socket, V!client, V!task, V!past, VoiceTypes, V!TypeOK, V!Goto
<1>1. ASSUME V!Subscribe(k) PROVE Alone(k) /\ voice_pc[k] \notin V!Idle /\ hasty' = hasty
  BY <1>1 DEF V!Subscribe
<1>2. ASSUME V!EnterLocally(k) PROVE Alone(k) /\ voice_pc[k] \notin V!Idle /\ hasty' = hasty
  BY <1>2 DEF V!EnterLocally
<1>3. ASSUME V!LeaveForJoin(k) PROVE Alone(k) /\ voice_pc[k] \notin V!Idle /\ hasty' = hasty
  BY <1>3 DEF V!LeaveForJoin
<1>4. ASSUME V!InsertRow(k) PROVE Alone(k) /\ voice_pc[k] \notin V!Idle /\ hasty' = hasty
  BY <1>4 DEF V!InsertRow
<1>5. ASSUME V!TellJoin(k) PROVE Alone(k) /\ voice_pc[k] \notin V!Idle /\ hasty' = hasty
  BY <1>5 DEF V!TellJoin
<1>6. ASSUME V!Fetch(k) PROVE Alone(k) /\ voice_pc[k] \notin V!Idle /\ hasty' = hasty
  BY <1>6 DEF V!Fetch
<1>7. ASSUME V!Fill(k) PROVE Alone(k) /\ voice_pc[k] \notin V!Idle /\ hasty' = hasty
  BY <1>7 DEF V!Fill
<1>8. ASSUME V!LeaveLocally(k) PROVE Alone(k) /\ voice_pc[k] \notin V!Idle /\ hasty' = hasty
  BY <1>8 DEF V!LeaveLocally
<1>9. ASSUME V!LeaveSelect(k) PROVE Alone(k) /\ voice_pc[k] \notin V!Idle /\ hasty' = hasty
  BY <1>9 DEF V!LeaveSelect
<1>10. ASSUME V!LeaveDelete(k) PROVE Alone(k) /\ voice_pc[k] \notin V!Idle /\ hasty' = hasty
  BY <1>10 DEF V!LeaveDelete
<1>11. ASSUME V!TellLeave(k) PROVE Alone(k) /\ voice_pc[k] \notin V!Idle /\ hasty' = hasty
  BY <1>11 DEF V!TellLeave
<1>12. ASSUME V!Update(k) PROVE Alone(k) /\ voice_pc[k] \notin V!Idle /\ hasty' = hasty
  BY <1>12 DEF V!Update
<1>13. ASSUME V!TellUpdate(k) PROVE Alone(k) /\ voice_pc[k] \notin V!Idle /\ hasty' = hasty
  BY <1>13 DEF V!TellUpdate
<1>14. ASSUME V!KeepFlag(k) PROVE Alone(k) /\ voice_pc[k] \notin V!Idle /\ hasty' = hasty
  BY <1>14 DEF V!KeepFlag
<1>15. ASSUME Missed(k) PROVE Alone(k) /\ voice_pc[k] \notin V!Idle /\ hasty' = hasty
  BY <1>15 DEF Missed, V!JoinFails, V!LeaveFails, V!UpdateFails, V!FetchFails, V!Fails
<1> QED
  BY <1>1, <1>2, <1>3, <1>4, <1>5, <1>6, <1>7, <1>8, <1>9, <1>10, <1>11, <1>12, <1>13, <1>14,
     <1>15 DEF V!Step, Missed

(* And so has a click.                                                     *)
LEMMA ClickAlone ==
    ASSUME VoiceTypes, NEW k \in Clicks, Clicked(k)
    PROVE  /\ Alone(k)
           /\ UNCHANGED <<V!db, V!socket, V!client, found, late, failed, silent, stale>>
           /\ voice_pc[k] = "new" /\ voice_pc' = [voice_pc EXCEPT ![k] = voice_pc'[k]]
           /\ voice_pc'[k] \in {"join", "leaveSelect", "setOff", "setOn"}
           /\ hasty' = IF V!Unfinished(V!Who(k)) THEN hasty \cup {V!Who(k)} ELSE hasty
  BY DEF Clicked, V!ClickJoin, V!ClickLeave, V!ClickToggle, V!Spawn, V!Goto, Alone, Untouched,
         V!db, V!socket, V!client, V!task, V!past, VoiceTypes, V!TypeOK

(* A user who has not clicked too soon still has one task at most.         *)
LEMMA SingleStep == VoiceTypes /\ Single /\ [V!Next]_(V!vars) => Single'
<1> SUFFICES ASSUME VoiceTypes, Single, [V!Next]_(V!vars) PROVE Single'
  OBVIOUS
<1>1. ASSUME NEW k \in Clicks, Clicked(k) PROVE Single'
  BY <1>1, ClickAlone DEF Alone, Single, V!Unfinished, V!Idle
<1>2. ASSUME NEW k \in Clicks, V!Step(k) PROVE Single'
  BY <1>2, TaskAlone DEF Alone, Single
<1>3. ASSUME UNCHANGED <<voice_pc, hasty>> PROVE Single'
  BY <1>3 DEF Single
<1>4. ASSUME NEW u \in Users, V!ServeSubscribe(u) \/ V!ReadEvent(u) \/ V!Disconnect(u)
      PROVE  UNCHANGED <<voice_pc, hasty>>
  BY <1>4 DEF V!ServeSubscribe, V!ReadEvent, V!Disconnect, V!task, V!past
<1>5. UNCHANGED V!vars => UNCHANGED <<voice_pc, hasty>>
  BY DEF V!vars, V!task, V!past
<1> QED
  BY <1>1, <1>2, <1>3, <1>4, <1>5 DEF V!Next, Clicked

-----------------------------------------------------------------------------
(* The place of a user whom a step does not touch stays.                   *)
LEMMA PlaceStays ==
    ASSUME VoiceTypes, NEW u \in Users, PlaceOf(u), Untouched(u),
           \A k \in Clicks : V!Who(k) = u => voice_pc'[k] = voice_pc[k] /\ chan'[k] = chan[k]
    PROVE  PlaceOf(u)'
<1>1. Rest(u) => Rest(u)'
  BY DEF Rest, VoiceSame, Untouched
<1>2. V!Unfinished(u)' => V!Unfinished(u)
  BY DEF V!Unfinished
<1>3. ASSUME NEW k \in Clicks, V!Who(k) = u PROVE Stage(k)'
  <2>1. Stage(k)
    BY <1>3 DEF PlaceOf
  <2>2. V!ValueOf(k)' = V!ValueOf(k)
    BY <1>3 DEF V!ValueOf
  <2> QED
    BY <1>3, <2>1, <2>2 DEF Stage, Rest, VoiceSame, Untouched
<1>4. V!Unfinished(u) => V!Unfinished(u)'
  BY DEF V!Unfinished
<1> QED
  BY <1>1, <1>3, <1>4 DEF PlaceOf

(* A step of one task needs to be looked at for its own user only, who has *)
(* no other task.                                                          *)
LEMMA PlaceMoves ==
    ASSUME VoiceAssumption, VoiceTypes, Single', PlaceInv, NEW k \in Clicks, Alone(k),
           voice_pc'[k] \notin V!Idle \/ (voice_pc[k] \notin V!Idle /\ Single),
           V!Who(k) \in online \ hasty' => Stage(k)' /\ (voice_pc'[k] \in V!Idle => Rest(V!Who(k))')
    PROVE  PlaceInv'
<1> SUFFICES ASSUME NEW u \in online \ hasty' PROVE PlaceOf(u)'
  BY DEF PlaceInv, Alone
<1>0. u \in Users /\ u \notin hasty /\ PlaceOf(u)
  BY DEF Alone, VoiceTypes, V!TypeOK, PlaceInv
<1>1. CASE u # V!Who(k)
  BY <1>0, <1>1, PlaceStays DEF Alone
<1>2. CASE u = V!Who(k)
  <2>1. ASSUME NEW j \in Clicks, j # k, V!Who(j) = u PROVE voice_pc'[j] \in V!Idle
    BY <1>0, <1>2, <2>1 DEF Single, Alone
  <2>2. \A j \in Clicks : V!Who(j) = u => Stage(j)'
    BY <1>2, <2>1 DEF Stage, V!Idle
  <2>3. ~V!Unfinished(u)' => voice_pc'[k] \in V!Idle
    BY <1>2 DEF V!Unfinished
  <2> QED
    BY <1>2, <2>2, <2>3 DEF PlaceOf
<1> QED
  BY <1>1, <1>2

(* A client whose user never clicked too soon stays where the server has   *)
(* it.                                                                     *)
LEMMA PlaceStep == VoiceAssumption /\ VoiceTypes /\ Single /\ PlaceInv /\ [V!Next]_(V!vars) => PlaceInv'
<1> SUFFICES ASSUME VoiceAssumption, VoiceTypes, Single, PlaceInv, [V!Next]_(V!vars) PROVE PlaceInv'
  OBVIOUS
<1>0. Single'
  BY SingleStep
<1>1. ASSUME NEW k \in Clicks, Clicked(k) PROVE PlaceInv'
  <2>1. ASSUME V!Who(k) \in online \ hasty' PROVE Stage(k)'
    <3>1. ~V!Unfinished(V!Who(k)) /\ V!Who(k) \in Users /\ V!Who(k) \notin hasty
      BY <1>1, <2>1, ClickAlone DEF VoiceAssumption, Alone
    <3>2. Rest(V!Who(k))
      BY <2>1, <3>1 DEF PlaceInv, PlaceOf
    <3> QED
      BY <1>1, <3>1, <3>2, ClickAlone
      DEF Clicked, V!ClickJoin, V!ClickLeave, V!ClickToggle, V!Spawn, V!Goto, Stage, Rest, VoiceSame, VoiceTypes,
         V!TypeOK,
          V!db, V!client, V!task
  <2>2. voice_pc'[k] \notin V!Idle
    BY <1>1, ClickAlone DEF V!Idle
  <2> QED
    BY <1>0, <1>1, <2>1, <2>2, ClickAlone, PlaceMoves
<1>2. ASSUME NEW k \in Clicks, V!Step(k) PROVE PlaceInv'
  <2>1. ASSUME V!Who(k) \in online \ hasty' PROVE Stage(k)' /\ (voice_pc'[k] \in V!Idle => Rest(V!Who(k))')
    <3> DEFINE u == V!Who(k)
    <3>1. Stage(k) /\ u \in Users
      BY <1>2, <2>1, TaskAlone DEF PlaceInv, PlaceOf, VoiceAssumption
    <3> USE <2>1, <3>1 DEF Stage, Rest, VoiceSame, V!Goto, V!Idle, VoiceTypes, V!TypeOK, VoiceAssumption,
              V!db, V!socket, V!client, V!task, V!past
    <3>2. ASSUME V!Subscribe(k) PROVE Stage(k)' /\ (voice_pc'[k] \in V!Idle => Rest(u)')
      BY <3>2 DEF V!Subscribe
    <3>3. ASSUME V!EnterLocally(k) PROVE Stage(k)' /\ (voice_pc'[k] \in V!Idle => Rest(u)')
      BY <3>3 DEF V!EnterLocally
    <3>4. ASSUME V!LeaveForJoin(k) PROVE Stage(k)' /\ (voice_pc'[k] \in V!Idle => Rest(u)')
      BY <3>4 DEF V!LeaveForJoin
    <3>5. ASSUME V!InsertRow(k) PROVE Stage(k)' /\ (voice_pc'[k] \in V!Idle => Rest(u)')
      BY <3>5 DEF V!InsertRow, V!Taken
    <3>6. ASSUME V!TellJoin(k) PROVE Stage(k)' /\ (voice_pc'[k] \in V!Idle => Rest(u)')
      BY <3>6 DEF V!TellJoin
    <3>7. ASSUME V!Fetch(k) PROVE Stage(k)' /\ (voice_pc'[k] \in V!Idle => Rest(u)')
      BY <3>7 DEF V!Fetch
    <3>8. ASSUME V!Fill(k) PROVE Stage(k)' /\ (voice_pc'[k] \in V!Idle => Rest(u)')
      BY <3>8 DEF V!Fill
    <3>9. ASSUME V!LeaveLocally(k) PROVE Stage(k)' /\ (voice_pc'[k] \in V!Idle => Rest(u)')
      BY <3>9 DEF V!LeaveLocally
    <3>10. ASSUME V!LeaveSelect(k) PROVE Stage(k)' /\ (voice_pc'[k] \in V!Idle => Rest(u)')
      BY <3>10 DEF V!LeaveSelect
    <3>11. ASSUME V!LeaveDelete(k) PROVE Stage(k)' /\ (voice_pc'[k] \in V!Idle => Rest(u)')
      BY <3>11 DEF V!LeaveDelete
    <3>12. ASSUME V!TellLeave(k) PROVE Stage(k)' /\ (voice_pc'[k] \in V!Idle => Rest(u)')
      BY <3>12 DEF V!TellLeave
    <3>13. ASSUME V!Update(k) PROVE Stage(k)' /\ (voice_pc'[k] \in V!Idle => Rest(u)')
      BY <3>13 DEF V!Update, V!ValueOf
    <3>14. ASSUME V!TellUpdate(k) PROVE Stage(k)' /\ (voice_pc'[k] \in V!Idle => Rest(u)')
      BY <3>14 DEF V!TellUpdate, V!ValueOf
    <3>15. ASSUME V!KeepFlag(k) PROVE Stage(k)' /\ (voice_pc'[k] \in V!Idle => Rest(u)')
      BY <3>15 DEF V!KeepFlag, V!ValueOf
    <3>16. ASSUME Missed(k) PROVE Stage(k)' /\ (voice_pc'[k] \in V!Idle => Rest(u)')
      BY <3>16 DEF Missed, V!JoinFails, V!LeaveFails, V!UpdateFails, V!FetchFails, V!Fails
    <3> QED
      BY <1>2, <3>2, <3>3, <3>4, <3>5, <3>6, <3>7, <3>8, <3>9, <3>10, <3>11, <3>12, <3>13, <3>14,
         <3>15, <3>16 DEF V!Step, Missed
  <2> QED
    BY <1>0, <1>2, <2>1, TaskAlone, PlaceMoves
<1>3. ASSUME NEW u \in Users, V!ServeSubscribe(u) \/ V!ReadEvent(u) \/ V!Disconnect(u) PROVE PlaceInv'
  <2> SUFFICES ASSUME NEW w \in online' \ hasty' PROVE PlaceOf(w)'
    BY DEF PlaceInv
  <2>1. UNCHANGED <<voice_pc, chan, hasty, failed, local, flag, mine>>
    BY <1>3 DEF V!ServeSubscribe, V!ReadEvent, V!Disconnect, V!task, V!past, V!db, V!client
  <2>2. voice_row'[w] = voice_row[w] /\ (w \in silent' <=> w \in silent) /\ w \in online /\ w \in Users
    BY <1>3 DEF V!ServeSubscribe, V!ReadEvent, V!Disconnect, V!db, V!socket, V!past, VoiceTypes, V!TypeOK
  <2>3. PlaceOf(w)
    BY <2>1, <2>2 DEF PlaceInv
  <2> QED
    BY <2>1, <2>2, <2>3 DEF PlaceOf, Stage, Rest, VoiceSame, V!ValueOf, V!Unfinished
<1>4. UNCHANGED V!vars => PlaceInv'
  BY DEF V!vars, V!db, V!socket, V!client, V!task, V!past, PlaceInv, PlaceOf, Stage, Rest, VoiceSame, V!ValueOf,
     V!Unfinished
<1> QED
  BY <1>1, <1>2, <1>3, <1>4 DEF V!Next, Clicked

-----------------------------------------------------------------------------
(* The events on their way: what a queue that gets an event says.          *)
LEMMA EventsAppended ==
    ASSUME NEW s \in Seq(V!Events), NEW e \in V!Events, NEW y, NEW c,
           NEW told \in BOOLEAN, NEW sure \in BOOLEAN, NEW value,
           NEW old \in BOOLEAN, NEW secure \in BOOLEAN, NEW before,
           EventsRight(s, y, c, old, secure, before),
           ~VoiceAbout(e, y, c) => (told <=> old) /\ (sure => secure /\ value = before),
           Mark(e, y, c) => (e.kind = "joined" <=> told),
           VoiceAbout(e, y, c) /\ ~Mark(e, y, c) => told /\ old,
           VoiceAbout(e, y, c) /\ sure => Says(e) = value
    PROVE  EventsRight(Append(s, e), y, c, told, sure, value)
<1> DEFINE t == Append(s, e)
<1>1. /\ DOMAIN s = 1..Len(s) /\ DOMAIN t = 1..(Len(s) + 1) /\ Len(s) \in Nat
      /\ \A i \in DOMAIN s : t[i] = s[i]
      /\ t[Len(s) + 1] = e
  OBVIOUS
<1> HIDE DEF t
<1>2. \A i \in Marks(s, y, c) : i \in Marks(t, y, c) /\ i < Len(s) + 1 /\ i \in Nat
  BY <1>1 DEF Marks
<1>3. \A i \in Abouts(s, y, c) : i \in Abouts(t, y, c) /\ i < Len(s) + 1 /\ i \in Nat
  BY <1>1 DEF Abouts
<1>4. \A i \in Marks(t, y, c) : i \in Marks(s, y, c) \/ (i = Len(s) + 1 /\ Mark(e, y, c))
  BY <1>1 DEF Marks
<1>5. \A i \in Abouts(t, y, c) : i \in Abouts(s, y, c) \/ (i = Len(s) + 1 /\ VoiceAbout(e, y, c))
  BY <1>1 DEF Abouts
<1>6. /\ Mark(e, y, c) => Len(s) + 1 \in Marks(t, y, c)
      /\ VoiceAbout(e, y, c) => Len(s) + 1 \in Abouts(t, y, c)
      /\ Mark(e, y, c) => VoiceAbout(e, y, c)
  BY <1>1 DEF Marks, Abouts, Mark
<1>7. ASSUME NEW i \in Marks(t, y, c), \A j \in Marks(t, y, c) : j <= i
      PROVE  t[i].kind = "joined" <=> told
  <2>1. CASE Mark(e, y, c)
    <3>1. i = Len(s) + 1
      BY <1>1, <1>2, <1>4, <1>6, <1>7, <2>1
    <3> QED
      BY <1>1, <2>1, <3>1
  <2>2. CASE ~Mark(e, y, c)
    <3>1. i \in Marks(s, y, c) /\ t[i] = s[i]
      BY <1>1, <1>4, <1>7, <2>2 DEF Marks
    <3>2. s[i].kind = "joined" <=> old
      BY <1>2, <1>7, <3>1 DEF EventsRight
    <3> QED
      BY <2>2, <3>1, <3>2
  <2> QED
    BY <2>1, <2>2
<1>8. ASSUME NEW i \in Abouts(t, y, c), \A j \in Marks(t, y, c) : j < i
      PROVE  told
  <2>1. CASE i = Len(s) + 1 /\ VoiceAbout(e, y, c)
    BY <1>1, <1>6, <1>8, <2>1
  <2>2. CASE i \in Abouts(s, y, c)
    <3>1. old
      BY <1>2, <1>8, <2>2 DEF EventsRight
    <3>2. ~Mark(e, y, c)
      BY <1>1, <1>3, <1>6, <1>8, <2>2
    <3> QED
      BY <3>1, <3>2
  <2> QED
    BY <1>5, <1>8, <2>1, <2>2
<1>9. ASSUME NEW i \in Abouts(t, y, c), \A j \in Abouts(t, y, c) : j <= i, sure
      PROVE  Says(t[i]) = value
  <2>1. CASE VoiceAbout(e, y, c)
    <3>1. i = Len(s) + 1
      BY <1>1, <1>3, <1>5, <1>6, <1>9, <2>1
    <3> QED
      BY <1>1, <1>9, <2>1, <3>1
  <2>2. CASE ~VoiceAbout(e, y, c)
    <3>1. i \in Abouts(s, y, c) /\ t[i] = s[i]
      BY <1>1, <1>5, <1>9, <2>2 DEF Abouts
    <3>2. Says(s[i]) = before
      BY <1>3, <1>9, <2>2, <3>1 DEF EventsRight
    <3> QED
      BY <1>9, <2>2, <3>1, <3>2
  <2> QED
    BY <2>1, <2>2
<1> QED
  BY <1>7, <1>8, <1>9 DEF EventsRight, t

(* And what one says whose first event is read.                            *)
LEMMA EventsRead ==
    ASSUME NEW s \in Seq(V!Events), s # <<>>, NEW y, NEW c,
           NEW told \in BOOLEAN, NEW sure \in BOOLEAN, NEW value,
           EventsRight(s, y, c, told, sure, value)
    PROVE  EventsRight(Tail(s), y, c, told, sure, value)
<1> DEFINE t == Tail(s)
<1>1. /\ DOMAIN s = 1..Len(s) /\ DOMAIN t = 1..(Len(s) - 1) /\ Len(s) \in Nat
      /\ \A i \in DOMAIN t : t[i] = s[i + 1]
  OBVIOUS
<1> HIDE DEF t
<1>2. \A i \in Marks(t, y, c) : i + 1 \in Marks(s, y, c) /\ i \in Nat /\ t[i] = s[i + 1]
  BY <1>1 DEF Marks
<1>3. \A i \in Abouts(t, y, c) : i + 1 \in Abouts(s, y, c) /\ i \in Nat /\ t[i] = s[i + 1]
  BY <1>1 DEF Abouts
<1>4. \A i \in Marks(s, y, c) : i \in Nat /\ (i = 1 \/ i - 1 \in Marks(t, y, c))
  BY <1>1 DEF Marks
<1>5. \A i \in Abouts(s, y, c) : i \in Nat /\ (i = 1 \/ i - 1 \in Abouts(t, y, c))
  BY <1>1 DEF Abouts
<1>6. ASSUME NEW i \in Marks(t, y, c), \A j \in Marks(t, y, c) : j <= i
      PROVE  t[i].kind = "joined" <=> told
  <2>1. \A j \in Marks(s, y, c) : j <= i + 1
    BY <1>2, <1>4, <1>6
  <2> QED
    BY <1>2, <1>6, <2>1 DEF EventsRight
<1>7. ASSUME NEW i \in Abouts(t, y, c), \A j \in Marks(t, y, c) : j < i
      PROVE  told
  <2>1. \A j \in Marks(s, y, c) : j < i + 1
    BY <1>1, <1>3, <1>4, <1>7 DEF Abouts
  <2> QED
    BY <1>3, <1>7, <2>1 DEF EventsRight
<1>8. ASSUME NEW i \in Abouts(t, y, c), \A j \in Abouts(t, y, c) : j <= i, sure
      PROVE  Says(t[i]) = value
  <2>1. ASSUME NEW j \in Abouts(s, y, c) PROVE j <= i + 1
    <3>1. i \in Nat /\ j \in Nat /\ (j - 1 \in Abouts(t, y, c) => j - 1 <= i)
      BY <1>3, <1>5, <1>8
    <3> QED
      BY <1>5, <3>1
  <2> QED
    BY <1>3, <1>8, <2>1 DEF EventsRight
<1> QED
  BY <1>6, <1>7, <1>8 DEF EventsRight, t

(* A queue without an event about y and c says nothing wrong.              *)
LEMMA NoEvents ==
    ASSUME NEW s, NEW y, NEW c, Abouts(s, y, c) = {}, NEW told, NEW sure, NEW value
    PROVE  EventsRight(s, y, c, told, sure, value)
  BY DEF EventsRight, Abouts, Marks, Mark

-----------------------------------------------------------------------------
(* How the others know of y.                                               *)
Known(y) ==
    /\ \A c \in Channels : (Leaving(y, c)' <=> Leaving(y, c)) /\ (ToldIn(y, c)' <=> ToldIn(y, c))
    /\ \A c \in Channels : Sure(y, c)' => Sure(y, c) /\ flag'[y] = flag[y]

(* As long as no step touches him, what is to be announced of him stays.   *)
LEMMA KnownStays ==
    ASSUME NEW y, Untouched(y),
           \A k \in Clicks : V!Who(k) = y => voice_pc'[k] = voice_pc[k] /\ chan'[k] = chan[k]
    PROVE  /\ Known(y)
           /\ Telling(y)' <=> Telling(y)
           /\ Changing(y)' <=> Changing(y)
<1>1. /\ Telling(y)' <=> Telling(y)
      /\ Changing(y)' <=> Changing(y)
      /\ \A c \in Channels : Leaving(y, c)' <=> Leaving(y, c)
  BY DEF Telling, Leaving, Changing
<1> QED
  BY <1>1 DEF Known, ToldIn, Here, Sure, Untouched

(* It is what his one task says.                                           *)
LEMMA KnownByTask ==
    ASSUME NEW k \in Clicks, V!Who(k) \notin hasty', VoiceTypes, Single, Single',
           (V!Step(k) /\ voice_pc[k] \notin V!Idle) \/ (Clicked(k) /\ ~V!Unfinished(V!Who(k)) /\ voice_pc[k] = "new")
    PROVE  LET y == V!Who(k) IN
           /\ Telling(y) <=> voice_pc[k] = "tellJoin"
           /\ Changing(y) <=> voice_pc[k] \in {"tellOff", "tellOn"}
           /\ \A c : Leaving(y, c) <=> voice_pc[k] = "tellLeave" /\ chan[k] = c
           /\ Telling(y)' <=> voice_pc'[k] = "tellJoin"
           /\ Changing(y)' <=> voice_pc'[k] \in {"tellOff", "tellOn"}
           /\ \A c : Leaving(y, c)' <=> voice_pc'[k] = "tellLeave" /\ chan'[k] = c
<1>1. Alone(k)
  BY TaskAlone, ClickAlone
<1>2. \A j \in Clicks : j # k /\ V!Who(j) = V!Who(k) => voice_pc[j] \in V!Idle /\ voice_pc'[j] \in V!Idle
  BY <1>1 DEF Single, Alone, V!Unfinished
<1> QED
  BY <1>2 DEF Telling, Changing, Leaving, V!Idle

(* The row of nobody is removed in silence but for those in silent.        *)
LEMMA SilentStep == VoiceTypes /\ SilentInv /\ [V!Next]_(V!vars) => SilentInv'
<1> SUFFICES ASSUME VoiceTypes, SilentInv, [V!Next]_(V!vars) PROVE SilentInv'
  OBVIOUS
<1>1. ASSUME NEW k \in Clicks, Clicked(k) \/ V!Step(k) PROVE SilentInv'
  BY <1>1, ClickAlone, TaskAlone DEF Alone, SilentInv
<1>2. ASSUME NEW u \in Users, V!ServeSubscribe(u) \/ V!ReadEvent(u) \/ V!Disconnect(u) PROVE SilentInv'
  BY <1>2 DEF V!ServeSubscribe, V!ReadEvent, V!Disconnect, V!past, SilentInv
<1>3. UNCHANGED V!vars => SilentInv'
  BY DEF V!vars, V!socket, V!past, SilentInv
<1> QED
  BY <1>1, <1>2, <1>3 DEF V!Next, Clicked

Sound == VoiceAssumption /\ VoiceTypes /\ Single /\ PlaceInv /\ SilentInv

(* What a click or a task that broadcasts nothing does to what the others  *)
(* know of its user: it makes nothing of it wrong.                         *)
LEMMA KnownSilently ==
    ASSUME Sound, EventInv, NEW k \in Clicks, Clicked(k) \/ V!Step(k), Single',
           ~V!TellJoin(k), ~V!TellLeave(k), ~V!TellUpdate(k), V!Who(k) \notin hasty' \cup silent'
    PROVE  \A c \in Channels :
              /\ ToldIn(V!Who(k), c)' <=> ToldIn(V!Who(k), c)
              /\ Sure(V!Who(k), c)' => Sure(V!Who(k), c) /\ flag'[V!Who(k)] = flag[V!Who(k)]
              /\ There(V!Who(k), c) => There(V!Who(k), c)'
              /\ Here(V!Who(k), c)' => Here(V!Who(k), c)
<1> DEFINE y == V!Who(k)
<1>0. y \in Users /\ y \in online /\ y \notin hasty
  BY ClickAlone, TaskAlone DEF Sound, VoiceAssumption, SilentInv, Alone
<1>1. Stage(k) /\ VoiceTypes /\ Single
  BY <1>0 DEF PlaceInv, PlaceOf, Sound
<1>2. CASE Clicked(k)
  <2>1. ~V!Unfinished(y) /\ voice_pc[k] = "new"
    BY <1>1, <1>2, ClickAlone
  <2>2. voice_pc'[k] \notin {"tellJoin", "tellOff", "tellOn", "tellLeave"} /\ UNCHANGED <<voice_row, flag>>
    BY <1>1, <1>2, ClickAlone DEF V!db
  <2> QED
    BY <1>1, <1>2, <2>1, <2>2, KnownByTask DEF There, Here, ToldIn, Sure
<1>3. CASE V!Step(k)
  <2>1. /\ Telling(y) <=> voice_pc[k] = "tellJoin"
        /\ Changing(y) <=> voice_pc[k] \in {"tellOff", "tellOn"}
        /\ \A c : Leaving(y, c) <=> voice_pc[k] = "tellLeave" /\ chan[k] = c
        /\ Telling(y)' <=> voice_pc'[k] = "tellJoin"
        /\ Changing(y)' <=> voice_pc'[k] \in {"tellOff", "tellOn"}
        /\ \A c : Leaving(y, c)' <=> voice_pc'[k] = "tellLeave" /\ chan'[k] = c
    BY <1>1, <1>3, KnownByTask, TaskAlone
  <2> SUFFICES ASSUME NEW c \in Channels
               PROVE  /\ ToldIn(y, c)' <=> ToldIn(y, c)
                      /\ Sure(y, c)' => Sure(y, c) /\ flag'[y] = flag[y]
                      /\ There(y, c) => There(y, c)'
                      /\ Here(y, c)' => Here(y, c)
    OBVIOUS
  <2> HIDE DEF y
  <2> USE <1>0, <1>1, <2>1 DEF Stage, There, Here, ToldIn, Sure, V!Goto, VoiceTypes, V!TypeOK, V!db,
     V!socket, V!client, V!task, V!past
  <2>2. ASSUME V!Subscribe(k) 
        PROVE  /\ ToldIn(y, c)' <=> ToldIn(y, c)
               /\ Sure(y, c)' => Sure(y, c) /\ flag'[y] = flag[y]
               /\ There(y, c) => There(y, c)'
               /\ Here(y, c)' => Here(y, c)
    BY <2>2 DEF V!Subscribe, y
  <2>3. ASSUME V!EnterLocally(k) 
        PROVE  /\ ToldIn(y, c)' <=> ToldIn(y, c)
               /\ Sure(y, c)' => Sure(y, c) /\ flag'[y] = flag[y]
               /\ There(y, c) => There(y, c)'
               /\ Here(y, c)' => Here(y, c)
    BY <2>3 DEF V!EnterLocally, y
  <2>4. ASSUME V!LeaveForJoin(k) 
        PROVE  /\ ToldIn(y, c)' <=> ToldIn(y, c)
               /\ Sure(y, c)' => Sure(y, c) /\ flag'[y] = flag[y]
               /\ There(y, c) => There(y, c)'
               /\ Here(y, c)' => Here(y, c)
    BY <2>4 DEF V!LeaveForJoin, y
  <2>5. ASSUME V!InsertRow(k) 
        PROVE  /\ ToldIn(y, c)' <=> ToldIn(y, c)
               /\ Sure(y, c)' => Sure(y, c) /\ flag'[y] = flag[y]
               /\ There(y, c) => There(y, c)'
               /\ Here(y, c)' => Here(y, c)
    <3>1. voice_pc[k] = "insert" /\ voice_row[y] = None /\ voice_pc'[k] = "tellJoin"
      BY <2>5 DEF V!InsertRow, V!Taken, y
    <3>2. ~ToldIn(y, c) /\ ~ToldIn(y, c)' /\ ~Sure(y, c)' /\ ~There(y, c) /\ ~Here(y, c)'
      BY <3>1, <1>0, <2>1 DEF Sound, VoiceAssumption
    <3> QED
      BY <3>2
  <2>6. ASSUME V!Fetch(k) 
        PROVE  /\ ToldIn(y, c)' <=> ToldIn(y, c)
               /\ Sure(y, c)' => Sure(y, c) /\ flag'[y] = flag[y]
               /\ There(y, c) => There(y, c)'
               /\ Here(y, c)' => Here(y, c)
    BY <2>6 DEF V!Fetch, y
  <2>7. ASSUME V!Fill(k) 
        PROVE  /\ ToldIn(y, c)' <=> ToldIn(y, c)
               /\ Sure(y, c)' => Sure(y, c) /\ flag'[y] = flag[y]
               /\ There(y, c) => There(y, c)'
               /\ Here(y, c)' => Here(y, c)
    BY <2>7 DEF V!Fill, y
  <2>8. ASSUME V!LeaveLocally(k) 
        PROVE  /\ ToldIn(y, c)' <=> ToldIn(y, c)
               /\ Sure(y, c)' => Sure(y, c) /\ flag'[y] = flag[y]
               /\ There(y, c) => There(y, c)'
               /\ Here(y, c)' => Here(y, c)
    BY <2>8 DEF V!LeaveLocally, y
  <2>9. ASSUME V!LeaveSelect(k) 
        PROVE  /\ ToldIn(y, c)' <=> ToldIn(y, c)
               /\ Sure(y, c)' => Sure(y, c) /\ flag'[y] = flag[y]
               /\ There(y, c) => There(y, c)'
               /\ Here(y, c)' => Here(y, c)
    BY <2>9 DEF V!LeaveSelect, y
  <2>10. ASSUME V!LeaveDelete(k) 
        PROVE  /\ ToldIn(y, c)' <=> ToldIn(y, c)
               /\ Sure(y, c)' => Sure(y, c) /\ flag'[y] = flag[y]
               /\ There(y, c) => There(y, c)'
               /\ Here(y, c)' => Here(y, c)
    <3>1. /\ voice_pc[k] = "leaveDelete" /\ voice_row[y] = chan[k] /\ voice_row[y] \in Channels
          /\ voice_pc'[k] = "tellLeave" /\ chan'[k] = chan[k] /\ voice_row'[y] = None
      BY <2>10 DEF V!LeaveDelete, y, Sound, VoiceAssumption
    <3>2. /\ (ToldIn(y, c) <=> voice_row[y] = c) /\ (ToldIn(y, c)' <=> chan[k] = c) /\ ~Sure(y, c)'
          /\ (There(y, c) <=> voice_row[y] = c) /\ (There(y, c)' <=> chan[k] = c) /\ ~Here(y, c)'
      BY <3>1 DEF Sound, VoiceAssumption
    <3> QED
      BY <3>1, <3>2
  <2>11. ASSUME V!Update(k) 
        PROVE  /\ ToldIn(y, c)' <=> ToldIn(y, c)
               /\ Sure(y, c)' => Sure(y, c) /\ flag'[y] = flag[y]
               /\ There(y, c) => There(y, c)'
               /\ Here(y, c)' => Here(y, c)
    BY <2>11 DEF V!Update, y
  <2>12. ASSUME V!KeepFlag(k) 
        PROVE  /\ ToldIn(y, c)' <=> ToldIn(y, c)
               /\ Sure(y, c)' => Sure(y, c) /\ flag'[y] = flag[y]
               /\ There(y, c) => There(y, c)'
               /\ Here(y, c)' => Here(y, c)
    BY <2>12 DEF V!KeepFlag, y
  <2>13. ASSUME Missed(k)
        PROVE  /\ ToldIn(y, c)' <=> ToldIn(y, c)
               /\ Sure(y, c)' => Sure(y, c) /\ flag'[y] = flag[y]
               /\ There(y, c) => There(y, c)'
               /\ Here(y, c)' => Here(y, c)
    <3>1. UNCHANGED <<voice_row, flag, chan>>
      BY <2>13 DEF Missed, V!JoinFails, V!LeaveFails, V!UpdateFails, V!FetchFails, V!Fails
    <3>2. /\ voice_pc[k] \notin {"tellJoin", "tellOff", "tellOn", "tellLeave"}
          /\ voice_pc'[k] \notin {"tellJoin", "tellOff", "tellOn", "tellLeave"}
      BY <2>13 DEF Missed, V!JoinFails, V!LeaveFails, V!UpdateFails, V!FetchFails, V!Fails
    <3> QED
      BY <2>1, <3>1, <3>2 DEF ToldIn, Sure, There, Here
  <2> QED
    BY <1>3, <2>2, <2>3, <2>4, <2>5, <2>6, <2>7, <2>8, <2>9, <2>10, <2>11, <2>12, <2>13
       DEF V!Step, Missed
<1> QED
  BY <1>2, <1>3

(* What a queue says stays right when no more is certain.                  *)
LEMMA EventsStay ==
    ASSUME NEW s, NEW y, NEW c, NEW told \in BOOLEAN, NEW sure \in BOOLEAN, NEW value,
           NEW old \in BOOLEAN, NEW secure \in BOOLEAN, NEW before,
           EventsRight(s, y, c, old, secure, before),
           told <=> old, sure => secure /\ value = before
    PROVE  EventsRight(s, y, c, told, sure, value)
  BY DEF EventsRight

(* A broadcast of a task, about its user and the channel he is in, keeps   *)
(* the queues right when it says how he is from now on.                    *)
LEMMA EventsTold ==
    ASSUME Sound, EventInv, NEW k \in Clicks, V!Step(k), chan[k] \in Channels,
           NEW kind \in {"joined", "left", "off", "on"}, V!Broadcast(chan[k], kind, V!Who(k)),
           subscribers' = subscribers, chan' = chan,
           V!Who(k) \notin hasty' \cup silent' =>
                 LET y == V!Who(k) IN
                 /\ \A c \in Channels \ {chan[k]} :
                       (ToldIn(y, c)' <=> ToldIn(y, c)) /\ (Sure(y, c)' => Sure(y, c) /\ flag'[y] = flag[y])
                 /\ kind = "joined" => ToldIn(y, chan[k])'
                 /\ kind = "left" => ~ToldIn(y, chan[k])'
                 /\ kind \in {"off", "on"} => ToldIn(y, chan[k])' /\ ToldIn(y, chan[k])
                 /\ Sure(y, chan[k])' =>
                       flag'[y] = Says([kind |-> kind, channel |-> chan[k], user |-> y])
    PROVE  EventInv'
<1> DEFINE e == [kind |-> kind, channel |-> chan[k], user |-> V!Who(k)]
<1>0. VoiceTypes /\ V!Who(k) \in Users /\ e \in V!Events /\ Alone(k) /\ voice_inbox \in [Users -> Seq(V!Events)]
  BY TaskAlone DEF Sound, VoiceAssumption, V!Events, VoiceTypes, V!TypeOK
<1>1. /\ voice_inbox' \in [Users -> Seq(V!Events)]
      /\ \A x \in Users : x \notin subscribers[chan[k]] => voice_inbox'[x] = voice_inbox[x]
      /\ \A x \in Users : x \in subscribers[chan[k]] => voice_inbox'[x] = Append(voice_inbox[x], e)
  BY <1>0, Broadcasting DEF VoiceTypes
<1>2. e.kind = kind /\ e.channel = chan[k] /\ e.user = V!Who(k)
  OBVIOUS
<1> HIDE DEF e
<1>3. ASSUME NEW x \in Users PROVE EventsFrom(x)'
  <2>1. \A i \in DOMAIN voice_inbox'[x] :
            \/ i \in DOMAIN voice_inbox[x] /\ voice_inbox'[x][i] = voice_inbox[x][i]
            \/ voice_inbox'[x][i] = e /\ x \in subscribers[chan[k]]
    <3>1. CASE x \in subscribers[chan[k]]
      <4>1. voice_inbox'[x] = Append(voice_inbox[x], e) /\ voice_inbox[x] \in Seq(V!Events)
        BY <1>0, <1>1, <3>1
      <4> QED
        BY <1>0, <3>1, <4>1
    <3>2. CASE x \notin subscribers[chan[k]]
      <4>1. voice_inbox'[x] = voice_inbox[x]
        BY <1>1, <3>2
      <4> QED
        BY <4>1
    <3> QED
      BY <3>1, <3>2
  <2> QED
    BY <1>2, <1>3, <2>1 DEF EventsFrom, EventInv
<1>4. ASSUME NEW x \in Users, NEW y \in Users \ (hasty' \cup silent'), NEW c \in Channels
      PROVE  EventsRight(voice_inbox[x], y, c, ToldIn(y, c), Sure(y, c), flag[y])
  BY <1>0, <1>4 DEF EventInv, Alone
<1>5. ASSUME NEW x \in Users, NEW y \in Users \ (hasty' \cup silent'), NEW c \in Channels
      PROVE  EventsRight(voice_inbox'[x], y, c, ToldIn(y, c)', Sure(y, c)', flag'[y])
  <2>0. /\ ToldIn(y, c) \in BOOLEAN /\ ToldIn(y, c)' \in BOOLEAN
        /\ Sure(y, c) \in BOOLEAN /\ Sure(y, c)' \in BOOLEAN
    BY DEF ToldIn, Here, Sure, Leaving
  <2>1. CASE y # V!Who(k)
    <3>1. Known(y)
      BY <1>0, <2>1, KnownStays DEF Alone
    <3>2. ~VoiceAbout(e, y, c) /\ ~Mark(e, y, c)
      BY <1>2, <2>1 DEF VoiceAbout, Mark
    <3>3. EventsRight(Append(voice_inbox[x], e), y, c, ToldIn(y, c)', Sure(y, c)', flag'[y])
      BY <1>0, <1>4, <2>0, <3>1, <3>2, EventsAppended DEF Known
    <3>4. EventsRight(voice_inbox[x], y, c, ToldIn(y, c)', Sure(y, c)', flag'[y])
      BY <1>4, <2>0, <3>1, EventsStay DEF Known
    <3> QED
      BY <1>1, <3>3, <3>4
  <2>2. CASE y = V!Who(k) /\ c # chan[k]
    <3>1. (ToldIn(y, c)' <=> ToldIn(y, c)) /\ (Sure(y, c)' => Sure(y, c) /\ flag'[y] = flag[y])
      BY <2>2
    <3>2. ~VoiceAbout(e, y, c) /\ ~Mark(e, y, c)
      BY <1>2, <2>2 DEF VoiceAbout, Mark
    <3>3. EventsRight(Append(voice_inbox[x], e), y, c, ToldIn(y, c)', Sure(y, c)', flag'[y])
      BY <1>0, <1>4, <2>0, <3>1, <3>2, EventsAppended
    <3>4. EventsRight(voice_inbox[x], y, c, ToldIn(y, c)', Sure(y, c)', flag'[y])
      BY <1>4, <2>0, <3>1, EventsStay
    <3> QED
      BY <1>1, <3>3, <3>4
  <2>3. CASE y = V!Who(k) /\ c = chan[k]
    <3>1. CASE x \in subscribers[chan[k]]
      <4>1. /\ kind = "joined" => ToldIn(y, c)'
            /\ kind = "left" => ~ToldIn(y, c)'
            /\ kind \in {"off", "on"} => ToldIn(y, c)' /\ ToldIn(y, c)
            /\ Sure(y, c)' => flag'[y] = Says(e)
        BY <2>3 DEF e
      <4>2. Mark(e, y, c) => (e.kind = "joined" <=> ToldIn(y, c)')
        BY <1>2, <4>1 DEF Mark
      <4>3. VoiceAbout(e, y, c) /\ ~Mark(e, y, c) => ToldIn(y, c)' /\ ToldIn(y, c)
        BY <1>2, <4>1 DEF Mark
      <4>4. VoiceAbout(e, y, c)
        BY <1>2, <2>3 DEF VoiceAbout
      <4>5. EventsRight(Append(voice_inbox[x], e), y, c, ToldIn(y, c)', Sure(y, c)', flag'[y])
        BY <1>0, <1>4, <2>0, <4>1, <4>2, <4>3, <4>4, EventsAppended
      <4> QED
        BY <1>1, <3>1, <4>5
    <3>2. CASE x \notin subscribers[chan[k]]
      <4>1. Abouts(voice_inbox[x], y, c) = {}
        BY <2>3, <3>2 DEF EventInv, EventsFrom, Abouts, VoiceAbout
      <4> QED
        BY <1>1, <3>2, <4>1, NoEvents
    <3> QED
      BY <3>1, <3>2
  <2> QED
    BY <2>1, <2>2, <2>3
<1> QED
  BY <1>3, <1>5 DEF EventInv

(* A step that is no broadcast adds nothing to a queue.                    *)
LEMMA Quietly ==
    ASSUME VoiceTypes, NEW k \in Clicks, Clicked(k) \/ V!Step(k),
           ~V!TellJoin(k), ~V!TellLeave(k), ~V!TellUpdate(k)
    PROVE  UNCHANGED <<voice_inbox, subscribers>>
  BY ClickAlone
  DEF V!Step, V!Subscribe, V!EnterLocally, V!LeaveForJoin, V!InsertRow, V!Fetch, V!Fill, V!LeaveLocally,
     V!LeaveSelect,
      V!LeaveDelete, V!Update, V!KeepFlag, V!JoinFails, V!LeaveFails, V!UpdateFails, V!FetchFails, V!Fails, V!socket

(* The queues stay right.                                                  *)
LEMMA EventStep == Sound /\ EventInv /\ [V!Next]_(V!vars) => EventInv'
<1> SUFFICES ASSUME Sound, EventInv, [V!Next]_(V!vars) PROVE EventInv'
  OBVIOUS
<1>0. VoiceTypes /\ Single /\ Single' /\ PlaceInv /\ VoiceAssumption /\ SilentInv
  BY SingleStep DEF Sound
<1> DEFINE Right(x, y, c) == EventsRight(voice_inbox[x], y, c, ToldIn(y, c), Sure(y, c), flag[y])
<1>1. ASSUME NEW k \in Clicks, Clicked(k) \/ V!Step(k), UNCHANGED <<voice_inbox, subscribers>>,
             ~V!TellJoin(k), ~V!TellLeave(k), ~V!TellUpdate(k)
      PROVE  EventInv'
  <2>1. Alone(k)
    BY <1>0, <1>1, ClickAlone, TaskAlone
  <2>2. ASSUME NEW x \in Users, NEW y \in Users \ (hasty' \cup silent'), NEW c \in Channels
        PROVE  EventsRight(voice_inbox[x], y, c, ToldIn(y, c)', Sure(y, c)', flag'[y])
    <3>1. (ToldIn(y, c)' <=> ToldIn(y, c)) /\ (Sure(y, c)' => Sure(y, c) /\ flag'[y] = flag[y])
      <4>1. CASE y = V!Who(k)
        BY <1>0, <1>1, <2>2, <4>1, KnownSilently
      <4>2. CASE y # V!Who(k)
        BY <2>1, <4>2, KnownStays DEF Alone, Known
      <4> QED
        BY <4>1, <4>2
    <3>2. EventsRight(voice_inbox[x], y, c, ToldIn(y, c), Sure(y, c), flag[y])
      BY <2>1, <2>2 DEF EventInv, Alone
    <3>3. /\ ToldIn(y, c) \in BOOLEAN /\ ToldIn(y, c)' \in BOOLEAN
          /\ Sure(y, c) \in BOOLEAN /\ Sure(y, c)' \in BOOLEAN
      BY DEF ToldIn, Here, Sure, Leaving
    <3> QED
      BY <3>1, <3>2, <3>3, EventsStay
  <2> QED
    BY <1>1, <2>2 DEF EventInv, EventsFrom
<1>2. ASSUME NEW k \in Clicks, V!TellJoin(k) \/ V!TellLeave(k) \/ V!TellUpdate(k) PROVE EventInv'
  <2> DEFINE y == V!Who(k)
  <2>0. V!Step(k) /\ chan[k] \in Channels /\ subscribers' = subscribers /\ Alone(k) /\ chan' = chan
        /\ UNCHANGED <<voice_row, flag>>
    BY <1>0, <1>2, TaskAlone DEF V!Step, V!TellJoin, V!TellLeave, V!TellUpdate, VoiceTypes, Directed, V!db
  <2>1. ASSUME y \notin hasty' \cup silent'
        PROVE  /\ Stage(k)
               /\ Telling(y) <=> voice_pc[k] = "tellJoin"
               /\ Changing(y) <=> voice_pc[k] \in {"tellOff", "tellOn"}
               /\ \A c : Leaving(y, c) <=> voice_pc[k] = "tellLeave" /\ chan[k] = c
               /\ Telling(y)' <=> voice_pc'[k] = "tellJoin"
               /\ Changing(y)' <=> voice_pc'[k] \in {"tellOff", "tellOn"}
               /\ \A c : Leaving(y, c)' <=> voice_pc'[k] = "tellLeave" /\ chan'[k] = c
    <3>1. y \in online \ hasty /\ voice_pc[k] \notin V!Idle
      BY <1>0, <2>0, <2>1, TaskAlone DEF SilentInv, Alone, VoiceAssumption
    <3>2. Stage(k)
      BY <1>0, <3>1 DEF PlaceInv, PlaceOf
    <3> QED
      BY <1>0, <2>0, <2>1, <3>1, <3>2, KnownByTask
  <2>2. voice_pc[k] \in V!Labels /\ voice_pc' = [voice_pc EXCEPT ![k] = voice_pc'[k]] /\ chan[k] # None
    BY <1>0, <1>2, <2>0 DEF V!TellJoin, V!TellLeave, V!TellUpdate, V!Goto, VoiceTypes, V!TypeOK,
       VoiceAssumption
  <2>3. CASE V!TellJoin(k)
    <3>1. voice_pc[k] = "tellJoin" /\ voice_pc'[k] = "fetch" /\ V!Broadcast(chan[k], "joined", y)
      BY <1>0, <2>3 DEF V!TellJoin, V!Goto, VoiceTypes, V!TypeOK
    <3>2. Says([kind |-> "joined", channel |-> chan[k], user |-> y]) = "off"
      BY DEF Says
    <3>3. ASSUME y \notin hasty' \cup silent'
          PROVE  /\ \A c \in Channels \ {chan[k]} :
                       (ToldIn(y, c)' <=> ToldIn(y, c)) /\ (Sure(y, c)' => Sure(y, c) /\ flag'[y] = flag[y])
                 /\ ToldIn(y, chan[k])'
                 /\ flag'[y] = "off"
      <4> HIDE DEF y
      <4>1. voice_row[y] = chan[k] /\ flag[y] = "off"
        BY <2>1, <3>1, <3>3 DEF Stage, y
      <4> QED
        BY <2>0, <2>1, <3>1, <3>3, <4>1 DEF ToldIn, Here, Sure
    <3> QED
      BY <2>0, <3>1, <3>2, <3>3, EventsTold
  <2>4. CASE V!TellLeave(k)
    <3>1. voice_pc[k] = "tellLeave" /\ voice_pc'[k] = "exit" /\ V!Broadcast(chan[k], "left", y)
      BY <1>0, <2>4 DEF V!TellLeave, V!Goto, VoiceTypes, V!TypeOK
    <3>2. ASSUME y \notin hasty' \cup silent'
          PROVE  /\ \A c \in Channels \ {chan[k]} :
                       (ToldIn(y, c)' <=> ToldIn(y, c)) /\ (Sure(y, c)' => Sure(y, c) /\ flag'[y] = flag[y])
                 /\ ~ToldIn(y, chan[k])'
                 /\ ~Sure(y, chan[k])'
      <4> HIDE DEF y
      <4>1. voice_row[y] = None
        BY <2>1, <3>1, <3>2 DEF Stage, y
      <4> QED
        BY <2>0, <2>1, <2>2, <3>1, <3>2, <4>1, <1>0 DEF ToldIn, Here, Sure, VoiceAssumption
    <3> QED
      BY <2>0, <3>1, <3>2, EventsTold
  <2>5. CASE V!TellUpdate(k)
    <3>1. /\ voice_pc[k] \in {"tellOff", "tellOn"} /\ voice_pc'[k] \in {"keepOff", "keepOn"}
          /\ V!Broadcast(chan[k], V!ValueOf(k), y) /\ V!ValueOf(k) \in {"off", "on"}
      BY <1>0, <2>5 DEF V!TellUpdate, V!Goto, VoiceTypes, V!TypeOK, V!ValueOf
    <3>2. Says([kind |-> V!ValueOf(k), channel |-> chan[k], user |-> y]) = V!ValueOf(k)
      BY <3>1 DEF Says
    <3>3. ASSUME y \notin hasty' \cup silent'
          PROVE  /\ \A c \in Channels \ {chan[k]} :
                       (ToldIn(y, c)' <=> ToldIn(y, c)) /\ (Sure(y, c)' => Sure(y, c) /\ flag'[y] = flag[y])
                 /\ ToldIn(y, chan[k])' /\ ToldIn(y, chan[k])
                 /\ flag'[y] = V!ValueOf(k)
      <4> HIDE DEF y
      <4>1. voice_row[y] = chan[k] /\ flag[y] = V!ValueOf(k)
        BY <2>1, <3>1, <3>3 DEF Stage, y
      <4> QED
        BY <2>0, <2>1, <3>1, <3>3, <4>1 DEF ToldIn, Here, Sure
    <3> QED
      BY <2>0, <3>1, <3>2, <3>3, EventsTold
  <2> QED
    BY <1>2, <2>3, <2>4, <2>5
<1>3. ASSUME UNCHANGED <<voice_pc, chan, hasty, flag>>, silent \subseteq silent',
             \A y \in Users \ silent' : voice_row'[y] = voice_row[y],
             \A x \in Users : EventsFrom(x)',
             \A x \in Users : voice_inbox'[x] = voice_inbox[x] \/ voice_inbox'[x] = <<>>
                              \/ (voice_inbox[x] # <<>> /\ voice_inbox'[x] = Tail(voice_inbox[x]))
      PROVE  EventInv'
  <2> SUFFICES ASSUME NEW x \in Users, NEW y \in Users \ (hasty' \cup silent'), NEW c \in Channels
               PROVE  EventsRight(voice_inbox'[x], y, c, ToldIn(y, c)', Sure(y, c)', flag'[y])
    BY <1>3 DEF EventInv
  <2>1. (ToldIn(y, c)' <=> ToldIn(y, c)) /\ (Sure(y, c)' <=> Sure(y, c)) /\ flag'[y] = flag[y]
    BY <1>3 DEF ToldIn, Here, Sure, Telling, Changing, Leaving
  <2>2. EventsRight(voice_inbox[x], y, c, ToldIn(y, c), Sure(y, c), flag[y])
    BY <1>3 DEF EventInv
  <2>3. /\ ToldIn(y, c) \in BOOLEAN /\ ToldIn(y, c)' \in BOOLEAN
        /\ Sure(y, c) \in BOOLEAN /\ Sure(y, c)' \in BOOLEAN
    BY DEF ToldIn, Here, Sure, Leaving
  <2>4. EventsRight(voice_inbox[x], y, c, ToldIn(y, c)', Sure(y, c)', flag'[y])
    BY <2>1, <2>2, <2>3, EventsStay
  <2>5. voice_inbox'[x] = <<>> => Abouts(voice_inbox'[x], y, c) = {}
    BY DEF Abouts
  <2>6. voice_inbox[x] # <<>> => EventsRight(Tail(voice_inbox[x]), y, c, ToldIn(y, c)', Sure(y, c)', flag'[y])
    BY <1>0, <2>3, <2>4, EventsRead DEF VoiceTypes, V!TypeOK
  <2> QED
    BY <1>3, <2>4, <2>5, <2>6, NoEvents
<1>4. ASSUME NEW u \in Users, V!ServeSubscribe(u) \/ V!ReadEvent(u) \/ V!Disconnect(u) PROVE EventInv'
  <2>1. UNCHANGED <<voice_pc, chan, hasty, flag>> /\ silent \subseteq silent'
        /\ \A y \in Users \ silent' : voice_row'[y] = voice_row[y]
    BY <1>0, <1>4 DEF V!ServeSubscribe, V!ReadEvent, V!Disconnect, V!task, V!past, V!db, VoiceTypes, V!TypeOK
  <2>2. \A x \in Users : voice_inbox'[x] = voice_inbox[x] \/ voice_inbox'[x] = <<>>
                         \/ (voice_inbox[x] # <<>> /\ voice_inbox'[x] = Tail(voice_inbox[x]))
    BY <1>0, <1>4 DEF V!ServeSubscribe, V!ReadEvent, V!Disconnect, VoiceTypes, V!TypeOK
  <2>3. ASSUME NEW x \in Users PROVE EventsFrom(x)'
    <3>1. EventsFrom(x) /\ voice_inbox[x] \in Seq(V!Events) /\ subscribers \in [Channels -> SUBSET Users]
      BY <1>0 DEF EventInv, VoiceTypes, V!TypeOK
    <3>2. \A i \in DOMAIN voice_inbox[x] : voice_inbox[x][i].channel \in Channels
      <4>1. \A i \in DOMAIN voice_inbox[x] : voice_inbox[x][i] \in V!Events
        BY <3>1
      <4> QED
        BY <4>1 DEF V!Events
    <3>3. CASE V!ServeSubscribe(u)
      <4>1. Head(voice_requests[u]) \in Channels
        BY <1>0, <3>3 DEF V!ServeSubscribe, VoiceTypes, V!TypeOK
      <4>2. voice_inbox' = voice_inbox /\ \A c \in Channels : subscribers[c] \subseteq subscribers'[c]
        BY <1>0, <3>1, <3>3, <4>1 DEF V!ServeSubscribe
      <4> QED
        BY <3>1, <3>2, <4>2 DEF EventsFrom
    <3>4. CASE V!ReadEvent(u)
      <4>1. subscribers' = subscribers
        BY <3>4 DEF V!ReadEvent
      <4>2. voice_inbox'[x] = voice_inbox[x] \/ (voice_inbox[x] # <<>> /\ voice_inbox'[x] = Tail(voice_inbox[x]))
        BY <1>0, <3>4 DEF V!ReadEvent, VoiceTypes, V!TypeOK
      <4>3. \A i \in DOMAIN Tail(voice_inbox[x]) : voice_inbox[x] # <<>> =>
                i + 1 \in DOMAIN voice_inbox[x] /\ Tail(voice_inbox[x])[i] = voice_inbox[x][i + 1]
        BY <3>1
      <4> QED
        BY <3>1, <4>1, <4>2, <4>3 DEF EventsFrom
    <3>5. CASE V!Disconnect(u)
      <4>1. CASE x = u
        <5>1. voice_inbox'[x] = <<>>
          BY <1>0, <3>5, <4>1 DEF V!Disconnect, VoiceTypes, V!TypeOK
        <5> QED
          BY <5>1 DEF EventsFrom
      <4>2. CASE x # u
        <5>1. voice_inbox'[x] = voice_inbox[x] /\ \A c \in Channels : x \in subscribers[c] => x \in subscribers'[c]
          BY <1>0, <3>5, <4>2 DEF V!Disconnect, VoiceTypes, V!TypeOK
        <5> QED
          BY <3>1, <3>2, <5>1 DEF EventsFrom
      <4> QED
        BY <4>1, <4>2
    <3> QED
      BY <1>4, <3>3, <3>4, <3>5
  <2> QED
    BY <1>3, <2>1, <2>2, <2>3
<1>5. UNCHANGED V!vars => EventInv'
  BY DEF V!vars, V!db, V!socket, V!task, V!past, EventInv, EventsFrom, ToldIn, Here, Sure, Telling,
     Changing, Leaving
<1>6. ASSUME NEW k \in Clicks, Clicked(k) \/ V!Step(k), ~V!TellJoin(k), ~V!TellLeave(k), ~V!TellUpdate(k)
      PROVE  UNCHANGED <<voice_inbox, subscribers>>
  BY <1>0, <1>6, Quietly
<1> QED
  BY <1>1, <1>2, <1>4, <1>5, <1>6 DEF V!Next, Clicked

-----------------------------------------------------------------------------
(* A queue with one more event has no event about y and c only if it had   *)
(* none and the new one is not about them.                                 *)
LEMMA NoneAppended ==
    ASSUME NEW s \in Seq(V!Events), NEW e \in V!Events, NEW y, NEW c
    PROVE  /\ Marks(Append(s, e), y, c) = {} => Marks(s, y, c) = {} /\ ~Mark(e, y, c)
           /\ Abouts(Append(s, e), y, c) = {} => Abouts(s, y, c) = {} /\ ~VoiceAbout(e, y, c)
<1> DEFINE t == Append(s, e)
<1>1. /\ DOMAIN s = 1..Len(s) /\ DOMAIN t = 1..(Len(s) + 1) /\ Len(s) \in Nat
      /\ \A i \in DOMAIN s : t[i] = s[i]
      /\ t[Len(s) + 1] = e
  OBVIOUS
<1> HIDE DEF t
<1>2. Len(s) + 1 \in DOMAIN t /\ DOMAIN s \subseteq DOMAIN t
  BY <1>1
<1>3. Marks(t, y, c) = {} => Marks(s, y, c) = {} /\ ~Mark(e, y, c)
  BY <1>1, <1>2 DEF Marks
<1>4. Abouts(t, y, c) = {} => Abouts(s, y, c) = {} /\ ~VoiceAbout(e, y, c)
  BY <1>1, <1>2 DEF Abouts
<1> QED
  BY <1>3, <1>4 DEF t

(* When nothing more about y and c is to come, the event that is read says *)
(* how things are.                                                         *)
LEMMA HeadSays ==
    ASSUME NEW s \in Seq(V!Events), s # <<>>, NEW y, NEW c,
           NEW told \in BOOLEAN, NEW sure \in BOOLEAN, NEW value,
           EventsRight(s, y, c, told, sure, value)
    PROVE  LET e == Head(s) IN
           /\ Marks(Tail(s), y, c) = {} /\ Mark(e, y, c) => (e.kind = "joined" <=> told)
           /\ Marks(Tail(s), y, c) = {} /\ VoiceAbout(e, y, c) /\ ~Mark(e, y, c) => told
           /\ Abouts(Tail(s), y, c) = {} /\ VoiceAbout(e, y, c) /\ sure => Says(e) = value
           /\ Marks(Tail(s), y, c) = {} /\ ~Mark(e, y, c) => Marks(s, y, c) = {}
           /\ Abouts(Tail(s), y, c) = {} /\ ~VoiceAbout(e, y, c) => Abouts(s, y, c) = {}
<1> DEFINE t == Tail(s)
<1> DEFINE e == Head(s)
<1>1. /\ DOMAIN s = 1..Len(s) /\ DOMAIN t = 1..(Len(s) - 1) /\ Len(s) \in Nat /\ 1 \in DOMAIN s
      /\ \A i \in DOMAIN t : t[i] = s[i + 1]
      /\ e = s[1]
  OBVIOUS
<1> HIDE DEF t, e
<1>2. \A i \in DOMAIN s : i \in Nat /\ (i = 1 \/ (i - 1 \in DOMAIN t /\ t[i - 1] = s[i]))
  BY <1>1
<1>3. Marks(t, y, c) = {} => \A i \in Marks(s, y, c) : i = 1
  BY <1>2 DEF Marks
<1>4. Abouts(t, y, c) = {} => \A i \in Abouts(s, y, c) : i = 1
  BY <1>2 DEF Abouts
<1>5. /\ Mark(e, y, c) <=> 1 \in Marks(s, y, c)
      /\ VoiceAbout(e, y, c) <=> 1 \in Abouts(s, y, c)
  BY <1>1 DEF Marks, Abouts
<1>6. Marks(t, y, c) = {} /\ Mark(e, y, c) => (e.kind = "joined" <=> told)
  BY <1>1, <1>3, <1>5 DEF EventsRight
<1>7. Marks(t, y, c) = {} /\ ~Mark(e, y, c) => Marks(s, y, c) = {}
  BY <1>3, <1>5
<1>8. Abouts(t, y, c) = {} /\ ~VoiceAbout(e, y, c) => Abouts(s, y, c) = {}
  BY <1>4, <1>5
<1>9. Marks(t, y, c) = {} /\ VoiceAbout(e, y, c) /\ ~Mark(e, y, c) => told
  BY <1>5, <1>7 DEF EventsRight
<1>10. Abouts(t, y, c) = {} /\ VoiceAbout(e, y, c) /\ sure => Says(e) = value
  BY <1>1, <1>4, <1>5 DEF EventsRight
<1> QED
  BY <1>6, <1>7, <1>8, <1>9, <1>10 DEF t, e

-----------------------------------------------------------------------------
(* What ViewInv says of one who shows, one who is shown, and a channel.    *)
ViewOf(x, y, c) ==
    /\ Subscribed(x, c) /\ Unaware(x, y, c)
    /\ y \in Viewed => ShownIsThere(x, y, c) /\ ThereIsShown(x, y, c) /\ ShownRight(x, y, c)

(* It stays true when nothing that x shows changes and y neither comes nor *)
(* goes, but what the events bring.                                        *)
LEMMA ViewStays ==
    ASSUME NEW x, NEW y, NEW c, ViewOf(x, y, c), y \in Viewed' => y \in Viewed,
           x \in subscribers'[c] <=> x \in subscribers[c],
           shown'[x][y] = shown[x][y], <<x, y>> \in stale' <=> <<x, y>> \in stale,
           Entering(x) => Entering(x)', Bringing(x, y) => Bringing(x, y)',
           Marks(voice_inbox'[x], y, c) = {} => Marks(voice_inbox[x], y, c) = {},
           Abouts(voice_inbox'[x], y, c) = {} => Abouts(voice_inbox[x], y, c) = {},
           y \in Viewed' =>
               /\ There(y, c) => There(y, c)'
               /\ Here(y, c)' => Here(y, c)
               /\ Sure(y, c)' => Sure(y, c) /\ flag'[y] = flag[y]
    PROVE  ViewOf(x, y, c)'
<1>1. Subscribed(x, c)' /\ Unaware(x, y, c)'
  BY DEF ViewOf, Subscribed, Unaware
<1>2. y \in Viewed' => ShownIsThere(x, y, c)'
  BY DEF ViewOf, ShownIsThere
<1>3. y \in Viewed' => ThereIsShown(x, y, c)'
  BY DEF ViewOf, ThereIsShown
<1>4. y \in Viewed' => ShownRight(x, y, c)'
  BY DEF ViewOf, ShownRight
<1> QED
  BY <1>1, <1>2, <1>3, <1>4 DEF ViewOf

(* What x shows stays when it is another task's turn than one of x or y.   *)
LEMMA EnteringStays ==
    ASSUME NEW x, \A k \in Clicks : V!Who(k) = x => voice_pc'[k] = voice_pc[k] /\ found'[k] = found[k]
    PROVE  (Entering(x)' <=> Entering(x)) /\ \A y : Bringing(x, y)' <=> Bringing(x, y)
  BY DEF Entering, Bringing

(* The task of x itself, who has no other.                                 *)
LEMMA EnteringByTask ==
    ASSUME NEW k \in Clicks, V!Who(k) \notin hasty', VoiceTypes, Single, Single',
           (V!Step(k) /\ voice_pc[k] \notin V!Idle) \/ (Clicked(k) /\ ~V!Unfinished(V!Who(k)) /\ voice_pc[k] = "new")
    PROVE  LET x == V!Who(k) IN
           /\ Entering(x) <=> voice_pc[k] \in {"delete", "insert", "tellJoin", "fetch", "revert"}
           /\ Entering(x)' <=> voice_pc'[k] \in {"delete", "insert", "tellJoin", "fetch", "revert"}
           /\ \A y : Bringing(x, y) <=> voice_pc[k] = "fill" /\ found[k][y] # "absent"
           /\ \A y : Bringing(x, y)' <=> voice_pc'[k] = "fill" /\ found'[k][y] # "absent"
<1>1. Alone(k)
  BY TaskAlone, ClickAlone
<1>2. \A j \in Clicks : j # k /\ V!Who(j) = V!Who(k) => voice_pc[j] \in V!Idle /\ voice_pc'[j] \in V!Idle
  BY <1>1 DEF Single, Alone, V!Unfinished
<1> QED
  BY <1>2 DEF Entering, Bringing, V!Idle

(* What others know of y stays right for x when it is y's task.            *)
LEMMA ViewByOther ==
    ASSUME Sound, Single', EventInv, NEW k \in Clicks, Clicked(k) \/ V!Step(k),
           NEW x \in Users, NEW y \in Users, NEW c \in Channels, x # y, x # V!Who(k),
           local'[x] = c, ViewOf(x, y, c)
    PROVE  ViewOf(x, y, c)'
<1>0. /\ VoiceAssumption /\ VoiceTypes /\ Single /\ Alone(k) /\ Untouched(x) /\ PlaceInv /\ SilentInv
      /\ V!Who(k) \in Users /\ voice_inbox[x] \in Seq(V!Events)
  BY ClickAlone, TaskAlone DEF Sound, Alone, VoiceAssumption, VoiceTypes, V!TypeOK
<1>1. /\ Entering(x)' <=> Entering(x)
      /\ Bringing(x, y)' <=> Bringing(x, y)
      /\ shown'[x][y] = shown[x][y] /\ (<<x, y>> \in stale' <=> <<x, y>> \in stale)
      /\ (y \in Viewed' => y \in Viewed)
  <2>1. (Entering(x)' <=> Entering(x)) /\ (Bringing(x, y)' <=> Bringing(x, y))
    BY <1>0, EnteringStays DEF Alone
  <2> QED
    BY <1>0, <2>1 DEF Alone, Untouched, Viewed
<1>2. CASE ~V!TellJoin(k) /\ ~V!TellLeave(k) /\ ~V!TellUpdate(k)
  <2>1. UNCHANGED <<voice_inbox, subscribers>>
    BY <1>0, <1>2, Quietly
  <2>2. ASSUME y \in Viewed'
        PROVE  /\ There(y, c) => There(y, c)'
               /\ Here(y, c)' => Here(y, c)
               /\ Sure(y, c)' => Sure(y, c) /\ flag'[y] = flag[y]
    <3>1. CASE y = V!Who(k)
      BY <1>2, <2>2, <3>1, KnownSilently DEF Viewed
    <3>2. CASE y # V!Who(k)
      BY <1>0, <3>2, KnownStays DEF Alone, Known, There, Here, Untouched
    <3> QED
      BY <3>1, <3>2
  <2> QED
    BY <1>1, <2>1, <2>2, ViewStays
<1>3. CASE V!TellJoin(k) \/ V!TellLeave(k) \/ V!TellUpdate(k)
  <2>0. chan[k] \in Channels /\ chan' = chan /\ UNCHANGED <<voice_row, flag, subscribers>> /\ V!Step(k)
    BY <1>0, <1>3 DEF V!Step, V!TellJoin, V!TellLeave, V!TellUpdate, VoiceTypes, Directed, V!db
  <2>1. PICK kind \in {"joined", "left", "off", "on"} :
          /\ V!Broadcast(chan[k], kind, V!Who(k))
          /\ V!TellUpdate(k) \/ kind \in {"joined", "left"}
    BY <1>3 DEF V!TellJoin, V!TellLeave, V!TellUpdate, V!ValueOf
  <2> DEFINE e == [kind |-> kind, channel |-> chan[k], user |-> V!Who(k)]
  <2>2. e \in V!Events /\ e.kind = kind /\ e.channel = chan[k] /\ e.user = V!Who(k)
    BY <1>0, <2>0 DEF V!Events
  <2>3. /\ x \in subscribers[chan[k]] => voice_inbox'[x] = Append(voice_inbox[x], e)
        /\ x \notin subscribers[chan[k]] => voice_inbox'[x] = voice_inbox[x]
    BY <1>0, <2>0, <2>1, Broadcasting DEF VoiceTypes
  <2> HIDE DEF e
  <2>4. /\ Marks(voice_inbox'[x], y, c) = {} => Marks(voice_inbox[x], y, c) = {}
        /\ Abouts(voice_inbox'[x], y, c) = {} => Abouts(voice_inbox[x], y, c) = {}
    BY <1>0, <2>2, <2>3, NoneAppended
  <2>5. CASE y # V!Who(k)
    <3>1. /\ There(y, c) => There(y, c)'
          /\ Here(y, c)' => Here(y, c)
          /\ Sure(y, c)' => Sure(y, c) /\ flag'[y] = flag[y]
      BY <1>0, <2>5, KnownStays DEF Alone, Known, There, Here, Untouched
    <3> QED
      BY <1>1, <2>0, <2>4, <3>1, ViewStays
  <2>6. ASSUME y = V!Who(k), y \in Viewed'
        PROVE  /\ Stage(k)
               /\ Telling(y) <=> voice_pc[k] = "tellJoin"
               /\ Changing(y) <=> voice_pc[k] \in {"tellOff", "tellOn"}
               /\ \A d : Leaving(y, d) <=> voice_pc[k] = "tellLeave" /\ chan[k] = d
               /\ Telling(y)' <=> voice_pc'[k] = "tellJoin"
               /\ Changing(y)' <=> voice_pc'[k] \in {"tellOff", "tellOn"}
               /\ \A d : Leaving(y, d)' <=> voice_pc'[k] = "tellLeave" /\ chan'[k] = d
    <3>1. y \in online \ hasty /\ voice_pc[k] \notin V!Idle /\ V!Who(k) \notin hasty'
      BY <1>0, <2>0, <2>6, TaskAlone DEF SilentInv, Alone, Viewed
    <3>2. Stage(k)
      BY <1>0, <2>6, <3>1 DEF PlaceInv, PlaceOf
    <3> QED
      BY <1>0, <2>0, <2>6, <3>1, <3>2, KnownByTask
  <2>7. voice_pc[k] \in V!Labels /\ voice_pc'[k] \notin {"tellJoin", "tellLeave", "tellOff", "tellOn"}
    BY <1>0, <1>3 DEF V!TellJoin, V!TellLeave, V!TellUpdate, V!Goto, VoiceTypes, V!TypeOK
  <2>8. CASE y = V!Who(k) /\ c # chan[k]
    <3>1. ASSUME y \in Viewed'
          PROVE  /\ There(y, c) => There(y, c)'
                 /\ Here(y, c)' => Here(y, c)
                 /\ Sure(y, c)' => Sure(y, c) /\ flag'[y] = flag[y]
      <4>1. voice_pc[k] \in {"tellJoin", "tellOff", "tellOn"} => voice_row[y] = chan[k]
        BY <2>6, <2>8, <3>1 DEF Stage
      <4> QED
        BY <1>3, <2>0, <2>6, <2>7, <2>8, <3>1, <4>1
        DEF There, Here, Sure, V!TellJoin, V!TellLeave, V!TellUpdate
    <3> QED
      BY <1>1, <2>0, <2>4, <3>1, ViewStays
  <2>9. CASE y = V!Who(k) /\ c = chan[k]
    <3>1. CASE x \notin subscribers[c]
      <4>1. shown[x][y] = "absent" /\ Entering(x)
        BY <3>1 DEF ViewOf, Subscribed, Unaware
      <4> QED
        BY <1>1, <2>0, <3>1, <4>1
        DEF ViewOf, Subscribed, Unaware, ShownIsThere, ThereIsShown, ShownRight
    <3>2. CASE x \in subscribers[c]
      <4>1. Abouts(voice_inbox'[x], y, c) # {} /\ (~V!TellUpdate(k) => Marks(voice_inbox'[x], y, c) # {})
        BY <1>0, <2>1, <2>2, <2>3, <2>9, <3>2, NoneAppended DEF VoiceAbout, Mark
      <4>2. Subscribed(x, c)' /\ Unaware(x, y, c)'
        BY <1>1, <2>0, <3>2 DEF Subscribed, Unaware
      <4>3. ShownRight(x, y, c)'
        BY <4>1 DEF ShownRight
      <4>4. CASE ~V!TellUpdate(k)
        BY <2>9, <4>1, <4>2, <4>3, <4>4 DEF ViewOf, ShownIsThere, ThereIsShown
      <4>5. CASE V!TellUpdate(k)
        <5>1. ASSUME y \in Viewed'
              PROVE  (There(y, c) => There(y, c)') /\ (Here(y, c)' => Here(y, c))
          BY <2>0, <2>6, <2>7, <2>9, <4>5, <5>1 DEF There, Here, V!TellUpdate
        <5>2. ASSUME y \in Viewed' PROVE ShownIsThere(x, y, c)' /\ ThereIsShown(x, y, c)'
          BY <1>1, <2>4, <5>1, <5>2 DEF ViewOf, ShownIsThere, ThereIsShown
        <5> QED
          BY <4>2, <4>3, <5>2 DEF ViewOf
      <4> QED
        BY <4>4, <4>5
    <3> QED
      BY <3>1, <3>2
  <2> QED
    BY <2>5, <2>8, <2>9
<1> QED
  BY <1>2, <1>3

(* And when it is the task of x itself.                                    *)
LEMMA ViewByOwn ==
    ASSUME Sound, Single', NEW k \in Clicks, Clicked(k) \/ V!Step(k),
           NEW x \in Viewers', NEW y \in Users, NEW c \in Channels, x # y, x = V!Who(k),
           local'[x] = c, local[x] = c => ViewOf(x, y, c)
    PROVE  ViewOf(x, y, c)'
<1>0. /\ VoiceAssumption /\ VoiceTypes /\ Single /\ Alone(k) /\ PlaceInv
      /\ x \in Users /\ x \in online \ hasty /\ x \notin hasty' /\ x \notin late' /\ x \notin late
      /\ y # V!Who(k) /\ Untouched(y)
  BY ClickAlone, TaskAlone DEF Sound, Alone, VoiceAssumption, Viewers
<1>1. Stage(k)
  BY <1>0 DEF PlaceInv, PlaceOf
<1>2. /\ y \in Viewed' => y \in Viewed
      /\ There(y, c) => There(y, c)'
      /\ Here(y, c)' => Here(y, c)
      /\ Sure(y, c)' => Sure(y, c) /\ flag'[y] = flag[y]
      /\ voice_row'[y] = voice_row[y] /\ flag'[y] = flag[y]
  BY <1>0, KnownStays DEF Alone, Known, There, Here, Untouched, Viewed
<1>3. /\ Entering(x) <=> voice_pc[k] \in {"delete", "insert", "tellJoin", "fetch", "revert"}
      /\ Entering(x)' <=> voice_pc'[k] \in {"delete", "insert", "tellJoin", "fetch", "revert"}
      /\ Bringing(x, y) <=> voice_pc[k] = "fill" /\ found[k][y] # "absent"
      /\ Bringing(x, y)' <=> voice_pc'[k] = "fill" /\ found'[k][y] # "absent"
  BY <1>0, EnteringByTask, TaskAlone, ClickAlone
<1>4. /\ subscribers' = subscribers
      /\ Marks(voice_inbox'[x], y, c) = {} => Marks(voice_inbox[x], y, c) = {}
      /\ Abouts(voice_inbox'[x], y, c) = {} => Abouts(voice_inbox[x], y, c) = {}
  <2>1. CASE ~V!TellJoin(k) /\ ~V!TellLeave(k) /\ ~V!TellUpdate(k)
    BY <1>0, <2>1, Quietly
  <2>2. CASE V!TellJoin(k) \/ V!TellLeave(k) \/ V!TellUpdate(k)
    <3>1. PICK kind \in {"joined", "left", "off", "on"} : V!Broadcast(chan[k], kind, V!Who(k))
      BY <2>2 DEF V!TellJoin, V!TellLeave, V!TellUpdate, V!ValueOf
    <3>2. chan[k] \in Channels /\ subscribers' = subscribers
      BY <1>0, <2>2 DEF V!TellJoin, V!TellLeave, V!TellUpdate, VoiceTypes, Directed
    <3> DEFINE e == [kind |-> kind, channel |-> chan[k], user |-> V!Who(k)]
    <3>3. e \in V!Events
      BY <1>0, <3>2 DEF V!Events
    <3>4. voice_inbox[x] \in Seq(V!Events) /\ (voice_inbox'[x] = Append(voice_inbox[x], e) \/ voice_inbox'[x] = voice_inbox[x])
      <4>1. voice_inbox \in [Users -> Seq(V!Events)]
        BY <1>0 DEF VoiceTypes, V!TypeOK
      <4>2. voice_inbox'[x] = Append(voice_inbox[x], e) \/ voice_inbox'[x] = voice_inbox[x]
        BY <1>0, <3>1, <3>2, Broadcasting DEF VoiceTypes
      <4> QED
        BY <1>0, <4>1, <4>2
    <3> HIDE DEF e
    <3>5. /\ Marks(Append(voice_inbox[x], e), y, c) = {} => Marks(voice_inbox[x], y, c) = {}
          /\ Abouts(Append(voice_inbox[x], e), y, c) = {} => Abouts(voice_inbox[x], y, c) = {}
      BY <3>3, <3>4, NoneAppended
    <3> QED
      BY <3>2, <3>4, <3>5
  <2> QED
    BY <2>1, <2>2
<1>5. ASSUME local' = local, UNCHANGED <<shown, stale>>,
             Entering(x) => Entering(x)', Bringing(x, y) => Bringing(x, y)'
      PROVE  ViewOf(x, y, c)'
  BY <1>2, <1>4, <1>5, ViewStays
<1> USE <1>0, <1>1, <1>3 DEF V!Goto, VoiceTypes, V!TypeOK
<1>6. CASE Clicked(k)
  <2>1. UNCHANGED <<local, shown, stale>> /\ voice_pc[k] = "new"
    BY <1>6, ClickAlone DEF V!client
  <2> QED
    BY <1>5, <2>1
<1>7. CASE \/ V!Subscribe(k) \/ V!LeaveForJoin(k) \/ V!InsertRow(k) \/ V!TellJoin(k) \/ V!LeaveSelect(k)
           \/ V!LeaveDelete(k) \/ V!TellLeave(k) \/ V!Update(k) \/ V!TellUpdate(k) \/ V!KeepFlag(k)
           \/ V!JoinFails(k) \/ V!LeaveFails(k) \/ V!UpdateFails(k)
  <2>1. UNCHANGED <<local, shown, stale>>
    BY <1>7 DEF V!Subscribe, V!LeaveForJoin, V!InsertRow, V!TellJoin, V!LeaveSelect, V!LeaveDelete, V!TellLeave,
                V!Update, V!TellUpdate, V!KeepFlag, V!JoinFails, V!LeaveFails, V!UpdateFails, V!Fails,
                V!client, V!past
  <2>2. voice_pc[k] \in {"delete", "insert", "tellJoin", "fetch"} =>
                  voice_pc'[k] \in {"insert", "tellJoin", "fetch", "revert"}
    BY <1>7 DEF V!Subscribe, V!LeaveForJoin, V!InsertRow, V!TellJoin, V!LeaveSelect, V!LeaveDelete, V!TellLeave,
                V!Update, V!TellUpdate, V!KeepFlag, V!JoinFails, V!LeaveFails, V!UpdateFails, V!Fails, V!Taken, Stage
  <2>3. voice_pc[k] \notin {"fill", "revert"}
    BY <1>7 DEF V!Subscribe, V!LeaveForJoin, V!InsertRow, V!TellJoin, V!LeaveSelect, V!LeaveDelete, V!TellLeave,
                V!Update, V!TellUpdate, V!KeepFlag, V!JoinFails, V!LeaveFails, V!UpdateFails, V!Fails
  <2> QED
    BY <1>5, <2>1, <2>2, <2>3
<1>8. CASE V!EnterLocally(k)
  <2>1. Entering(x)' /\ shown'[x][y] = "absent"
    BY <1>8 DEF V!EnterLocally, V!Nobody
  <2> QED
    BY <2>1 DEF ViewOf, Subscribed, Unaware, ShownIsThere, ThereIsShown, ShownRight
<1>9. CASE V!LeaveLocally(k)
  <2>1. local'[x] = None
    BY <1>9 DEF V!LeaveLocally
  <2> QED
    BY <2>1 DEF VoiceAssumption
<1>10. CASE V!Fetch(k)
  <2>1. /\ voice_pc[k] = "fetch" /\ voice_pc'[k] = "fill" /\ chan[k] = c /\ local' = local
        /\ UNCHANGED <<shown, stale>> /\ x \in subscribers[c]
        /\ found'[k] = V!Participants(c)
    BY <1>10 DEF V!Fetch, Stage, V!client
  <2>2. ViewOf(x, y, c)
    BY <2>1
  <2>3. ~Bringing(x, y)' => ~Here(y, c)
    BY <2>1 DEF V!Participants, Here
  <2>4. Subscribed(x, c)' /\ Unaware(x, y, c)' /\ (y \in Viewed' => ThereIsShown(x, y, c)')
    BY <1>2, <1>4, <2>1, <2>3 DEF Subscribed, Unaware, ThereIsShown
  <2>5. y \in Viewed' => ShownIsThere(x, y, c)'
    BY <1>2, <1>4, <2>1, <2>2 DEF ViewOf, ShownIsThere
  <2>6. y \in Viewed' => ShownRight(x, y, c)'
    BY <1>2, <1>4, <2>1, <2>2 DEF ViewOf, ShownRight
  <2> QED
    BY <2>4, <2>5, <2>6 DEF ViewOf
<1>11. CASE V!Fill(k)
  <2>1. voice_pc[k] = "fill" /\ chan[k] = c /\ local' = local /\ voice_pc'[k] = "done"
    BY <1>11 DEF V!Fill, Stage
  <2>2. ViewOf(x, y, c) /\ x \in subscribers[c] /\ ~Entering(x) /\ ~Entering(x)' /\ ~Bringing(x, y)'
    BY <2>1 DEF ViewOf, Subscribed
  <2>3. /\ found[k][y] # "absent" => shown'[x][y] = found[k][y]
        /\ found[k][y] = "absent" => shown'[x][y] = shown[x][y]
    BY <1>11 DEF V!Fill, V!Others
  <2>4. <<x, y>> \notin stale' =>
            <<x, y>> \notin stale /\ (found[k][y] # "absent" => found[k][y] = V!Participants(c)[y])
    BY <1>11, <2>1 DEF V!Fill, V!Others
  <2>5. found[k][y] = V!Participants(c)[y] /\ found[k][y] # "absent" =>
            voice_row[y] = c /\ found[k][y] = flag[y]
    BY DEF V!Participants
  <2>6. Subscribed(x, c)' /\ Unaware(x, y, c)'
    BY <1>4, <2>2 DEF Subscribed, Unaware
  <2>7. y \in Viewed' => ShownIsThere(x, y, c)'
    BY <1>2, <1>4, <2>2, <2>3, <2>4, <2>5 DEF ViewOf, ShownIsThere, There
  <2>8. y \in Viewed' => ThereIsShown(x, y, c)'
    BY <1>2, <1>4, <2>1, <2>2, <2>3 DEF ViewOf, ThereIsShown
  <2>9. y \in Viewed' => ShownRight(x, y, c)'
    BY <1>2, <1>4, <2>2, <2>3, <2>4, <2>5 DEF ViewOf, ShownRight
  <2> QED
    BY <2>6, <2>7, <2>8, <2>9 DEF ViewOf
<1>12. CASE V!FetchFails(k)
  <2>1. x \in late'
    BY <1>12 DEF V!FetchFails
  <2> QED
    BY <1>0, <2>1
<1> QED
  BY <1>6, <1>7, <1>8, <1>9, <1>10, <1>11, <1>12 DEF V!Step

(* And when the client of x reads an event.                                *)
LEMMA ViewByEvent ==
    ASSUME Sound, EventInv, NEW x \in Users, V!ReadEvent(x), NEW y \in Users, NEW c \in Channels,
           x # y,
           local'[x] = c, ViewOf(x, y, c)
    PROVE  ViewOf(x, y, c)'
<1> DEFINE e == Head(voice_inbox[x])
<1>0. /\ VoiceTypes /\ voice_inbox[x] \in Seq(V!Events) /\ voice_inbox[x] # <<>> /\ voice_inbox'[x] = Tail(voice_inbox[x])
      /\ e \in V!Events /\ local[x] = c /\ e = voice_inbox[x][1] /\ 1 \in DOMAIN voice_inbox[x]
      /\ UNCHANGED <<voice_row, flag, voice_pc, chan, found, subscribers, hasty, silent, late>>
  BY DEF V!ReadEvent, Sound, VoiceTypes, V!TypeOK, V!db, V!task
<1>1. /\ Entering(x)' <=> Entering(x)
      /\ Bringing(x, y)' <=> Bringing(x, y)
      /\ There(y, c)' <=> There(y, c)
      /\ Here(y, c)' <=> Here(y, c)
      /\ Sure(y, c)' <=> Sure(y, c)
      /\ y \in Viewed' <=> y \in Viewed
      /\ flag' = flag
  BY <1>0 DEF Entering, Bringing, There, Here, Sure, Telling, Leaving, Changing, Viewed
<1>2. ASSUME y \in Viewed
      PROVE  /\ Marks(voice_inbox'[x], y, c) = {} /\ Mark(e, y, c) => (e.kind = "joined" <=> ToldIn(y, c))
             /\ Marks(voice_inbox'[x], y, c) = {} /\ VoiceAbout(e, y, c) /\ ~Mark(e, y, c) => ToldIn(y, c)
             /\ Abouts(voice_inbox'[x], y, c) = {} /\ VoiceAbout(e, y, c) /\ Sure(y, c) => Says(e) = flag[y]
             /\ Marks(voice_inbox'[x], y, c) = {} /\ ~Mark(e, y, c) => Marks(voice_inbox[x], y, c) = {}
             /\ Abouts(voice_inbox'[x], y, c) = {} /\ ~VoiceAbout(e, y, c) => Abouts(voice_inbox[x], y, c) = {}
  <2>1. EventsRight(voice_inbox[x], y, c, ToldIn(y, c), Sure(y, c), flag[y])
    BY <1>2 DEF EventInv, Viewed
  <2>2. ToldIn(y, c) \in BOOLEAN /\ Sure(y, c) \in BOOLEAN
    BY DEF ToldIn, Sure, Leaving, Here
  <2> DEFINE s == voice_inbox[x]
             t == Tail(s)
  <2>3. s \in Seq(V!Events) /\ s # <<>> /\ EventsRight(s, y, c, ToldIn(y, c), Sure(y, c), flag[y])
    BY <1>0, <2>1
  <2>4. t = voice_inbox'[x]
    BY <1>0
  <2> HIDE DEF s
  <2>5. /\ Marks(t, y, c) = {} /\ Mark(Head(s), y, c) => (Head(s).kind = "joined" <=> ToldIn(y, c))
        /\ Marks(t, y, c) = {} /\ VoiceAbout(Head(s), y, c) /\ ~Mark(Head(s), y, c) => ToldIn(y, c)
        /\ Abouts(t, y, c) = {} /\ VoiceAbout(Head(s), y, c) /\ Sure(y, c) => Says(Head(s)) = flag[y]
        /\ Marks(t, y, c) = {} /\ ~Mark(Head(s), y, c) => Marks(s, y, c) = {}
        /\ Abouts(t, y, c) = {} /\ ~VoiceAbout(Head(s), y, c) => Abouts(s, y, c) = {}
    BY <2>2, <2>3, HeadSays
  <2> QED
    BY <2>4, <2>5 DEF s
<1>3. e.kind \in {"joined", "left", "off", "on"}
  BY <1>0 DEF V!Events
<1>4. /\ e.kind = "joined" => shown' = [shown EXCEPT ![x] = V!AfterJoined(x, e)]
      /\ e.kind = "left" => shown' = [shown EXCEPT ![x] = V!AfterLeft(x, e)]
      /\ e.kind \in {"off", "on"} => shown' = [shown EXCEPT ![x] = V!AfterUpdate(x, e)]
      /\ shown'[x] = shown[x] => stale' = stale
      /\ shown'[x] # shown[x] /\ e.channel = c => stale' = stale \ {<<x, e.user>>}
      /\ shown'[x] # shown[x] /\ e.channel # c => stale' = stale \cup {<<x, e.user>>}
  BY <1>0, <1>3 DEF V!ReadEvent, VoiceTypes, V!TypeOK
<1> HIDE DEF e
<1>5. CASE e.user # y
  <2>1. ~Mark(e, y, c) /\ ~VoiceAbout(e, y, c)
    BY <1>5 DEF Mark, VoiceAbout
  <2>2. shown'[x][y] = shown[x][y] /\ (<<x, y>> \in stale' <=> <<x, y>> \in stale)
    BY <1>0, <1>3, <1>4, <1>5 DEF V!AfterJoined, V!AfterLeft, V!AfterUpdate, VoiceTypes, V!TypeOK
  <2>3. /\ y \in Viewed' /\ Marks(voice_inbox'[x], y, c) = {} => Marks(voice_inbox[x], y, c) = {}
        /\ y \in Viewed' /\ Abouts(voice_inbox'[x], y, c) = {} => Abouts(voice_inbox[x], y, c) = {}
    BY <1>1, <1>2, <2>1
  <2> QED
    BY <1>0, <1>1, <2>2, <2>3
    DEF ViewOf, Subscribed, Unaware, ShownIsThere, ThereIsShown, ShownRight
<1>6. CASE e.user = y /\ e.channel # c
  <2>1. ~Mark(e, y, c) /\ ~VoiceAbout(e, y, c)
    BY <1>6 DEF Mark, VoiceAbout
  <2>2. /\ shown'[x][y] # "absent" <=> shown[x][y] # "absent"
        /\ (shown'[x][y] = shown[x][y] /\ stale' = stale) \/ <<x, y>> \in stale'
    <3>1. CASE e.kind \in {"joined", "left"}
      <4>1. shown'[x] = shown[x]
        BY <1>0, <1>4, <1>6, <3>1 DEF V!AfterJoined, V!AfterLeft, VoiceTypes, V!TypeOK
      <4> QED
        BY <1>4, <4>1
    <3>2. CASE e.kind \in {"off", "on"}
      <4>1. CASE shown'[x] = shown[x]
        BY <1>4, <4>1
      <4>2. CASE shown'[x] # shown[x]
        BY <1>0, <1>4, <1>6, <3>2, <4>2 DEF V!AfterUpdate, VoiceTypes, V!TypeOK
      <4> QED
        BY <4>1, <4>2
    <3> QED
      BY <1>3, <3>1, <3>2
  <2>3. /\ y \in Viewed' /\ Marks(voice_inbox'[x], y, c) = {} => Marks(voice_inbox[x], y, c) = {}
        /\ y \in Viewed' /\ Abouts(voice_inbox'[x], y, c) = {} => Abouts(voice_inbox[x], y, c) = {}
    BY <1>1, <1>2, <2>1
  <2> QED
    BY <1>0, <1>1, <2>2, <2>3
    DEF ViewOf, Subscribed, Unaware, ShownIsThere, ThereIsShown, ShownRight
<1>7. CASE e.user = y /\ e.channel = c
  <2>1. VoiceAbout(e, y, c) /\ (Mark(e, y, c) <=> e.kind \in {"joined", "left"}) /\ x \in subscribers[c]
    BY <1>0, <1>7 DEF Mark, VoiceAbout, EventInv, EventsFrom, e
  <2>2. ViewOf(x, y, c)' <=> (Subscribed(x, c)' /\ Unaware(x, y, c)' /\
            (y \in Viewed => ShownIsThere(x, y, c)' /\ ThereIsShown(x, y, c)' /\ ShownRight(x, y, c)'))
    BY <1>1 DEF ViewOf
  <2>3. Subscribed(x, c)' /\ Unaware(x, y, c)'
    BY <1>0, <2>1 DEF Subscribed, Unaware
  <2>4. CASE e.kind = "joined"
    <3>1. shown'[x][y] = "off" /\ Says(e) = "off"
      BY <1>0, <1>4, <1>7, <2>4 DEF V!AfterJoined, VoiceTypes, V!TypeOK, Says
    <3>2. ASSUME y \in Viewed
          PROVE  ShownIsThere(x, y, c)' /\ ThereIsShown(x, y, c)' /\ ShownRight(x, y, c)'
      <4>1. Marks(voice_inbox'[x], y, c) = {} => There(y, c)
        BY <1>2, <2>1, <2>4, <3>2 DEF ToldIn, There, Here
      <4>2. Abouts(voice_inbox'[x], y, c) = {} /\ Sure(y, c) => flag[y] = "off"
        BY <1>2, <2>1, <3>1, <3>2
      <4> QED
        BY <1>1, <3>1, <4>1, <4>2 DEF ShownIsThere, ThereIsShown, ShownRight
    <3> QED
      BY <2>2, <2>3, <3>2
  <2>5. CASE e.kind = "left"
    <3>1. shown'[x][y] = "absent"
      BY <1>0, <1>4, <1>7, <2>5 DEF V!AfterLeft, VoiceTypes, V!TypeOK
    <3>2. ASSUME y \in Viewed
          PROVE  ShownIsThere(x, y, c)' /\ ThereIsShown(x, y, c)' /\ ShownRight(x, y, c)'
      <4>1. Marks(voice_inbox'[x], y, c) = {} => ~Here(y, c)
        BY <1>2, <2>1, <2>5, <3>2 DEF ToldIn
      <4> QED
        BY <1>1, <3>1, <4>1 DEF ShownIsThere, ThereIsShown, ShownRight
    <3> QED
      BY <2>2, <2>3, <3>2
  <2>6. CASE e.kind \in {"off", "on"}
    <3>1. /\ shown[x][y] # "absent" => shown'[x][y] = e.kind
          /\ shown[x][y] = "absent" => shown'[x][y] = "absent"
          /\ Says(e) = e.kind
      BY <1>0, <1>4, <1>7, <2>6 DEF V!AfterUpdate, VoiceTypes, V!TypeOK, Says
    <3>2. ASSUME y \in Viewed
          PROVE  ShownIsThere(x, y, c)' /\ ThereIsShown(x, y, c)' /\ ShownRight(x, y, c)'
      <4>1. Marks(voice_inbox'[x], y, c) = {} => There(y, c) /\ Marks(voice_inbox[x], y, c) = {}
        BY <1>2, <2>1, <2>6, <3>2 DEF ToldIn, There, Here
      <4>2. Abouts(voice_inbox'[x], y, c) = {} /\ Sure(y, c) => flag[y] = e.kind
        BY <1>2, <2>1, <3>1, <3>2
      <4>3. ThereIsShown(x, y, c)'
        BY <1>1, <2>6, <3>1, <3>2, <4>1 DEF ViewOf, ThereIsShown
      <4> QED
        BY <1>1, <2>6, <3>1, <4>1, <4>2, <4>3 DEF ShownIsThere, ShownRight
    <3> QED
      BY <2>2, <2>3, <3>2
  <2> QED
    BY <1>3, <2>4, <2>5, <2>6
<1> QED
  BY <1>5, <1>6, <1>7

(* What the clients show stays right.                                      *)
LEMMA ViewStep == Sound /\ EventInv /\ ViewInv /\ [V!Next]_(V!vars) => ViewInv'
<1> SUFFICES ASSUME Sound, EventInv, ViewInv, [V!Next]_(V!vars),
                    NEW x \in Viewers', NEW y \in Users, NEW c \in Channels, local'[x] = c, x # y
             PROVE  ViewOf(x, y, c)'
  BY DEF ViewInv, ViewOf
<1>0. Single' /\ VoiceTypes /\ x \in Users
  BY SingleStep, TypeStep DEF Sound, VoiceTypes, V!TypeOK, Viewers
<1>1. x \in Viewers /\ local[x] = c => ViewOf(x, y, c)
  BY <1>0 DEF ViewInv, ViewOf
<1>2. ASSUME NEW k \in Clicks, Clicked(k) \/ V!Step(k) PROVE ViewOf(x, y, c)'
  <2>1. Alone(k)
    BY <1>0, <1>2, ClickAlone, TaskAlone
  <2>2. x \in Viewers
    BY <1>0, <2>1 DEF Viewers, Alone
  <2>3. CASE x = V!Who(k)
    BY <1>0, <1>1, <1>2, <2>2, <2>3, ViewByOwn
  <2>4. CASE x # V!Who(k)
    <3>1. local[x] = c
      BY <1>0, <2>1, <2>4 DEF Alone, Untouched
    <3> QED
      BY <1>0, <1>1, <1>2, <2>2, <2>4, <3>1, ViewByOther
  <2> QED
    BY <2>3, <2>4
<1>3. ASSUME UNCHANGED <<local, voice_pc, chan, found, flag, hasty>>, x \in Viewers,
             x \in subscribers[c] => x \in subscribers'[c],
             x \in subscribers'[c] \/ x \notin subscribers[c],
             shown'[x][y] = shown[x][y], <<x, y>> \in stale' <=> <<x, y>> \in stale,
             voice_inbox'[x] = voice_inbox[x], silent \subseteq silent',
             y \in Users \ silent' => voice_row'[y] = voice_row[y]
      PROVE  ViewOf(x, y, c)'
  <2>1. ViewOf(x, y, c)
    BY <1>1, <1>3
  <2>2. /\ Entering(x)' <=> Entering(x)
        /\ Bringing(x, y)' <=> Bringing(x, y)
        /\ y \in Viewed' => y \in Viewed
        /\ y \in Viewed' => /\ There(y, c)' <=> There(y, c)
                            /\ Here(y, c)' <=> Here(y, c)
                            /\ Sure(y, c)' <=> Sure(y, c)
    BY <1>3 DEF Entering, Bringing, There, Here, Sure, Telling, Leaving, Changing, Viewed
  <2> QED
    BY <1>3, <2>1, <2>2 DEF ViewOf, Subscribed, Unaware, ShownIsThere, ThereIsShown, ShownRight
<1>4. ASSUME NEW u \in Users, V!ServeSubscribe(u) PROVE ViewOf(x, y, c)'
  <2>1. UNCHANGED <<local, voice_pc, chan, found, flag, hasty, late, online, shown, stale, voice_inbox, silent, voice_row>>
    BY <1>4 DEF V!ServeSubscribe, V!client, V!task, V!past, V!db
  <2>2. x \in subscribers[c] => x \in subscribers'[c]
    BY <1>0, <1>4 DEF V!ServeSubscribe, VoiceTypes, V!TypeOK
  <2>3. ViewOf(x, y, c)
    BY <1>1, <2>1 DEF Viewers
  <2>4. Entering(x)' <=> Entering(x)
    BY <2>1 DEF Entering
  <2>5. Subscribed(x, c)' /\ Unaware(x, y, c)'
    BY <2>1, <2>2, <2>3, <2>4 DEF ViewOf, Subscribed, Unaware
  <2>6. y \in Viewed' => ShownIsThere(x, y, c)' /\ ThereIsShown(x, y, c)' /\ ShownRight(x, y, c)'
    BY <2>1, <2>3, <2>4
    DEF ViewOf, ShownIsThere, ThereIsShown, ShownRight, Bringing, There, Here, Sure, Telling,
       Leaving,
        Changing, Viewed
  <2> QED
    BY <2>5, <2>6 DEF ViewOf
<1>5. ASSUME NEW u \in Users, V!ReadEvent(u) PROVE ViewOf(x, y, c)'
  <2>1. UNCHANGED <<local, voice_pc, chan, found, flag, hasty, late, online, silent, voice_row, subscribers>>
    BY <1>5 DEF V!ReadEvent, V!task, V!db
  <2>2. x \in Viewers /\ ViewOf(x, y, c)
    BY <1>1, <2>1 DEF Viewers
  <2>3. CASE u = x
    BY <1>5, <2>2, <2>3, ViewByEvent
  <2>4. CASE u # x
    <3>1. shown'[x][y] = shown[x][y] /\ voice_inbox'[x] = voice_inbox[x]
          /\ (<<x, y>> \in stale' <=> <<x, y>> \in stale)
      BY <1>0, <1>5, <2>4 DEF V!ReadEvent, VoiceTypes, V!TypeOK
    <3> QED
      BY <1>3, <2>1, <2>2, <3>1
  <2> QED
    BY <2>3, <2>4
<1>6. ASSUME NEW u \in Users, V!Disconnect(u) PROVE ViewOf(x, y, c)'
  <2>1. UNCHANGED <<local, voice_pc, chan, found, flag, hasty, late, shown, stale>>
        /\ silent' = silent \cup {u} /\ online' = online \ {u}
    BY <1>6 DEF V!Disconnect, V!client, V!task
  <2>2. x \in Viewers /\ x # u
    BY <2>1 DEF Viewers
  <2>3. voice_inbox'[x] = voice_inbox[x] /\ (x \in subscribers'[c] <=> x \in subscribers[c])
        /\ (y \in Users \ silent' => voice_row'[y] = voice_row[y])
    BY <1>0, <1>6, <2>1, <2>2 DEF V!Disconnect, VoiceTypes, V!TypeOK
  <2> QED
    BY <1>3, <2>1, <2>2, <2>3
<1>7. ASSUME UNCHANGED V!vars PROVE ViewOf(x, y, c)'
  <2>1. UNCHANGED <<local, voice_pc, chan, found, flag, hasty, late, online, shown, stale, voice_inbox, silent, voice_row,
                    subscribers>>
    BY <1>7 DEF V!vars, V!db, V!socket, V!client, V!task, V!past
  <2> QED
    BY <1>3, <2>1 DEF Viewers
<1> QED
  BY <1>2, <1>4, <1>5, <1>6, <1>7 DEF V!Next, Clicked

-----------------------------------------------------------------------------
VoiceInv == Sound /\ EventInv /\ ViewInv

(* It holds initially.                                                     *)
LEMMA VoiceInitially == VoiceAssumption /\ V!Init => VoiceInv
<1> SUFFICES ASSUME VoiceAssumption, V!Init PROVE VoiceInv
  OBVIOUS
<1>1. VoiceTypes
  BY DEF V!Init, VoiceTypes, V!TypeOK, V!Nobody, V!Entries, V!Labels, V!Idle, Directed, VoiceAssumption
<1>2. Single /\ SilentInv
  BY DEF V!Init, Single, SilentInv, V!Idle
<1>3. PlaceInv
  BY DEF V!Init, PlaceInv, PlaceOf, Stage, Rest, VoiceSame
<1>4. EventInv
  <2>1. \A x \in Users : voice_inbox[x] = <<>>
    BY DEF V!Init
  <2> QED
    BY <2>1, NoEvents DEF EventInv, EventsFrom, Abouts
<1>5. ViewInv
  BY DEF V!Init, ViewInv, VoiceAssumption, Viewers
<1> QED
  BY <1>1, <1>2, <1>3, <1>4, <1>5 DEF VoiceInv, Sound

(* Every step keeps it.                                                    *)
LEMMA VoiceStep == VoiceInv /\ [V!Next]_(V!vars) => VoiceInv'
<1>1. Sound /\ [V!Next]_(V!vars) => Sound'
  BY TypeStep, SingleStep, PlaceStep, SilentStep DEF Sound, VoiceAssumption, V!Who
<1> QED
  BY <1>1, EventStep, ViewStep DEF VoiceInv

(* And it says what the properties do.                                     *)
LEMMA VoiceGives == VoiceInv => V!TypeOK /\ V!ViewsAgree /\ V!PlaceAgrees
<1> SUFFICES ASSUME VoiceInv PROVE V!TypeOK /\ V!ViewsAgree /\ V!PlaceAgrees
  OBVIOUS
<1>0. V!TypeOK /\ VoiceAssumption /\ PlaceInv /\ EventInv /\ ViewInv
  BY DEF VoiceInv, Sound, VoiceTypes
<1>1. V!PlaceAgrees
  <2> SUFFICES ASSUME V!Quiet, NEW u \in online \ (hasty \cup failed)
               PROVE  local[u] = voice_row[u] /\ (local[u] # None /\ u \notin silent => mine[u] = flag[u])
    BY DEF V!PlaceAgrees
  <2>1. ~V!Unfinished(u)
    BY DEF V!Quiet, V!Unfinished
  <2> QED
    BY <1>0, <2>1 DEF PlaceInv, PlaceOf, Rest, VoiceSame
<1>2. V!ViewsAgree
  <2> SUFFICES ASSUME V!Quiet, NEW x \in online \ (hasty \cup late), NEW y \in Users \ (hasty \cup silent),
                      x # y, local[x] # None, <<x, y>> \notin stale
               PROVE  shown[x][y] = V!Participants(local[x])[y]
    BY DEF V!ViewsAgree
  <2> DEFINE c == local[x]
  <2>1. c \in Channels /\ voice_inbox[x] = <<>> /\ x \in Users
    BY <1>0 DEF V!TypeOK, V!Quiet
  <2>2. ShownIsThere(x, y, c) /\ ThereIsShown(x, y, c) /\ ShownRight(x, y, c)
    BY <1>0, <2>1 DEF ViewInv, Viewers, Viewed
  <2>3. Marks(voice_inbox[x], y, c) = {} /\ Abouts(voice_inbox[x], y, c) = {}
    BY <2>1 DEF Marks, Abouts
  <2>4. /\ ~Entering(x) /\ ~Bringing(x, y) /\ ~Telling(y) /\ ~Changing(y)
        /\ ~Leaving(y, c)
    BY DEF V!Quiet, V!Idle, Entering, Bringing, Telling, Changing, Leaving
  <2> QED
    BY <2>2, <2>3, <2>4 DEF ShownIsThere, ThereIsShown, ShownRight, There, Here, Sure, V!Participants
<1> QED
  BY <1>0, <1>1, <1>2

(* For any users, channels and clicks, whichever connections break and     *)
(* requests fail: when all is settled a client shows the voice states as   *)
(* the table has them, and a client is where the server has it, but for    *)
(* what ViewsAgree and PlaceAgrees except.                                 *)
THEOREM VoiceSound ==
    ASSUME VoiceAssumption
    PROVE  V!Spec => [](V!TypeOK /\ V!ViewsAgree /\ V!PlaceAgrees)
<1>1. V!Init => VoiceInv
  BY VoiceInitially
<1>2. VoiceInv /\ [V!Next]_(V!vars) => VoiceInv'
  BY VoiceStep
<1>3. VoiceInv => V!TypeOK /\ V!ViewsAgree /\ V!PlaceAgrees
  BY VoiceGives
<1> QED
  BY <1>1, <1>2, <1>3, PTL DEF V!Spec

-----------------------------------------------------------------------------
(* A channel's messages (ChannelFeed).                                     *)

(* A finite set is counted in the same way there and here.                 *)
LEMMA FeedCounts == \A S : Feed!Cardinality(S) = Cardinality(S)
  BY DEF Feed!Cardinality, Cardinality

FeedAssumption ==
    MaxMsgs \in Nat /\ First \in 0..MaxMsgs /\ PageSize \in Nat

(* What an event changes of a message.                                     *)
TextKinds  == {"create", "edit"}
PinKinds   == {"create", "edit", "pin", "unpin"}
GoneKinds  == {"delete", "deleteOwn"}
ThereKinds == {"create", "delete", "deleteOwn"}
ReactKinds == {"react", "unreact"}

Events == [kind : Feed!Kinds, id : Feed!Msgs, row : Feed!Entries]

FeedTypes ==
    /\ Feed!TypeOK
    /\ feed_inbox \in Seq(Events)
    /\ page \in [FeedLoads -> [rows : Seq(Feed!Entries), reacted : SUBSET Feed!Msgs]]
    /\ olderPage \in [Olders -> Seq(Feed!Entries)]
    /\ \A r \in Requests : feed_pc[r] = "tell" =>
          feed_kind[r] \in Feed!Kinds /\ data[r] \in Feed!Entries /\ data[r].id = msg[r]
    /\ \A r \in Requests : feed_pc[r] \in {"tell", "local"} => msg[r] \in Feed!Msgs
    /\ \A i \in DOMAIN feed_inbox : feed_inbox[i].row.id = feed_inbox[i].id

(* Nothing is about a message that has not been created, and a deletion is *)
(* about one that is not stored any more.                                  *)
IdsInv ==
    /\ rows \cup react \cup Feed!Ids(feed_list) \cup reactions \cup Feed!OnTheWay \cup Feed!Underway \subseteq 1..last
    /\ \A l \in FeedLoads : Feed!Ids(page[l].rows) \cup page[l].reacted \subseteq 1..last
    /\ \A o \in Olders : Feed!Ids(olderPage[o]) \subseteq 1..last
    /\ \A r \in Requests :
          feed_pc[r] = "local" \/ (feed_pc[r] = "tell" /\ feed_kind[r] \in GoneKinds) => msg[r] \notin rows
    /\ \A i \in DOMAIN feed_inbox : feed_inbox[i].kind \in GoneKinds => feed_inbox[i].id \notin rows

(* The entries of a list that are about m, and whether there is only one.  *)
In(s, m)   == {s[i] : i \in {j \in DOMAIN s : s[j].id = m}}
Once(s, m) == \A i, j \in DOMAIN s : s[i].id = m /\ s[j].id = m => i = j

(* The events of a queue about a message that are of some kinds; the last  *)
(* of them is a good one; and its creation is before all the others.       *)
Of(s, K, m) == {i \in DOMAIN s : s[i].id = m /\ s[i].kind \in K}
SaysTrue(s, K, m, good) ==
    \A i \in Of(s, K, m) : (\A j \in Of(s, K, m) : j <= i) => s[i] \in good
CreatedFirst(s, m) == \A i \in Of(s, {"create"}, m), j \in Of(s, Feed!Kinds, m) : i <= j

TellingOf(K, m) == {r \in Requests : feed_pc[r] = "tell" /\ msg[r] = m /\ feed_kind[r] \in K}
Settled(K, m) == TellingOf(K, m) = {} /\ Of(feed_inbox, K, m) = {}
ComingOf(m)     == ~Settled({"create"}, m)

(* A request or event that a load overlaps with is about a raced message,  *)
(* and a client that is not subscribed shows nothing but during a load.    *)
LoadInv == Feed!LoadOpen => Feed!Underway \cup Feed!OnTheWay \subseteq raced
SubscribedInv ==
    ~subscribed =>
        /\ feed_inbox = <<>>
        /\ \/ feed_list = <<>> /\ reactions = {} /\ \A o \in Olders : older[o] = "new"
           \/ \E l \in FeedLoads : load[l] = "subscribe"

(* The request on a message that is not raced is the only one, and         *)
(* announces what is stored.                                               *)
Sole(r) ==
    /\ \A q \in Requests : feed_pc[q] \in {"tell", "local"} /\ msg[q] = msg[r] => q = r
    /\ feed_pc[r] = "tell" =>
               /\ data[r] = Feed!Row(msg[r])
               /\ feed_kind[r] = "pin" => msg[r] \in pinned
               /\ feed_kind[r] = "unpin" => msg[r] \notin pinned
               /\ feed_kind[r] = "react" => msg[r] \in react
               /\ feed_kind[r] = "unreact" => msg[r] \notin react
               /\ feed_kind[r] \notin GoneKinds => msg[r] \in rows
SoleInv == \A r \in Requests : feed_pc[r] \in {"tell", "local"} /\ msg[r] \notin raced => Sole(r)

(* Of the events that change something of a message the last has it as it  *)
(* is stored, unless a request is still to announce it.                    *)
GoodText(m)  == {e \in Events : e.row.text = text[m]}
GoodPin(m)   == {e \in Events : /\ e.kind = "pin" => m \in pinned
                                /\ e.kind = "unpin" => m \notin pinned
                                /\ e.kind \in TextKinds => (e.row.pinned <=> m \in pinned)}
GoodThere(m) == {e \in Events : e.kind = "create" <=> m \in rows}
GoodReact(m) == {e \in Events : e.kind = "react" <=> m \in react}

SaysOf(m) ==
      /\ TellingOf(TextKinds, m) = {} => SaysTrue(feed_inbox, TextKinds, m, GoodText(m))
      /\ TellingOf(PinKinds, m) = {} => SaysTrue(feed_inbox, PinKinds, m, GoodPin(m))
      /\ TellingOf(ThereKinds, m) = {} => SaysTrue(feed_inbox, ThereKinds, m, GoodThere(m))
      /\ TellingOf(ReactKinds, m) = {} /\ m \in rows =>
            SaysTrue(feed_inbox, ReactKinds, m, GoodReact(m))

(* The pages on their way are right about it.                              *)
Right(s, m) == Once(s, m) /\ \A e \in In(s, m) : m \in rows /\ e = Feed!Row(m)
Pages(m) ==
    /\ \A l \in FeedLoads : load[l] = "insert" =>
          Right(page[l].rows, m) /\ (m \in rows => (m \in page[l].reacted <=> m \in react))
    /\ \A o \in Olders : older[o] = "extend" => Right(olderPage[o], m)

(* What is shown is right as soon as nothing about it is still to come.    *)
Shows(m) ==
    /\ Once(feed_list, m)
    /\ Settled(TextKinds, m) => \A e \in In(feed_list, m) : e.text = text[m]
    /\ Settled(PinKinds, m) => \A e \in In(feed_list, m) : e.pinned <=> m \in pinned
    /\ Settled(ThereKinds, m) /\ In(feed_list, m) # {} => m \in rows
Reacts(m) ==
    m \in rows /\ Settled(ReactKinds, m) =>
        /\ m \in reactions => m \in react
        /\ In(feed_list, m) # {} /\ m \notin bare /\ m \in react => m \in reactions

(* Its creation is told once and before all else, and only then shown.     *)
Hidden(m) ==
    /\ \A l \in FeedLoads : load[l] = "insert" => In(page[l].rows, m) = {}
    /\ \A o \in Olders : older[o] = "extend" => In(olderPage[o], m) = {}
Comes(m) ==
    /\ TellingOf({"create"}, m) # {} => Of(feed_inbox, Feed!Kinds, m) = {}
    /\ CreatedFirst(feed_inbox, m)
    /\ ComingOf(m) /\ m \in react => ~Settled(ReactKinds, m)
    /\ ComingOf(m) => In(feed_list, m) = {} /\ Hidden(m)

OfMessage(m) ==
    SaysOf(m) /\ Pages(m) /\ (m \notin again => Shows(m)) /\ Reacts(m) /\ Comes(m)
MessagesInv == \A m \in Feed!Msgs \ raced : OfMessage(m)

(* A page reaches up to the newest message, and so does the list.          *)
Newest(s) == \A k \in Feed!Ids(s), m \in rows \ raced : k < m => m \in Feed!Ids(s)
Before(k) == (k \in Feed!Ids(feed_list) /\ k \notin bare) \/ (subscribed /\ ComingOf(k))
NewestInv ==
    /\ \A l \in FeedLoads : load[l] = "insert" => Newest(page[l].rows)
    /\ \A k \in Feed!Msgs \ raced, m \in rows \ raced :
          k < m /\ Before(k) => m \in Feed!Ids(feed_list) \/ ComingOf(m)

FeedInv ==
    /\ FeedAssumption /\ FeedTypes /\ IdsInv /\ LoadInv /\ SubscribedInv /\ SoleInv
    /\ MessagesInv /\ NewestInv

-----------------------------------------------------------------------------
UpTo(S, m) == {k \in S : k <= m}

(* Of a set of numbers one counts as many up to one as up to none later.   *)
LEMMA UpToCounts ==
    ASSUME NEW N \in Nat, NEW S \in SUBSET (1..N)
    PROVE  /\ IsFiniteSet(S) /\ Cardinality(S) \in Nat
           /\ \A m : IsFiniteSet(UpTo(S, m)) /\ Cardinality(UpTo(S, m)) \in 0..Cardinality(S)
           /\ \A k, m \in Nat : k <= m => Cardinality(UpTo(S, k)) <= Cardinality(UpTo(S, m))
           /\ \A k \in Nat, m \in S : k < m => Cardinality(UpTo(S, k)) < Cardinality(UpTo(S, m))
<1>0. \A k \in S : k \in Nat
  OBVIOUS
<1>1. IsFiniteSet(1..N)
  BY FS_Interval
<1>2. IsFiniteSet(S)
  BY <1>1, FS_Subset
<1>3. \A T \in SUBSET S : IsFiniteSet(T) /\ Cardinality(T) \in Nat /\ Cardinality(T) <= Cardinality(S)
  BY <1>2, FS_Subset, FS_CardinalityType
<1>4. \A m : UpTo(S, m) \in SUBSET S
  BY DEF UpTo
<1>5. ASSUME NEW k \in Nat, NEW m \in Nat, k <= m
      PROVE  /\ Cardinality(UpTo(S, k)) <= Cardinality(UpTo(S, m))
             /\ Cardinality(UpTo(S, k)) = Cardinality(UpTo(S, m)) => UpTo(S, m) = UpTo(S, k)
  <2>1. \A n \in UpTo(S, k) : n \in UpTo(S, m)
    BY <1>0, <1>5 DEF UpTo
  <2> QED
    BY <1>3, <1>4, <2>1, FS_Subset
<1>6. ASSUME NEW k \in Nat, NEW m \in S, k < m
      PROVE  Cardinality(UpTo(S, k)) < Cardinality(UpTo(S, m))
  <2>1. m \in Nat /\ m \in UpTo(S, m) /\ m \notin UpTo(S, k)
    BY <1>6 DEF UpTo
  <2>2. /\ Cardinality(UpTo(S, k)) <= Cardinality(UpTo(S, m))
        /\ Cardinality(UpTo(S, k)) # Cardinality(UpTo(S, m))
    BY <1>5, <1>6, <2>1
  <2>3. Cardinality(UpTo(S, k)) \in Nat /\ Cardinality(UpTo(S, m)) \in Nat
    BY <1>3, <1>4
  <2> QED
    BY <2>2, <2>3
<1>7. Cardinality(S) \in Nat
  BY <1>3
<1> QED
  BY <1>2, <1>3, <1>4, <1>5, <1>6, <1>7

(* The i-th smallest is one of the set, and every one of the set is the    *)
(* i-th for some i; later ones are greater.                                *)
LEMMA NthIs ==
    ASSUME NEW N \in Nat, NEW S \in SUBSET (1..N)
    PROVE  /\ Cardinality(S) \in Nat
           /\ \A i \in 1..Cardinality(S) : Feed!Nth(S, i) \in S
           /\ \A m \in S : \E i \in 1..Cardinality(S) : Feed!Nth(S, i) = m
           /\ \A i, j \in 1..Cardinality(S) : i < j => Feed!Nth(S, i) < Feed!Nth(S, j)
<1> DEFINE C(m) == Cardinality(UpTo(S, m))
<1>a. \A k \in S : k \in Nat /\ 0 < k /\ k <= N
  OBVIOUS
<1>0. /\ IsFiniteSet(S) /\ Cardinality(S) \in Nat
      /\ \A m : IsFiniteSet(UpTo(S, m)) /\ C(m) \in 0..Cardinality(S)
      /\ \A k, m \in Nat : k <= m => C(k) <= C(m)
      /\ \A k \in Nat, m \in S : k < m => C(k) < C(m)
  BY UpToCounts
<1>1. C(N) = Cardinality(S)
  <2>1. UpTo(S, N) = S
    BY <1>a DEF UpTo
  <2> QED
    BY <2>1
<1>2. C(0) = 0
  <2>1. \A k \in S : ~(k <= 0)
    BY <1>a
  <2>2. UpTo(S, 0) = {}
    BY <2>1 DEF UpTo
  <2> QED
    BY <2>2, FS_EmptySet
<1>3. \A m \in Nat : m + 1 \notin S => C(m + 1) = C(m)
  <2> SUFFICES ASSUME NEW m \in Nat, m + 1 \notin S PROVE C(m + 1) = C(m)
    OBVIOUS
  <2>1. \A k \in S : k <= m + 1 <=> k <= m
    BY <1>a
  <2>2. UpTo(S, m + 1) = UpTo(S, m)
    BY <2>1 DEF UpTo
  <2> QED
    BY <2>2
<1>4. \A m \in Nat : C(m + 1) <= C(m) + 1
  <2> SUFFICES ASSUME NEW m \in Nat, m + 1 \in S PROVE C(m + 1) <= C(m) + 1
    BY <1>0, <1>3
  <2>0. ~(m + 1 <= m) /\ \A k \in S : k <= m + 1 <=> k <= m \/ k = m + 1
    BY <1>a
  <2>1. UpTo(S, m + 1) = UpTo(S, m) \cup {m + 1} /\ m + 1 \notin UpTo(S, m)
    BY <2>0 DEF UpTo
  <2>2. C(m + 1) = C(m) + 1
    BY <1>0, <2>1, FS_AddElement
  <2> QED
    BY <1>0, <2>2
<1> HIDE DEF C
<1>5. ASSUME NEW i \in 1..Cardinality(S)
      PROVE  \E m \in S : C(m) = i
  <2> DEFINE T == {n \in Nat : C(n) >= i}
  <2>1. T # {} /\ T \subseteq Nat
    BY <1>0, <1>1
  <2>2. PICK n \in T : \A t \in T : <<t, n>> \notin OpToRel(<, Nat)
    BY <2>1, NatLessThanWellFounded, WFMin
  <2>3. \A t \in T : ~(t < n)
    BY <2>2 DEF OpToRel
  <2>4. n \in Nat /\ C(n) >= i /\ n # 0
    BY <1>2
  <2>5. C(n - 1) < i
    BY <1>0, <2>3, <2>4
  <2>6. C(n) \in Nat /\ C(n - 1) \in Nat /\ (n - 1) + 1 = n /\ n - 1 \in Nat
    BY <1>0, <2>4
  <2>7. n \in S /\ C(n) = i
    BY <1>3, <1>4, <2>4, <2>5, <2>6
  <2> QED
    BY <2>7
<1>6. \A i \in 1..Cardinality(S) : Feed!Nth(S, i) \in S /\ C(Feed!Nth(S, i)) = i
  BY <1>5, FeedCounts DEF Feed!Nth, C, UpTo
<1>7. \A k, m \in S : C(k) = C(m) => k = m
  BY <1>0
<1>8. ASSUME NEW m \in S PROVE \E i \in 1..Cardinality(S) : Feed!Nth(S, i) = m
  <2>1. m \in Nat /\ 0 < m
    OBVIOUS
  <2>2. C(m) \in 1..Cardinality(S)
    BY <1>0, <1>2, <2>1
  <2> QED
    BY <1>6, <1>7, <2>2
<1>9. ASSUME NEW i \in 1..Cardinality(S), NEW j \in 1..Cardinality(S), i < j
      PROVE  Feed!Nth(S, i) < Feed!Nth(S, j)
  <2>1. Feed!Nth(S, i) \in Nat /\ Feed!Nth(S, j) \in Nat
    BY <1>a, <1>6
  <2>2. C(Feed!Nth(S, i)) = i /\ C(Feed!Nth(S, j)) = j
    BY <1>6
  <2> QED
    BY <1>0, <1>9, <2>1, <2>2
<1> QED
  BY <1>0, <1>6, <1>8, <1>9

-----------------------------------------------------------------------------
(* An entry is about one message.                                          *)
LEMMA InIs ==
    ASSUME NEW s \in Seq(Feed!Entries)
    PROVE  /\ \A m : m \in Feed!Ids(s) <=> In(s, m) # {}
           /\ \A m : \A e \in In(s, m) : e \in Feed!Entries /\ e.id = m
           /\ Feed!Ids(s) \subseteq Feed!Msgs
<1>1. \A i \in DOMAIN s : s[i] \in Feed!Entries
  OBVIOUS
<1>2. \A i \in DOMAIN s : s[i].id \in Feed!Msgs
  BY <1>1 DEF Feed!Entries
<1> QED
  BY <1>1, <1>2 DEF Feed!Ids, In

(* A list followed by another has the entries of both.                     *)
LEMMA JoinedIs ==
    ASSUME NEW s \in Seq(Feed!Entries), NEW t \in Seq(Feed!Entries)
    PROVE  /\ s \o t \in Seq(Feed!Entries)
           /\ \A m : In(s \o t, m) = In(s, m) \cup In(t, m)
           /\ \A m : Once(s, m) /\ Once(t, m) /\ (In(s, m) = {} \/ In(t, m) = {}) => Once(s \o t, m)
<1> DEFINE u == s \o t
<1>1. /\ u \in Seq(Feed!Entries) /\ Len(s) \in Nat /\ Len(t) \in Nat
      /\ DOMAIN s = 1..Len(s) /\ DOMAIN t = 1..Len(t) /\ DOMAIN u = 1..(Len(s) + Len(t))
      /\ \A i \in 1..Len(s) : u[i] = s[i]
      /\ \A i \in (Len(s) + 1)..(Len(s) + Len(t)) : u[i] = t[i - Len(s)]
  OBVIOUS
<1> HIDE DEF u
<1>2. \A i \in DOMAIN u : (i \in DOMAIN s /\ u[i] = s[i])
                          \/ (i - Len(s) \in DOMAIN t /\ u[i] = t[i - Len(s)])
  BY <1>1
<1>3. \A i \in DOMAIN s : i \in DOMAIN u /\ u[i] = s[i]
  BY <1>1
<1>4. \A i \in DOMAIN t : i + Len(s) \in DOMAIN u /\ u[i + Len(s)] = t[i]
  <2> SUFFICES ASSUME NEW i \in DOMAIN t PROVE i + Len(s) \in DOMAIN u /\ u[i + Len(s)] = t[i]
    OBVIOUS
  <2>1. i \in Nat /\ i + Len(s) \in (Len(s) + 1)..(Len(s) + Len(t)) /\ (i + Len(s)) - Len(s) = i
    BY <1>1
  <2> QED
    BY <1>1, <2>1
<1>5. ASSUME NEW m PROVE In(u, m) = In(s, m) \cup In(t, m)
  <2>1. ASSUME NEW e \in In(u, m) PROVE e \in In(s, m) \cup In(t, m)
    BY <1>2, <2>1 DEF In
  <2>2. ASSUME NEW e \in In(s, m) PROVE e \in In(u, m)
    BY <1>3, <2>2 DEF In
  <2>3. ASSUME NEW e \in In(t, m) PROVE e \in In(u, m)
    BY <1>4, <2>3 DEF In
  <2> QED
    BY <2>1, <2>2, <2>3
<1>6. ASSUME NEW m, Once(s, m), Once(t, m), In(s, m) = {} \/ In(t, m) = {}
      PROVE  Once(u, m)
  <2> SUFFICES ASSUME NEW i \in DOMAIN u, NEW j \in DOMAIN u, u[i].id = m, u[j].id = m PROVE i = j
    BY DEF Once
  <2>1. \A k \in DOMAIN u : u[k].id = m => (k \in DOMAIN s /\ s[k].id = m /\ In(t, m) = {})
             \/ (k - Len(s) \in DOMAIN t /\ t[k - Len(s)].id = m /\ In(s, m) = {})
    BY <1>2, <1>6 DEF In
  <2>2. (In(s, m) = {} => \A k \in DOMAIN s : s[k].id # m)
        /\ (In(t, m) = {} => \A k \in DOMAIN t : t[k].id # m)
    BY DEF In
  <2>3. i \in Nat /\ j \in Nat /\ Len(s) \in Nat
    BY <1>1
  <2>4. CASE In(t, m) = {}
    BY <1>6, <2>1, <2>2, <2>4 DEF Once
  <2>5. CASE In(s, m) = {}
    <3>1. i - Len(s) = j - Len(s)
      BY <1>6, <2>1, <2>2, <2>5 DEF Once
    <3> QED
      BY <2>3, <3>1
  <2> QED
    BY <1>6, <2>4, <2>5
<1> QED
  BY <1>1, <1>5, <1>6 DEF u

(* An entry in front of a list.                                            *)
Heads(u, e, t) == u = <<e>> \o t

(* It is then the only one if there was none.                              *)
LEMMA ConsIs ==
    ASSUME NEW e \in Feed!Entries, NEW t \in Seq(Feed!Entries), NEW u, Heads(u, e, t)
    PROVE  /\ u \in Seq(Feed!Entries)
           /\ \A m : m # e.id => In(u, m) = In(t, m)
           /\ \A m : m # e.id /\ Once(t, m) => Once(u, m)
           /\ In(u, e.id) = {e} \cup In(t, e.id)
           /\ In(t, e.id) = {} => Once(u, e.id)
<1> DEFINE s == <<e>>
<1>1. s \in Seq(Feed!Entries) /\ DOMAIN s = {1} /\ s[1] = e /\ u = s \o t
  BY DEF Heads
<1> HIDE DEF s
<1>2. \A m : Once(s, m) /\ (m # e.id => In(s, m) = {})
  BY <1>1 DEF Once, In
<1>3. In(s, e.id) = {e}
  BY <1>1 DEF In
<1>4. In(t, e.id) = {} => Once(t, e.id)
  BY DEF In, Once
<1>5. /\ s \o t \in Seq(Feed!Entries)
      /\ \A m : In(s \o t, m) = In(s, m) \cup In(t, m)
      /\ \A m : Once(s, m) /\ Once(t, m) /\ (In(s, m) = {} \/ In(t, m) = {}) => Once(s \o t, m)
  BY <1>1, JoinedIs
<1>6. /\ u \in Seq(Feed!Entries)
      /\ \A m : In(u, m) = In(s, m) \cup In(t, m)
      /\ \A m : Once(s, m) /\ Once(t, m) /\ (In(s, m) = {} \/ In(t, m) = {}) => Once(u, m)
  BY <1>1, <1>5
<1>7. \A m : m # e.id => In(u, m) = In(t, m) /\ (Once(t, m) => Once(u, m))
  BY <1>2, <1>6
<1>8. In(u, e.id) = {e} \cup In(t, e.id) /\ (In(t, e.id) = {} => Once(u, e.id))
  BY <1>2, <1>3, <1>4, <1>6
<1> QED
  BY <1>6, <1>7, <1>8

(* An entry replaced by another about the same message.                    *)
Replaces(u, s, k, e) == k \in DOMAIN s /\ s[k].id = e.id /\ u = [s EXCEPT ![k] = e]

(* It is then the only one if there was only one.                          *)
LEMMA ReplacedIs ==
    ASSUME NEW s \in Seq(Feed!Entries), NEW k, NEW e \in Feed!Entries, NEW u, Replaces(u, s, k, e)
    PROVE  /\ u \in Seq(Feed!Entries)
           /\ \A m : m # e.id => In(u, m) = In(s, m)
           /\ \A m : Once(s, m) => Once(u, m)
           /\ In(s, e.id) # {} /\ In(u, e.id) # {}
           /\ Once(s, e.id) => In(u, e.id) = {e} /\ In(s, e.id) = {s[k]}
<1>1. /\ u \in Seq(Feed!Entries) /\ DOMAIN u = DOMAIN s /\ u[k] = e
      /\ \A i \in DOMAIN s : i # k => u[i] = s[i]
      /\ k \in DOMAIN s /\ s[k].id = e.id
  BY DEF Replaces
<1>2. \A i \in DOMAIN s : u[i].id = s[i].id
  BY <1>1
<1>3. \A m : Once(s, m) => Once(u, m)
  BY <1>1, <1>2 DEF Once
<1>4. ASSUME NEW m, m # e.id PROVE In(u, m) = In(s, m)
  <2>1. \A i \in DOMAIN s : s[i].id = m => u[i] = s[i]
    BY <1>1, <1>4
  <2> QED
    BY <1>1, <1>2, <2>1 DEF In
<1>5. In(s, e.id) # {} /\ In(u, e.id) # {}
  BY <1>1 DEF In
<1>6. ASSUME Once(s, e.id) PROVE In(u, e.id) = {e} /\ In(s, e.id) = {s[k]}
  <2>1. \A i \in DOMAIN s : s[i].id = e.id <=> i = k
    BY <1>1, <1>6 DEF Once
  <2> QED
    BY <1>1, <1>2, <2>1 DEF In
<1> QED
  BY <1>1, <1>3, <1>4, <1>5, <1>6

(* A list without a message has all the others as before.                  *)
LEMMA WithoutIs ==
    ASSUME NEW s \in Seq(Feed!Entries), NEW n
    PROVE  /\ Feed!Without(s, n) \in Seq(Feed!Entries)
           /\ \A m : In(Feed!Without(s, n), m) = IF m = n THEN {} ELSE In(s, m)
           /\ \A m : Once(s, m) => Once(Feed!Without(s, n), m)
<1> DEFINE kept == {i \in DOMAIN s : s[i].id # n}
           f(i) == Feed!Nth(kept, i)
           c == Cardinality(kept)
           u == [i \in 1..c |-> s[f(i)]]
<1>1. Feed!Without(s, n) = u
  BY FeedCounts DEF Feed!Without
<1>2. Len(s) \in Nat /\ DOMAIN s = 1..Len(s) /\ kept \in SUBSET (1..Len(s))
  OBVIOUS
<1>3. /\ c \in Nat
      /\ \A i \in 1..c : f(i) \in kept
      /\ \A k \in kept : \E i \in 1..c : f(i) = k
      /\ \A i, j \in 1..c : i < j => f(i) < f(j)
  BY <1>2, NthIs
<1>4. \A i \in kept : i \in DOMAIN s /\ i \in Nat /\ s[i].id # n /\ s[i] \in Feed!Entries
  OBVIOUS
<1>5. \A i \in DOMAIN s : s[i].id # n => i \in kept
  OBVIOUS
<1> HIDE DEF f, c, kept
<1>6. u \in Seq(Feed!Entries) /\ DOMAIN u = 1..c /\ \A i \in 1..c : u[i] = s[f(i)]
  BY <1>3, <1>4
<1> HIDE DEF u
<1>7. ASSUME NEW m PROVE In(u, m) = IF m = n THEN {} ELSE In(s, m)
  <2>1. ASSUME NEW e \in In(u, m) PROVE m # n /\ e \in In(s, m)
    BY <1>3, <1>4, <1>6, <2>1 DEF In
  <2>2. ASSUME m # n, NEW e \in In(s, m) PROVE e \in In(u, m)
    <3>1. PICK k \in DOMAIN s : s[k].id = m /\ e = s[k]
      BY <2>2 DEF In
    <3>2. k \in kept
      BY <1>5, <2>2, <3>1
    <3>3. PICK i \in 1..c : f(i) = k
      BY <1>3, <3>2
    <3> QED
      BY <1>6, <3>1, <3>3 DEF In
  <2> QED
    BY <2>1, <2>2
<1>8. ASSUME NEW m, Once(s, m) PROVE Once(u, m)
  <2> SUFFICES ASSUME NEW i \in 1..c, NEW j \in 1..c, u[i].id = m, u[j].id = m PROVE i = j
    BY <1>6 DEF Once
  <2>1. f(i) = f(j) /\ f(i) \in Nat
    BY <1>3, <1>4, <1>6, <1>8 DEF Once
  <2>2. i < j \/ j < i \/ i = j
    OBVIOUS
  <2> QED
    BY <1>3, <2>1, <2>2
<1> QED
  BY <1>1, <1>6, <1>7, <1>8

-----------------------------------------------------------------------------
(* What a page has.                                                        *)
LEMMA PageIs ==
    ASSUME FeedAssumption, FeedTypes, NEW before \in Nat
    PROVE  /\ Feed!Page(before) \in Seq(Feed!Entries)
           /\ \A m : Once(Feed!Page(before), m)
           /\ \A m : \A e \in In(Feed!Page(before), m) : m \in rows /\ e = Feed!Row(m)
           /\ \A k \in Feed!Ids(Feed!Page(before)), m \in rows :
                 k < m /\ m < before => m \in Feed!Ids(Feed!Page(before))
<1> DEFINE ids == {m \in rows : m < before}
           n == Cardinality(ids)
           f(i) == Feed!Nth(ids, n + 1 - i)
           c == Feed!Min2(PageSize, n)
           p == [i \in 1..c |-> Feed!Row(f(i))]
<1>1. Feed!Page(before) = p
  BY FeedCounts DEF Feed!Page
<1>2. MaxMsgs \in Nat /\ PageSize \in Nat /\ ids \in SUBSET (1..MaxMsgs)
  BY DEF FeedAssumption, FeedTypes, Feed!TypeOK, Feed!Msgs
<1>3. /\ n \in Nat
      /\ \A i \in 1..n : Feed!Nth(ids, i) \in ids
      /\ \A m \in ids : \E i \in 1..n : Feed!Nth(ids, i) = m
      /\ \A i, j \in 1..n : i < j => Feed!Nth(ids, i) < Feed!Nth(ids, j)
  BY <1>2, NthIs
<1>4. \A m \in ids : m \in rows /\ m \in Nat /\ m < before /\ Feed!Row(m) \in Feed!Entries /\ Feed!Row(m).id = m
  BY <1>2 DEF Feed!Row, Feed!Entries, FeedTypes, Feed!TypeOK, Feed!Msgs
<1>5. \A m \in rows : m < before => m \in ids
  OBVIOUS
<1> HIDE DEF ids, n
<1>6. c \in Nat /\ c <= n /\ \A i \in 1..c : n + 1 - i \in 1..n
  BY <1>2, <1>3 DEF Feed!Min2
<1>7. \A i, j \in 1..c : i < j => f(j) < f(i)
  <2> SUFFICES ASSUME NEW i \in 1..c, NEW j \in 1..c, i < j PROVE f(j) < f(i)
    OBVIOUS
  <2>1. n + 1 - j < n + 1 - i /\ n + 1 - j \in 1..n /\ n + 1 - i \in 1..n
    BY <1>3, <1>6
  <2> QED
    BY <1>3, <2>1
<1>8. \A i \in 1..c : f(i) \in ids
  BY <1>3, <1>6
<1>9. ASSUME NEW i \in 1..c, NEW m \in ids, f(i) < m PROVE \E j \in 1..c : f(j) = m
  <2>1. PICK a \in 1..n : Feed!Nth(ids, a) = m
    BY <1>3
  <2>2. n + 1 - i \in 1..n /\ Feed!Nth(ids, n + 1 - i) < Feed!Nth(ids, a)
    BY <1>6, <1>9, <2>1
  <2>3. Feed!Nth(ids, a) \in Nat /\ Feed!Nth(ids, n + 1 - i) \in Nat
    BY <1>3, <1>4, <2>2
  <2>4. ~(a < n + 1 - i) /\ a # n + 1 - i
    BY <1>3, <2>2, <2>3
  <2>5. n + 1 - a \in 1..c /\ n + 1 - (n + 1 - a) = a
    BY <1>3, <1>6, <2>2, <2>4
  <2> QED
    BY <2>1, <2>5
<1> HIDE DEF f, c
<1>10. p \in Seq(Feed!Entries) /\ DOMAIN p = 1..c /\ \A i \in 1..c : p[i] = Feed!Row(f(i))
  BY <1>4, <1>6, <1>8
<1> HIDE DEF p
<1>11. \A i \in 1..c : p[i].id = f(i) /\ f(i) \in Nat
  BY <1>4, <1>8, <1>10
<1>12. ASSUME NEW m PROVE Once(p, m)
  <2> SUFFICES ASSUME NEW i \in 1..c, NEW j \in 1..c, p[i].id = m, p[j].id = m PROVE i = j
    BY <1>10 DEF Once
  <2>1. f(i) = f(j) /\ f(i) \in Nat
    BY <1>11
  <2>2. i < j \/ j < i \/ i = j
    BY <1>6
  <2> QED
    BY <1>7, <2>1, <2>2
<1>13. ASSUME NEW m, NEW e \in In(p, m) PROVE m \in rows /\ e = Feed!Row(m)
  <2>1. PICK i \in 1..c : p[i].id = m /\ e = p[i]
    BY <1>10 DEF In
  <2> QED
    BY <1>4, <1>8, <1>10, <1>11, <2>1
<1>14. ASSUME NEW k \in Feed!Ids(p), NEW m \in rows, k < m, m < before PROVE m \in Feed!Ids(p)
  <2>1. PICK i \in 1..c : p[i].id = k
    BY <1>10 DEF Feed!Ids
  <2>2. m \in ids /\ f(i) < m
    BY <1>5, <1>11, <1>14, <2>1
  <2>3. PICK j \in 1..c : f(j) = m
    BY <1>9, <2>2
  <2> QED
    BY <1>10, <1>11, <2>3 DEF Feed!Ids
<1> QED
  BY <1>1, <1>10, <1>12, <1>13, <1>14

-----------------------------------------------------------------------------
(* The queue of events: what is kept of a message when an event about      *)
(* another comes or goes.                                                  *)
QueueKept(s, t, m) ==
    /\ \A K : Of(t, K, m) = {} <=> Of(s, K, m) = {}
    /\ \A K, good : SaysTrue(s, K, m, good) => SaysTrue(t, K, m, good)
    /\ CreatedFirst(s, m) => CreatedFirst(t, m)

(* An event that is appended is the last about its message.               *)
LEMMA QueueAppended ==
    ASSUME NEW s \in Seq(Events), NEW e \in Events
    PROVE  /\ Append(s, e) \in Seq(Events)
           /\ \A m : m # e.id => QueueKept(s, Append(s, e), m)
           /\ \A K, m : Of(Append(s, e), K, m) = {}
                            <=> Of(s, K, m) = {} /\ ~(e.id = m /\ e.kind \in K)
           /\ \A K, m, good : e.id = m /\ e.kind \in K /\ e \in good
                                 => SaysTrue(Append(s, e), K, m, good)
           /\ \A K, m, good : ~(e.id = m /\ e.kind \in K) /\ SaysTrue(s, K, m, good)
                                 => SaysTrue(Append(s, e), K, m, good)
           /\ \A m : CreatedFirst(s, m) /\ (e.id = m /\ e.kind = "create" => Of(s, Feed!Kinds, m) = {})
                                 => CreatedFirst(Append(s, e), m)
<1> DEFINE t == Append(s, e)
           n == Len(s) + 1
<1>1. /\ t \in Seq(Events) /\ DOMAIN s = 1..Len(s) /\ DOMAIN t = 1..n /\ Len(s) \in Nat
      /\ \A i \in DOMAIN s : t[i] = s[i]
      /\ t[n] = e
  OBVIOUS
<1>2. /\ n \in DOMAIN t /\ \A i \in DOMAIN s : i \in DOMAIN t /\ i \in Nat /\ i < n
      /\ \A i \in DOMAIN t : i = n \/ i \in DOMAIN s
  BY <1>1
<1> HIDE DEF t, n
<1>3. \A K, m : Of(t, K, m) = Of(s, K, m) \cup (IF e.id = m /\ e.kind \in K THEN {n} ELSE {})
  BY <1>1, <1>2 DEF Of
<1>4. \A K, m : \A i \in Of(s, K, m) : i \in DOMAIN s /\ i \in Nat /\ i < n
  BY <1>2 DEF Of
<1>a. \A K, m : ~(e.id = m /\ e.kind \in K) => Of(t, K, m) = Of(s, K, m)
  <2> SUFFICES ASSUME NEW K, NEW m, ~(e.id = m /\ e.kind \in K) PROVE Of(t, K, m) = Of(s, K, m)
    OBVIOUS
  <2> QED
    BY <1>1, <1>2 DEF Of
<1>b. \A K, m : e.id = m /\ e.kind \in K => n \in Of(t, K, m)
  BY <1>3
<1>5. ASSUME NEW K, NEW m, NEW good, e.id = m, e.kind \in K, e \in good
      PROVE  SaysTrue(t, K, m, good)
  <2> SUFFICES ASSUME NEW i \in Of(t, K, m), \A j \in Of(t, K, m) : j <= i PROVE t[i] \in good
    BY DEF SaysTrue
  <2>1. n \in Of(t, K, m) /\ n <= i
    BY <1>3, <1>5
  <2>2. i = n
    BY <1>3, <1>4, <2>1, <1>1 DEF n
  <2> QED
    BY <1>1, <1>5, <2>2
<1>6. ASSUME NEW K, NEW m, NEW good, ~(e.id = m /\ e.kind \in K), SaysTrue(s, K, m, good)
      PROVE  SaysTrue(t, K, m, good)
  <2>1. Of(t, K, m) = Of(s, K, m)
    BY <1>a, <1>6
  <2> QED
    BY <1>1, <1>4, <1>6, <2>1 DEF SaysTrue
<1>7. ASSUME NEW m, CreatedFirst(s, m), e.id = m /\ e.kind = "create" => Of(s, Feed!Kinds, m) = {}
      PROVE  CreatedFirst(t, m)
  <2> SUFFICES ASSUME NEW i \in Of(t, {"create"}, m), NEW j \in Of(t, Feed!Kinds, m) PROVE i <= j
    BY DEF CreatedFirst
  <2>1. CASE e.id = m /\ e.kind = "create"
    <3>1. "create" \in Feed!Kinds /\ Of(s, Feed!Kinds, m) = {}
      BY <1>7, <2>1 DEF Feed!Kinds
    <3>2. Of(s, {"create"}, m) = {}
      BY <3>1 DEF Of
    <3>3. i = n /\ j = n
      BY <1>3, <3>1, <3>2
    <3> QED
      BY <1>1, <3>3 DEF n
  <2>2. CASE ~(e.id = m /\ e.kind = "create")
    <3>1. i \in Of(s, {"create"}, m)
      BY <1>3, <2>2
    <3>2. CASE j \in Of(s, Feed!Kinds, m)
      BY <1>7, <3>1, <3>2 DEF CreatedFirst
    <3>3. CASE j = n
      BY <1>1, <1>4, <3>1, <3>3 DEF n
    <3> QED
      BY <1>3, <3>2, <3>3
  <2> QED
    BY <2>1, <2>2
<1>8. \A K, m : Of(t, K, m) = {} <=> Of(s, K, m) = {} /\ ~(e.id = m /\ e.kind \in K)
  BY <1>a, <1>b, <1>3
<1>9. \A m : m # e.id => QueueKept(s, t, m)
  BY <1>6, <1>7, <1>8 DEF QueueKept
<1> QED
  BY <1>1, <1>5, <1>6, <1>7, <1>8, <1>9 DEF t

(* An event that is read was the last about its message, or the others     *)
(* still say what they said.                                               *)
LEMMA QueueRead ==
    ASSUME NEW s \in Seq(Events), s # <<>>
    PROVE  /\ Head(s) \in Events /\ Tail(s) \in Seq(Events)
           /\ \A m : m # Head(s).id => QueueKept(s, Tail(s), m)
           /\ \A K, m : Of(s, K, m) = {}
                 <=> Of(Tail(s), K, m) = {} /\ ~(Head(s).id = m /\ Head(s).kind \in K)
           /\ \A K, m, good : SaysTrue(s, K, m, good) => SaysTrue(Tail(s), K, m, good)
           /\ \A K, m, good : SaysTrue(s, K, m, good) /\ Of(Tail(s), K, m) = {}
                                 /\ Head(s).id = m /\ Head(s).kind \in K => Head(s) \in good
           /\ \A m : CreatedFirst(s, m) => CreatedFirst(Tail(s), m)
           /\ \A m : CreatedFirst(s, m) /\ Head(s).id = m => Of(Tail(s), {"create"}, m) = {}
<1> DEFINE t == Tail(s)
           e == Head(s)
<1>1. /\ t \in Seq(Events) /\ e \in Events /\ e = s[1]
      /\ DOMAIN s = 1..Len(s) /\ DOMAIN t = 1..(Len(s) - 1) /\ Len(s) \in Nat
      /\ \A i \in DOMAIN t : t[i] = s[i + 1]
  OBVIOUS
<1> HIDE DEF t, e
<1>2. /\ 1 \in DOMAIN s /\ \A i \in DOMAIN t : i + 1 \in DOMAIN s /\ i \in Nat /\ t[i] = s[i + 1]
      /\ \A i \in DOMAIN s : i \in Nat /\ (i = 1 \/ (i - 1 \in DOMAIN t /\ t[i - 1] = s[i]))
  <2>1. Len(s) # 0
    OBVIOUS
  <2> QED
    BY <1>1, <2>1
<1>3. \A K, m : \A i \in Of(t, K, m) : i + 1 \in Of(s, K, m) /\ i \in Nat /\ t[i] = s[i + 1]
  BY <1>2 DEF Of
<1>4. \A K, m : \A i \in Of(s, K, m) :
          i \in Nat /\ ((i = 1 /\ e.id = m /\ e.kind \in K) \/ i - 1 \in Of(t, K, m))
  BY <1>1, <1>2 DEF Of
<1>5. \A K, m : e.id = m /\ e.kind \in K => 1 \in Of(s, K, m)
  BY <1>1, <1>2 DEF Of
<1>6. ASSUME NEW K, NEW m
      PROVE  Of(s, K, m) = {} <=> Of(t, K, m) = {} /\ ~(e.id = m /\ e.kind \in K)
  <2>1. Of(s, K, m) = {} => Of(t, K, m) = {}
    BY <1>3
  <2>2. Of(s, K, m) = {} => ~(e.id = m /\ e.kind \in K)
    BY <1>5
  <2>3. Of(t, K, m) = {} /\ ~(e.id = m /\ e.kind \in K) => Of(s, K, m) = {}
    BY <1>4
  <2> QED
    BY <2>1, <2>2, <2>3
<1>7. ASSUME NEW K, NEW m, NEW good, SaysTrue(s, K, m, good)
      PROVE  SaysTrue(t, K, m, good)
  <2> SUFFICES ASSUME NEW i \in Of(t, K, m), \A j \in Of(t, K, m) : j <= i PROVE t[i] \in good
    BY DEF SaysTrue
  <2>1. ASSUME NEW j \in Of(s, K, m) PROVE j <= i + 1
    <3>1. i \in Nat /\ j \in Nat /\ (j - 1 \in Of(t, K, m) => j - 1 <= i)
      BY <1>3, <1>4
    <3> QED
      BY <1>4, <3>1
  <2> QED
    BY <1>3, <1>7, <2>1 DEF SaysTrue
<1>8. ASSUME NEW K, NEW m, NEW good, SaysTrue(s, K, m, good), Of(t, K, m) = {},
             e.id = m, e.kind \in K
      PROVE  e \in good
  <2>1. 1 \in Of(s, K, m) /\ \A j \in Of(s, K, m) : j = 1
    BY <1>4, <1>5, <1>8
  <2> QED
    BY <1>1, <1>8, <2>1 DEF SaysTrue
<1>9. ASSUME NEW m, CreatedFirst(s, m) PROVE CreatedFirst(t, m)
  <2> SUFFICES ASSUME NEW i \in Of(t, {"create"}, m), NEW j \in Of(t, Feed!Kinds, m) PROVE i <= j
    BY DEF CreatedFirst
  <2>1. i + 1 <= j + 1 /\ i \in Nat /\ j \in Nat
    BY <1>3, <1>9 DEF CreatedFirst
  <2> QED
    BY <2>1
<1>10. ASSUME NEW m, CreatedFirst(s, m), e.id = m PROVE Of(t, {"create"}, m) = {}
  <2> SUFFICES ASSUME NEW i \in Of(t, {"create"}, m) PROVE FALSE
    OBVIOUS
  <2>1. i + 1 \in Of(s, {"create"}, m) /\ i \in Nat /\ i # 0
    BY <1>1, <1>3 DEF Of
  <2>2. 1 \in Of(s, Feed!Kinds, m)
    BY <1>1, <1>5, <1>10 DEF Events
  <2> QED
    BY <1>10, <2>1, <2>2 DEF CreatedFirst
<1>11. \A m : m # e.id => QueueKept(s, t, m)
  BY <1>6, <1>7, <1>9 DEF QueueKept
<1> QED
  BY <1>1, <1>6, <1>7, <1>8, <1>9, <1>10, <1>11 DEF t, e

-----------------------------------------------------------------------------
(* Changing an entry of the list: the first entry of a message.            *)
LEMMA FirstIs ==
    ASSUME FeedTypes, NEW m, Feed!Where(m) # {}
    PROVE  Feed!FirstOf(m) \in DOMAIN feed_list /\ feed_list[Feed!FirstOf(m)].id = m
<1>1. Feed!Where(m) \subseteq Nat
  BY DEF Feed!Where, FeedTypes, Feed!TypeOK
<1>2. PICK n \in Feed!Where(m) : \A t \in Feed!Where(m) : <<t, n>> \notin OpToRel(<, Nat)
  BY <1>1, NatLessThanWellFounded, WFMin
<1>3. \A t \in Feed!Where(m) : ~(t < n) /\ t \in Nat /\ n \in Nat
  BY <1>1, <1>2 DEF OpToRel
<1>4. \A t \in Feed!Where(m) : n <= t
  BY <1>3
<1> QED
  BY <1>4 DEF Feed!FirstOf, Feed!Where

(* An entry that is replaced leaves the others alone.                      *)
LEMMA PatchIs ==
    ASSUME FeedTypes, NEW n \in Feed!Msgs, NEW e \in Feed!Entries, e.id = n
    PROVE  /\ Feed!Patch(n, e) \in Seq(Feed!Entries)
           /\ \A m : m # n => In(Feed!Patch(n, e), m) = In(feed_list, m)
           /\ \A m : Once(feed_list, m) => Once(Feed!Patch(n, e), m)
           /\ In(Feed!Patch(n, e), n) = {} <=> In(feed_list, n) = {}
           /\ Once(feed_list, n) => In(Feed!Patch(n, e), n) \subseteq {e}
<1>0. feed_list \in Seq(Feed!Entries)
  BY DEF FeedTypes, Feed!TypeOK
<1>1. CASE Feed!Where(n) = {}
  BY <1>0, <1>1 DEF Feed!Patch, In, Feed!Where
<1>2. CASE Feed!Where(n) # {}
  <2>1. Feed!FirstOf(n) \in DOMAIN feed_list /\ feed_list[Feed!FirstOf(n)].id = n
    BY <1>2, FirstIs
  <2>2. Feed!Patch(n, e) = [feed_list EXCEPT ![Feed!FirstOf(n)] = e]
    BY <1>2 DEF Feed!Patch
  <2>3. PICK k, u : k = Feed!FirstOf(n) /\ u = Feed!Patch(n, e)
    OBVIOUS
  <2>4. Replaces(u, feed_list, k, e)
    BY <2>1, <2>2, <2>3 DEF Replaces
  <2>5. /\ u \in Seq(Feed!Entries)
        /\ \A m : m # e.id => In(u, m) = In(feed_list, m)
        /\ \A m : Once(feed_list, m) => Once(u, m)
        /\ In(feed_list, e.id) # {} /\ In(u, e.id) # {}
        /\ Once(feed_list, e.id) => In(u, e.id) = {e} /\ In(feed_list, e.id) = {feed_list[k]}
    BY <1>0, <2>4, ReplacedIs
  <2> QED
    BY <2>3, <2>5
<1> QED
  BY <1>1, <1>2

(* So does one whose pin is set, and it keeps its text.                    *)
LEMMA SetPinIs ==
    ASSUME FeedTypes, NEW n \in Feed!Msgs, NEW p \in BOOLEAN
    PROVE  /\ Feed!SetPin(n, p) \in Seq(Feed!Entries)
           /\ \A m : m # n => In(Feed!SetPin(n, p), m) = In(feed_list, m)
           /\ \A m : Once(feed_list, m) => Once(Feed!SetPin(n, p), m)
           /\ In(Feed!SetPin(n, p), n) = {} <=> In(feed_list, n) = {}
           /\ Once(feed_list, n) => \A f \in In(Feed!SetPin(n, p), n) :
                 f.pinned = p /\ \E g \in In(feed_list, n) : f.text = g.text
<1>0. feed_list \in Seq(Feed!Entries)
  BY DEF FeedTypes, Feed!TypeOK
<1>1. CASE Feed!Where(n) = {}
  BY <1>0, <1>1 DEF Feed!SetPin, In, Feed!Where
<1>2. CASE Feed!Where(n) # {}
  <2> DEFINE k == Feed!FirstOf(n)
             e == [feed_list[k] EXCEPT !.pinned = p]
  <2>1. k \in DOMAIN feed_list /\ feed_list[k].id = n
    BY <1>2, FirstIs
  <2>2. Feed!SetPin(n, p) = [feed_list EXCEPT ![k] = e]
    BY <1>2 DEF Feed!SetPin
  <2>3. feed_list[k] \in Feed!Entries
    BY <1>0, <2>1
  <2>4. e \in Feed!Entries /\ e.id = n /\ e.pinned = p /\ e.text = feed_list[k].text
    BY <2>1, <2>3 DEF Feed!Entries
  <2> HIDE DEF e, k
  <2>5. PICK u : u = Feed!SetPin(n, p)
    OBVIOUS
  <2>6. Replaces(u, feed_list, k, e)
    BY <2>1, <2>2, <2>4, <2>5 DEF Replaces
  <2>7. /\ u \in Seq(Feed!Entries)
        /\ \A m : m # e.id => In(u, m) = In(feed_list, m)
        /\ \A m : Once(feed_list, m) => Once(u, m)
        /\ In(feed_list, e.id) # {} /\ In(u, e.id) # {}
        /\ Once(feed_list, e.id) => In(u, e.id) = {e} /\ In(feed_list, e.id) = {feed_list[k]}
    BY <1>0, <2>4, <2>6, ReplacedIs
  <2> QED
    BY <2>4, <2>5, <2>7
<1> QED
  BY <1>1, <1>2

(* What reading an event does to the list.                                 *)
LEMMA ReadIs ==
    ASSUME FeedTypes, Feed!ReadEvent, NEW e, e = Head(feed_inbox)
    PROVE  /\ feed_inbox # <<>> /\ e \in Events /\ e.id \in Feed!Msgs /\ e.row.id = e.id
           /\ feed_list' \in Seq(Feed!Entries)
           /\ \A m : m # e.id => In(feed_list', m) = In(feed_list, m) /\ (Once(feed_list, m) => Once(feed_list', m))
           /\ e.kind = "create" => /\ In(feed_list', e.id) = {e.row} \cup In(feed_list, e.id)
                                   /\ In(feed_list, e.id) = {} => Once(feed_list', e.id)
           /\ e.kind \in GoneKinds => In(feed_list', e.id) = {} /\ Once(feed_list', e.id)
           /\ e.kind \notin ThereKinds => /\ In(feed_list', e.id) = {} <=> In(feed_list, e.id) = {}
                                          /\ Once(feed_list, e.id) => Once(feed_list', e.id)
           /\ e.kind = "edit" /\ Once(feed_list, e.id) => In(feed_list', e.id) \subseteq {e.row}
           /\ e.kind \in {"pin", "unpin"} /\ Once(feed_list, e.id) =>
                 \A f \in In(feed_list', e.id) :
                    (f.pinned <=> e.kind = "pin") /\ \E g \in In(feed_list, e.id) : f.text = g.text
           /\ e.kind \in ReactKinds => feed_list' = feed_list
<1>1. feed_inbox # <<>> /\ e \in Events /\ e.row.id = e.id
  BY DEF Feed!ReadEvent, FeedTypes
<1>2. e.id \in Feed!Msgs /\ e.row \in Feed!Entries /\ e.kind \in Feed!Kinds
  BY <1>1 DEF Events
<1>3. feed_list \in Seq(Feed!Entries)
  BY DEF FeedTypes, Feed!TypeOK
<1>4. CASE e.kind = "create"
  <2>1. feed_list' = <<e.row>> \o feed_list
    BY <1>4 DEF Feed!ReadEvent
  <2>2. PICK d, u : d = e.row /\ u = feed_list'
    OBVIOUS
  <2>3. Heads(u, d, feed_list) /\ d \in Feed!Entries
    BY <1>2, <2>1, <2>2 DEF Heads
  <2>4. /\ u \in Seq(Feed!Entries)
        /\ \A m : m # d.id => In(u, m) = In(feed_list, m)
        /\ \A m : m # d.id /\ Once(feed_list, m) => Once(u, m)
        /\ In(u, d.id) = {d} \cup In(feed_list, d.id)
        /\ In(feed_list, d.id) = {} => Once(u, d.id)
    BY <1>3, <2>3, ConsIs
  <2> QED
    BY <1>1, <1>2, <1>4, <2>2, <2>4 DEF GoneKinds, ThereKinds, ReactKinds
<1>5. CASE e.kind = "edit"
  <2>1. feed_list' = Feed!Patch(e.id, e.row)
    BY <1>5 DEF Feed!ReadEvent
  <2> QED
    BY <1>1, <1>2, <1>3, <1>5, <2>1, PatchIs DEF GoneKinds, ThereKinds, ReactKinds
<1>6. CASE e.kind = "pin"
  <2>1. feed_list' = Feed!SetPin(e.id, TRUE)
    BY <1>6 DEF Feed!ReadEvent
  <2> QED
    BY <1>1, <1>2, <1>3, <1>6, <2>1, SetPinIs DEF GoneKinds, ThereKinds, ReactKinds
<1>7. CASE e.kind = "unpin"
  <2>1. feed_list' = Feed!SetPin(e.id, FALSE)
    BY <1>7 DEF Feed!ReadEvent
  <2> QED
    BY <1>1, <1>2, <1>3, <1>7, <2>1, SetPinIs DEF GoneKinds, ThereKinds, ReactKinds
<1>8. CASE e.kind \in GoneKinds
  <2>1. feed_list' = Feed!Without(feed_list, e.id)
    BY <1>8 DEF Feed!ReadEvent, GoneKinds
  <2>2. /\ Feed!Without(feed_list, e.id) \in Seq(Feed!Entries)
        /\ \A m : In(Feed!Without(feed_list, e.id), m) = IF m = e.id THEN {} ELSE In(feed_list, m)
        /\ \A m : Once(feed_list, m) => Once(Feed!Without(feed_list, e.id), m)
    BY <1>3, WithoutIs
  <2>3. In(feed_list', e.id) = {}
    BY <2>1, <2>2
  <2>4. Once(feed_list', e.id)
    BY <2>3 DEF In, Once
  <2> QED
    BY <1>1, <1>2, <1>8, <2>1, <2>2, <2>3, <2>4 DEF GoneKinds, ThereKinds, ReactKinds
<1>9. CASE e.kind \in ReactKinds
  <2>1. feed_list' = feed_list
    BY <1>9 DEF Feed!ReadEvent, ReactKinds
  <2> QED
    BY <1>1, <1>2, <1>3, <1>9, <2>1 DEF GoneKinds, ThereKinds, ReactKinds
<1> QED
  BY <1>2, <1>4, <1>5, <1>6, <1>7, <1>8, <1>9 DEF Feed!Kinds, GoneKinds, ReactKinds

-----------------------------------------------------------------------------
(* The types.                                                              *)
LEMMA UnderwayIs == FeedTypes => Feed!Underway \subseteq Feed!Msgs /\ Feed!OnTheWay \subseteq Feed!Msgs
<1> SUFFICES ASSUME FeedTypes PROVE Feed!Underway \subseteq Feed!Msgs /\ Feed!OnTheWay \subseteq Feed!Msgs
  OBVIOUS
<1>1. \A i \in DOMAIN feed_inbox : feed_inbox[i] \in Events
  BY DEF FeedTypes
<1> QED
  BY <1>1 DEF Feed!Underway, Feed!OnTheWay, Events

(* And the steps keep them.                                                *)
LEMMA FeedTypeStep == FeedAssumption /\ FeedTypes /\ IdsInv /\ [Feed!Next]_(Feed!vars) => FeedTypes'
<1> SUFFICES ASSUME FeedAssumption, FeedTypes, IdsInv, [Feed!Next]_(Feed!vars) PROVE FeedTypes'
  OBVIOUS
<1> USE DEF Feed!db, Feed!request, Feed!loads, Feed!scroll, Feed!view, Feed!past
<1>0. MaxMsgs \in Nat /\ \A m \in Feed!Msgs : m \in 0..MaxMsgs
  BY DEF FeedAssumption, Feed!Msgs
<1>1. CASE UNCHANGED Feed!vars
  BY <1>1 DEF Feed!vars, FeedTypes, Feed!TypeOK
<1>2. ASSUME NEW r \in Requests, NEW k \in Feed!Kinds, NEW m \in Feed!Msgs, Feed!Change(r, k, m) PROVE FeedTypes'
  <2>1. /\ rows' \subseteq Feed!Msgs /\ pinned' \subseteq Feed!Msgs /\ react' \subseteq Feed!Msgs
        /\ text' \in [Feed!Msgs -> Nat] /\ last' \in 0..MaxMsgs
    <3>1. Feed!Statement(k, m) /\ k \in Feed!Kinds
      BY <1>2 DEF Feed!Change
    <3>2. /\ rows \subseteq Feed!Msgs /\ pinned \subseteq Feed!Msgs /\ react \subseteq Feed!Msgs
          /\ text \in [Feed!Msgs -> Nat] /\ last \in 0..MaxMsgs
      BY DEF FeedTypes, Feed!TypeOK
    <3>3. /\ rows' \subseteq Feed!Msgs /\ pinned' \subseteq Feed!Msgs /\ react' \subseteq Feed!Msgs
          /\ last' \in 0..MaxMsgs
      BY <1>0, <3>1, <3>2 DEF Feed!Statement
    <3>4. text' \in [Feed!Msgs -> Nat]
      BY <3>1, <3>2 DEF Feed!Statement
    <3> QED
      BY <3>3, <3>4
  <2>2. [id |-> m, text |-> text'[m], pinned |-> m \in pinned'] \in Feed!Entries
    BY <2>1 DEF Feed!Entries
  <2> QED
    BY <1>0, <1>2, <2>1, <2>2 DEF Feed!Change, FeedTypes, Feed!TypeOK
<1>3. ASSUME NEW r \in Requests, Feed!Tell(r) PROVE FeedTypes'
  <2> DEFINE e == [kind |-> feed_kind[r], id |-> msg[r], row |-> data[r]]
  <2>1. e \in Events /\ e.row.id = e.id
    BY <1>3 DEF Feed!Tell, FeedTypes, Events
  <2>2. feed_inbox' \in Seq(Events) /\ \A i \in DOMAIN feed_inbox' : feed_inbox'[i].row.id = feed_inbox'[i].id
    <3>1. CASE feed_inbox' = feed_inbox
      BY <3>1 DEF FeedTypes
    <3>2. CASE feed_inbox' = Append(feed_inbox, e)
      <4> HIDE DEF e
      <4> QED
        BY <2>1, <3>2 DEF FeedTypes
    <3> QED
      BY <1>3, <3>1, <3>2 DEF Feed!Tell
  <2>3. /\ feed_pc' \in [Requests -> {"new", "tell", "local", "done"}]
        /\ feed_kind' \in [Requests -> Feed!Kinds \cup {"none"}]
        /\ data' \in [Requests -> Feed!Entries \cup {Feed!NoRow}]
        /\ \A q \in Requests : q # r => feed_pc'[q] = feed_pc[q] /\ feed_kind'[q] = feed_kind[q] /\ data'[q] = data[q]
        /\ feed_pc'[r] # "tell" /\ msg' = msg /\ feed_pc[r] = "tell"
    BY <1>3 DEF Feed!Tell, FeedTypes, Feed!TypeOK
  <2>4. /\ \A q \in Requests : feed_pc'[q] = "tell" =>
              feed_kind'[q] \in Feed!Kinds /\ data'[q] \in Feed!Entries /\ data'[q].id = msg'[q]
        /\ \A q \in Requests : feed_pc'[q] \in {"tell", "local"} => msg'[q] \in Feed!Msgs
    BY <2>3 DEF FeedTypes
  <2> HIDE DEF e
  <2> QED
    BY <1>3, <2>2, <2>3, <2>4 DEF Feed!Tell, FeedTypes, Feed!TypeOK
<1>4. ASSUME NEW r \in Requests, Feed!DeleteLocally(r) PROVE FeedTypes'
  <2>1. Feed!Without(feed_list, msg[r]) \in Seq(Feed!Entries)
    BY WithoutIs DEF FeedTypes, Feed!TypeOK
  <2> QED
    BY <1>4, <2>1 DEF Feed!DeleteLocally, FeedTypes, Feed!TypeOK
<1>5. ASSUME Feed!ReadEvent PROVE FeedTypes'
  <2>1. PICK e : e = Head(feed_inbox)
    OBVIOUS
  <2>2. feed_list' \in Seq(Feed!Entries) /\ feed_inbox # <<>> /\ e.id \in Feed!Msgs
    BY <1>5, <2>1, ReadIs
  <2>3. reactions' \subseteq Feed!Msgs
    BY <1>5, <2>1, <2>2 DEF Feed!ReadEvent, FeedTypes, Feed!TypeOK
  <2>4. feed_inbox' = Tail(feed_inbox)
    BY <1>5 DEF Feed!ReadEvent
  <2>5. feed_inbox' \in Seq(Events) /\ \A i \in DOMAIN feed_inbox' : feed_inbox'[i].row.id = feed_inbox'[i].id
    BY <2>2, <2>4 DEF FeedTypes
  <2> QED
    BY <1>5, <2>2, <2>3, <2>5 DEF Feed!ReadEvent, FeedTypes, Feed!TypeOK
<1>6. ASSUME NEW l \in FeedLoads, Feed!GetPage(l) PROVE FeedTypes'
  <2>1. Feed!Page(MaxMsgs + 1) \in Seq(Feed!Entries)
    BY <1>0, PageIs
  <2>2. Feed!Underway \subseteq Feed!Msgs /\ Feed!OnTheWay \subseteq Feed!Msgs
    BY UnderwayIs
  <2> QED
    BY <1>6, <2>1, <2>2 DEF Feed!GetPage, FeedTypes, Feed!TypeOK
<1>7. ASSUME NEW l \in FeedLoads, Feed!StorePage(l) PROVE FeedTypes'
  BY <1>7 DEF Feed!StorePage, Feed!NoPage, FeedTypes, Feed!TypeOK
<1>8. ASSUME NEW l \in FeedLoads, Feed!ServeSubscribe(l) PROVE FeedTypes'
  BY <1>8 DEF Feed!ServeSubscribe, FeedTypes, Feed!TypeOK
<1>9. ASSUME NEW timeout \in BOOLEAN, Feed!Frame(timeout) PROVE FeedTypes'
  BY <1>9 DEF Feed!Frame, FeedTypes, Feed!TypeOK
<1>10. ASSUME NEW o \in Olders, Feed!StartOlder(o) PROVE FeedTypes'
  <2>1. feed_list[1] \in Feed!Entries /\ Len(feed_list) \in Nat
    BY <1>10 DEF Feed!StartOlder, FeedTypes, Feed!TypeOK
  <2>2. Feed!Oldest \in 0..MaxMsgs
    BY <1>0, <2>1 DEF Feed!Oldest, Feed!Entries
  <2> QED
    BY <1>10, <2>1, <2>2 DEF Feed!StartOlder, FeedTypes, Feed!TypeOK
<1>11. ASSUME NEW o \in Olders, Feed!GetOlder(o) PROVE FeedTypes'
  <2>1. Feed!Page(from[o]) \in Seq(Feed!Entries)
    BY <1>0, PageIs DEF FeedTypes, Feed!TypeOK
  <2>2. Feed!Underway \subseteq Feed!Msgs /\ Feed!OnTheWay \subseteq Feed!Msgs
    BY UnderwayIs
  <2>3. /\ from' \in [Olders -> 0..MaxMsgs] /\ raced' \subseteq Feed!Msgs
        /\ older' \in [Olders -> {"new", "get", "extend", "done"}]
        /\ olderPage' \in [Olders -> Seq(Feed!Entries)]
    <3>1. from' \in [Olders -> 0..MaxMsgs]
      BY <1>0, <1>11 DEF Feed!GetOlder, FeedTypes, Feed!TypeOK
    <3>2. CASE from[o] \in rows
      <4>1. /\ olderPage' = [olderPage EXCEPT ![o] = Feed!Page(from[o])]
            /\ older' = [older EXCEPT ![o] = "extend"]
            /\ raced' = raced \cup Feed!Underway \cup Feed!OnTheWay
        BY <1>11, <3>2 DEF Feed!GetOlder
      <4>2. raced' \subseteq Feed!Msgs
        BY <1>0, <4>1, <2>2 DEF FeedTypes, Feed!TypeOK
      <4>3. older' \in [Olders -> {"new", "get", "extend", "done"}]
        BY <1>0, <4>1 DEF FeedTypes, Feed!TypeOK
      <4>4. olderPage' \in [Olders -> Seq(Feed!Entries)]
        BY <1>0, <4>1, <2>1 DEF FeedTypes
      <4> QED
        BY <3>1, <4>2, <4>3, <4>4
    <3>3. CASE from[o] \notin rows
      BY <1>11, <3>1, <3>3 DEF Feed!GetOlder, FeedTypes, Feed!TypeOK
    <3> QED
      BY <3>2, <3>3
  <2>4. UNCHANGED <<Feed!db, Feed!request, feed_list, reactions, subscribed, feed_inbox, Feed!loads,
                    loading, reached_end, last_count, again, bare>>
    BY <1>11 DEF Feed!GetOlder
  <2> QED
    BY <2>3, <2>4 DEF FeedTypes, Feed!TypeOK
<1>12. ASSUME NEW o \in Olders, Feed!ExtendOlder(o) PROVE FeedTypes'
  <2>1. olderPage[o] \in Seq(Feed!Entries) /\ feed_list \in Seq(Feed!Entries)
    BY DEF FeedTypes, Feed!TypeOK
  <2>2. Feed!Ids(feed_list) \subseteq Feed!Msgs /\ Feed!Ids(olderPage[o]) \subseteq Feed!Msgs
    BY <2>1, InIs
  <2>3. feed_list \o olderPage[o] \in Seq(Feed!Entries)
    BY <2>1
  <2> QED
    BY <1>12, <2>2, <2>3 DEF Feed!ExtendOlder, FeedTypes, Feed!TypeOK
<1>13. ASSUME NEW r \in Requests, Feed!Untold(r) PROVE FeedTypes'
  <2>1. /\ feed_pc' \in [Requests -> {"new", "tell", "local", "done"}]
        /\ feed_kind' \in [Requests -> Feed!Kinds \cup {"none"}]
        /\ data' \in [Requests -> Feed!Entries \cup {Feed!NoRow}]
        /\ \A q \in Requests : q # r => feed_pc'[q] = feed_pc[q] /\ feed_kind'[q] = feed_kind[q] /\ data'[q] = data[q]
        /\ feed_pc'[r] = "done" /\ msg' = msg /\ feed_pc[r] = "tell"
    BY <1>13 DEF Feed!Untold, FeedTypes, Feed!TypeOK
  <2>2. raced' \subseteq Feed!Msgs
    BY <1>13 DEF Feed!Untold, FeedTypes, Feed!TypeOK
  <2>3. /\ \A q \in Requests : feed_pc'[q] = "tell" =>
              feed_kind'[q] \in Feed!Kinds /\ data'[q] \in Feed!Entries /\ data'[q].id = msg'[q]
        /\ \A q \in Requests : feed_pc'[q] \in {"tell", "local"} => msg'[q] \in Feed!Msgs
    BY <2>1 DEF FeedTypes
  <2> QED
    BY <1>13, <2>1, <2>2, <2>3 DEF Feed!Untold, FeedTypes, Feed!TypeOK
<1> QED
  BY <1>1, <1>2, <1>3, <1>4, <1>5, <1>6, <1>7, <1>8, <1>9, <1>10, <1>11, <1>12,
     <1>13 DEF Feed!Next

-----------------------------------------------------------------------------
(* What a step leaves of a message that it is not about.                   *)
SameRow(m) ==
    /\ text'[m] = text[m] /\ (m \in pinned' <=> m \in pinned)
    /\ (m \in rows' <=> m \in rows) /\ (m \in react' <=> m \in react)
SameRequests(m) == \A K : TellingOf(K, m)' = TellingOf(K, m)
SameShown(m) ==
    /\ In(feed_list', m) = In(feed_list, m) /\ (Once(feed_list, m) => Once(feed_list', m))
    /\ m \in reactions' <=> m \in reactions
    /\ m \in again => m \in again'
    /\ m \in bare => m \in bare'
SamePages ==
    /\ \A l \in FeedLoads : load'[l] = "insert" => load[l] = "insert" /\ page'[l] = page[l]
    /\ \A o \in Olders : older'[o] = "extend" => older[o] = "extend" /\ olderPage'[o] = olderPage[o]

(* Nothing comes or goes of such a message.                                *)
LEMMA SettledStays ==
    ASSUME NEW m, SameRequests(m), QueueKept(feed_inbox, feed_inbox', m)
    PROVE  /\ \A K : Settled(K, m)' <=> Settled(K, m)
           /\ ComingOf(m)' <=> ComingOf(m)
  BY DEF SameRequests, QueueKept, Settled, ComingOf

(* Its pages stay as they are.                                             *)
LEMMA PagesStay ==
    ASSUME NEW m, Pages(m), SameRow(m), SamePages
    PROVE  Pages(m)' /\ (Hidden(m) => Hidden(m)')
<1>1. Feed!Row(m)' = Feed!Row(m) /\ (m \in rows' <=> m \in rows) /\ (m \in react' <=> m \in react)
  BY DEF SameRow, Feed!Row
<1>2. ASSUME NEW l \in FeedLoads, load'[l] = "insert"
      PROVE  /\ load[l] = "insert" /\ page'[l] = page[l]
             /\ Right(page[l].rows, m)' /\ (m \in rows' => (m \in page'[l].reacted <=> m \in react'))
  BY <1>1, <1>2 DEF Pages, SamePages, Right
<1>3. ASSUME NEW o \in Olders, older'[o] = "extend"
      PROVE  older[o] = "extend" /\ olderPage'[o] = olderPage[o] /\ Right(olderPage[o], m)'
  BY <1>1, <1>3 DEF Pages, SamePages, Right
<1>4. Pages(m)'
  BY <1>2, <1>3 DEF Pages
<1>5. Hidden(m) => Hidden(m)'
  BY <1>2, <1>3, SMTT(30) DEF Hidden, In
<1> QED
  BY <1>4, <1>5

(* And so does all that is known of it.                                    *)
LEMMA MessageStays ==
    ASSUME NEW m, OfMessage(m), SameRow(m), SameRequests(m), QueueKept(feed_inbox, feed_inbox', m),
           SameShown(m), Pages(m)', ComingOf(m) => Hidden(m)'
    PROVE  OfMessage(m)'
<1>1. /\ \A K : Settled(K, m)' <=> Settled(K, m)
      /\ ComingOf(m)' <=> ComingOf(m)
  BY SettledStays
<1>2. SaysOf(m)'
  <2>1. /\ GoodText(m)' = GoodText(m) /\ GoodPin(m)' = GoodPin(m)
        /\ GoodThere(m)' = GoodThere(m) /\ GoodReact(m)' = GoodReact(m)
    BY DEF SameRow, GoodText, GoodPin, GoodThere, GoodReact
  <2>2. \A K, good : SaysTrue(feed_inbox, K, m, good) => SaysTrue(feed_inbox', K, m, good)
    BY DEF QueueKept
  <2> QED
    BY <2>1, <2>2 DEF OfMessage, SaysOf, SameRequests, SameRow
<1>3. (m \notin again => Shows(m))'
  BY <1>1 DEF OfMessage, Shows, SameShown, SameRow
<1>4. Reacts(m)'
  BY <1>1 DEF OfMessage, Reacts, SameShown, SameRow
<1>5. Comes(m)'
  BY <1>1 DEF OfMessage, Comes, SameShown, SameRow, SameRequests, QueueKept
<1> QED
  BY <1>2, <1>3, <1>4, <1>5 DEF OfMessage

(* The queue as it was is kept, too.                                       *)
LEMMA QueueSame == \A s, m : QueueKept(s, s, m)
  BY DEF QueueKept

-----------------------------------------------------------------------------
(* A statement: what it does to its message, and to the others.            *)
LEMMA ChangeIs ==
    ASSUME FeedTypes, NEW r \in Requests, NEW k \in Feed!Kinds, NEW n \in Feed!Msgs, Feed!Change(r, k, n)
    PROVE  /\ \A m \in Feed!Msgs : m # n => SameRow(m)
           /\ k = "create" => n = last + 1 /\ last' = n
           /\ k # "create" => n \in rows /\ last' = last
           /\ n \in rows' <=> k \notin GoneKinds
           /\ k \notin ThereKinds => n \in rows
           /\ k \notin TextKinds => text'[n] = text[n]
           /\ k \notin PinKinds => (n \in pinned' <=> n \in pinned)
           /\ k \notin ReactKinds \cup GoneKinds => (n \in react' <=> n \in react)
           /\ k \in GoneKinds => n \notin react'
           /\ (k = "pin" => n \in pinned') /\ (k = "unpin" => n \notin pinned')
           /\ (k = "react" => n \in react') /\ (k = "unreact" => n \notin react')
           /\ data'[r] = Feed!Row(n)' /\ feed_pc[r] = "new" /\ feed_pc'[r] = "tell" /\ feed_kind'[r] = k /\ msg'[r] = n
           /\ \A q \in Requests : q # r => /\ feed_pc'[q] = feed_pc[q] /\ feed_kind'[q] = feed_kind[q]
                                           /\ msg'[q] = msg[q] /\ data'[q] = data[q]
           /\ \A K, m : TellingOf(K, m)' = TellingOf(K, m) \cup (IF m = n /\ k \in K THEN {r} ELSE {})
           /\ n \notin raced' => ~Feed!LoadOpen /\ n \notin Feed!Underway
           /\ raced \subseteq raced' /\ raced' \subseteq raced \cup {n}
           /\ Feed!Underway' = Feed!Underway \cup {n}
           /\ UNCHANGED <<feed_list, reactions, subscribed, feed_inbox, Feed!loads, Feed!view, again, bare>>
<1> USE DEF Feed!Change, FeedTypes, Feed!TypeOK
<1>1. /\ data'[r] = Feed!Row(n)' /\ feed_pc[r] = "new" /\ feed_pc'[r] = "tell" /\ feed_kind'[r] = k /\ msg'[r] = n
      /\ \A q \in Requests : q # r => /\ feed_pc'[q] = feed_pc[q] /\ feed_kind'[q] = feed_kind[q]
                                      /\ msg'[q] = msg[q] /\ data'[q] = data[q]
  BY DEF Feed!Row
<1>2. /\ \A m \in Feed!Msgs : m # n => SameRow(m)
      /\ k = "create" => n = last + 1 /\ last' = n
      /\ k # "create" => n \in rows /\ last' = last
      /\ n \in rows' <=> k \notin GoneKinds
      /\ k \notin ThereKinds => n \in rows
  BY DEF Feed!Statement, SameRow, Feed!Kinds, GoneKinds, ThereKinds
<1>3. /\ k \notin TextKinds => text'[n] = text[n]
      /\ k \notin PinKinds => (n \in pinned' <=> n \in pinned)
      /\ k \notin ReactKinds \cup GoneKinds => (n \in react' <=> n \in react)
      /\ k \in GoneKinds => n \notin react'
      /\ (k = "pin" => n \in pinned') /\ (k = "unpin" => n \notin pinned')
      /\ (k = "react" => n \in react') /\ (k = "unreact" => n \notin react')
  BY DEF Feed!Statement, TextKinds, PinKinds, ReactKinds, Feed!Kinds, GoneKinds
<1>4. ASSUME NEW K, NEW m
      PROVE  TellingOf(K, m)' = TellingOf(K, m) \cup (IF m = n /\ k \in K THEN {r} ELSE {})
  <2>1. r \notin TellingOf(K, m) /\ (r \in TellingOf(K, m)' <=> m = n /\ k \in K)
    BY <1>1 DEF TellingOf
  <2>2. \A q \in Requests : q # r => (q \in TellingOf(K, m)' <=> q \in TellingOf(K, m))
    BY <1>1 DEF TellingOf
  <2>3. TellingOf(K, m) \subseteq Requests /\ TellingOf(K, m)' \subseteq Requests
    BY DEF TellingOf
  <2> QED
    BY <2>1, <2>2, <2>3
<1>5. /\ n \notin raced' => ~Feed!LoadOpen /\ n \notin Feed!Underway
      /\ raced \subseteq raced' /\ raced' \subseteq raced \cup {n}
  OBVIOUS
<1>6. Feed!Underway' = Feed!Underway \cup {n}
  <2>1. \A m \in Feed!Msgs : m \in Feed!Underway' <=> m = n \/ m \in Feed!Underway
    BY <1>1 DEF Feed!Underway
  <2> QED
    BY <2>1 DEF Feed!Underway
<1> QED
  BY <1>1, <1>2, <1>3, <1>4, <1>5, <1>6

-----------------------------------------------------------------------------
(* A broadcast.                                                            *)
LEMMA TellIs ==
    ASSUME FeedTypes, NEW r \in Requests, Feed!Tell(r), NEW e,
           e = [kind |-> feed_kind[r], id |-> msg[r], row |-> data[r]]
    PROVE  /\ e \in Events /\ e.id = msg[r] /\ e.kind = feed_kind[r] /\ e.row = data[r] /\ e.id \in Feed!Msgs
           /\ feed_inbox' = Append(feed_inbox, e) \/ feed_inbox' = feed_inbox
           /\ subscribed /\ Feed!Announced(r) => feed_inbox' = Append(feed_inbox, e)
           /\ ~subscribed => feed_inbox' = feed_inbox
           /\ feed_pc[r] = "tell" /\ feed_pc'[r] \in {"local", "done"}
           /\ feed_pc'[r] = "local" => feed_kind[r] \in GoneKinds
           /\ \A q \in Requests : q # r =>
                 feed_pc'[q] = feed_pc[q] /\ feed_kind'[q] = feed_kind[q] /\ data'[q] = data[q]
           /\ \A K, m : TellingOf(K, m)' = TellingOf(K, m) \ {r}
           /\ \A K, m : r \in TellingOf(K, m) <=> m = e.id /\ e.kind \in K
           /\ Feed!Underway' \subseteq Feed!Underway /\ e.id \in Feed!Underway
           /\ UNCHANGED <<Feed!db, msg, feed_list, reactions, subscribed, Feed!loads, Feed!view, Feed!past>>
<1> USE DEF Feed!Tell
<1>1. e \in Events /\ e.id = msg[r] /\ e.kind = feed_kind[r] /\ e.row = data[r] /\ e.id \in Feed!Msgs
  BY DEF FeedTypes, Events
<1>2. /\ feed_pc[r] = "tell" /\ feed_pc'[r] \in {"local", "done"}
      /\ feed_pc'[r] = "local" => feed_kind[r] \in GoneKinds
      /\ \A q \in Requests : q # r => feed_pc'[q] = feed_pc[q] /\ feed_kind'[q] = feed_kind[q] /\ data'[q] = data[q]
  BY DEF FeedTypes, Feed!TypeOK, GoneKinds
<1>3. msg' = msg
  OBVIOUS
<1>4. \A K, m : TellingOf(K, m)' = TellingOf(K, m) \ {r}
  BY <1>2, <1>3 DEF TellingOf
<1>5. \A K, m : r \in TellingOf(K, m) <=> m = e.id /\ e.kind \in K
  BY <1>1, <1>2 DEF TellingOf
<1>6. Feed!Underway' \subseteq Feed!Underway /\ e.id \in Feed!Underway
  BY <1>1, <1>2, <1>3 DEF Feed!Underway
<1> QED
  BY <1>1, <1>2, <1>4, <1>5, <1>6

(* A request that ends without its broadcast.                              *)
LEMMA UntoldIs ==
    ASSUME FeedTypes, NEW r \in Requests, Feed!Untold(r)
    PROVE  /\ feed_pc[r] = "tell" /\ feed_pc'[r] = "done" /\ msg[r] \in Feed!Msgs
           /\ \A q \in Requests : q # r =>
                 feed_pc'[q] = feed_pc[q] /\ feed_kind'[q] = feed_kind[q] /\ data'[q] = data[q]
           /\ \A K, m : m # msg[r] => TellingOf(K, m)' = TellingOf(K, m)
           /\ \A K, m : TellingOf(K, m)' \subseteq TellingOf(K, m)
           /\ Feed!Underway' \subseteq Feed!Underway
           /\ raced' = raced \cup {msg[r]}
           /\ UNCHANGED <<rows, text, pinned, react, last, msg, feed_list, reactions, subscribed, feed_inbox,
                          Feed!loads, load, page, Feed!view, older, olderPage, again, bare>>
<1>1. /\ feed_pc[r] = "tell" /\ feed_pc'[r] = "done" /\ msg[r] \in Feed!Msgs /\ msg' = msg
      /\ \A q \in Requests : q # r => feed_pc'[q] = feed_pc[q] /\ feed_kind'[q] = feed_kind[q] /\ data'[q] = data[q]
  BY DEF Feed!Untold, FeedTypes, Feed!TypeOK
<1>2. /\ \A K, m : m # msg[r] => TellingOf(K, m)' = TellingOf(K, m)
      /\ \A K, m : TellingOf(K, m)' \subseteq TellingOf(K, m)
  BY <1>1 DEF TellingOf
<1>3. Feed!Underway' \subseteq Feed!Underway
  BY <1>1 DEF Feed!Underway
<1>4. /\ raced' = raced \cup {msg[r]}
      /\ UNCHANGED <<rows, text, pinned, react, last, feed_list, reactions, subscribed, feed_inbox,
                     Feed!loads, load, page, Feed!view, older, olderPage, again, bare>>
  BY DEF Feed!Untold, Feed!db, Feed!loads, Feed!view, Feed!scroll
<1> QED
  BY <1>1, <1>2, <1>3, <1>4

(* The messages whose events are on their way.                             *)
LEMMA OnTheWayIs ==
    ASSUME FeedTypes
    PROVE  /\ \A i \in DOMAIN feed_inbox : feed_inbox[i] \in Events /\ feed_inbox[i].id \in Feed!OnTheWay
           /\ \A e \in Events : feed_inbox' = Append(feed_inbox, e) =>
                 /\ Feed!OnTheWay' = Feed!OnTheWay \cup {e.id}
                 /\ \A i \in DOMAIN feed_inbox' :
                       feed_inbox'[i] = e \/ \E j \in DOMAIN feed_inbox : feed_inbox'[i] = feed_inbox[j]
           /\ feed_inbox # <<>> => Head(feed_inbox).id \in Feed!OnTheWay
           /\ feed_inbox # <<>> /\ feed_inbox' = Tail(feed_inbox) =>
                 /\ Feed!OnTheWay' \subseteq Feed!OnTheWay
                 /\ \A i \in DOMAIN feed_inbox' : \E j \in DOMAIN feed_inbox : feed_inbox'[i] = feed_inbox[j]
           /\ feed_inbox' = feed_inbox => Feed!OnTheWay' = Feed!OnTheWay
           /\ feed_inbox = <<>> => Feed!OnTheWay = {}
<1>1. feed_inbox \in Seq(Events)
  BY DEF FeedTypes
<1>2. \A i \in DOMAIN feed_inbox : feed_inbox[i] \in Events /\ feed_inbox[i].id \in Feed!OnTheWay
  BY <1>1 DEF Feed!OnTheWay
<1>3. ASSUME NEW e \in Events, feed_inbox' = Append(feed_inbox, e)
      PROVE  /\ Feed!OnTheWay' = Feed!OnTheWay \cup {e.id}
             /\ \A i \in DOMAIN feed_inbox' :
                   feed_inbox'[i] = e \/ \E j \in DOMAIN feed_inbox : feed_inbox'[i] = feed_inbox[j]
  <2>1. /\ DOMAIN feed_inbox' = DOMAIN feed_inbox \cup {Len(feed_inbox) + 1} /\ feed_inbox'[Len(feed_inbox) + 1] = e
        /\ \A i \in DOMAIN feed_inbox : feed_inbox'[i] = feed_inbox[i]
    BY <1>1, <1>3
  <2> QED
    BY <2>1 DEF Feed!OnTheWay
<1>4. ASSUME feed_inbox # <<>> PROVE Head(feed_inbox).id \in Feed!OnTheWay
  <2>1. 1 \in DOMAIN feed_inbox /\ Head(feed_inbox) = feed_inbox[1]
    BY <1>1, <1>4
  <2> QED
    BY <2>1 DEF Feed!OnTheWay
<1>5. ASSUME feed_inbox # <<>>, feed_inbox' = Tail(feed_inbox)
      PROVE  /\ Feed!OnTheWay' \subseteq Feed!OnTheWay
             /\ \A i \in DOMAIN feed_inbox' : \E j \in DOMAIN feed_inbox : feed_inbox'[i] = feed_inbox[j]
  <2>1. \A i \in DOMAIN feed_inbox' : i + 1 \in DOMAIN feed_inbox /\ feed_inbox'[i] = feed_inbox[i + 1]
    BY <1>1, <1>5
  <2>2. \A i \in DOMAIN feed_inbox' : \E j \in DOMAIN feed_inbox : feed_inbox'[i] = feed_inbox[j]
    BY <2>1
  <2> QED
    BY <2>2 DEF Feed!OnTheWay
<1>6. feed_inbox' = feed_inbox => Feed!OnTheWay' = Feed!OnTheWay
  BY DEF Feed!OnTheWay
<1>7. feed_inbox = <<>> => Feed!OnTheWay = {}
  BY DEF Feed!OnTheWay
<1> QED
  BY <1>2, <1>3, <1>4, <1>5, <1>6, <1>7

(* What concerns the requests only is not touched by the other steps.      *)
LEMMA RequestsSame ==
    ASSUME UNCHANGED Feed!request
    PROVE  Feed!Underway' = Feed!Underway /\ \A m : SameRequests(m)
  BY DEF Feed!request, Feed!Underway, SameRequests, TellingOf

(* Numbers are given once.                                                 *)
LEMMA IdsStep == FeedAssumption /\ FeedTypes /\ IdsInv /\ [Feed!Next]_(Feed!vars) => IdsInv'
<1> SUFFICES ASSUME FeedAssumption, FeedTypes, IdsInv, [Feed!Next]_(Feed!vars) PROVE IdsInv'
  OBVIOUS
<1> USE DEF Feed!db, Feed!request, Feed!loads, Feed!scroll, Feed!view, Feed!past
<1>0. last \in Nat /\ rows \subseteq 1..last
  BY DEF FeedTypes, Feed!TypeOK, IdsInv
<1>1. CASE UNCHANGED Feed!vars
  BY <1>1 DEF Feed!vars, IdsInv, Feed!OnTheWay, Feed!Underway
<1>2. ASSUME NEW r \in Requests, NEW k \in Feed!Kinds, NEW n \in Feed!Msgs, Feed!Change(r, k, n) PROVE IdsInv'
  <2>a. /\ k = "create" => n = last + 1 /\ last' = n
        /\ k # "create" => n \in rows /\ last' = last
        /\ \A q \in Requests : q # r => feed_pc'[q] = feed_pc[q] /\ feed_kind'[q] = feed_kind[q] /\ msg'[q] = msg[q]
        /\ feed_pc'[r] = "tell" /\ feed_kind'[r] = k /\ msg'[r] = n /\ Feed!Underway' = Feed!Underway \cup {n}
        /\ n \in rows' <=> k \notin GoneKinds
        /\ UNCHANGED <<feed_list, reactions, subscribed, feed_inbox, Feed!loads, Feed!view, again, bare>>
    BY <1>2, ChangeIs
  <2>b. n \in 1..last' /\ last' \in Nat /\ last <= last'
    <3>1. CASE k = "create"
      BY <1>0, <2>a, <3>1
    <3>2. CASE k # "create"
      <4>1. n \in 1..last /\ last' = last
        BY <1>0, <2>a, <3>2
      <4> QED
        BY <1>0, <4>1
    <3> QED
      BY <3>1, <3>2
  <2>1. /\ n \in 1..last' /\ last' \in Nat /\ last <= last'
        /\ \A q \in Requests : q # r => feed_pc'[q] = feed_pc[q] /\ feed_kind'[q] = feed_kind[q] /\ msg'[q] = msg[q]
        /\ feed_pc'[r] = "tell" /\ feed_kind'[r] = k /\ msg'[r] = n /\ Feed!Underway' = Feed!Underway \cup {n}
        /\ n \in rows' <=> k \notin GoneKinds
        /\ UNCHANGED <<feed_list, reactions, feed_inbox, page, olderPage>>
    BY <2>a, <2>b
  <2>2. rows' \subseteq rows \cup {n} /\ react' \subseteq react \cup {n}
        /\ (n \in rows => rows' \subseteq rows)
    BY <1>2 DEF Feed!Change, Feed!Statement
  <2>3. \A j \in 1..last : j \in 1..last'
    BY <1>0, <2>1
  <2>4. Feed!OnTheWay' = Feed!OnTheWay /\ n \notin rows => \A m \in Feed!OnTheWay \cup Feed!Underway : m # n
    <3>1. n \notin rows => n = last + 1
      BY <1>2, ChangeIs
    <3>2. \A m \in Feed!OnTheWay \cup Feed!Underway : m \in 1..last
      BY DEF IdsInv
    <3> QED
      BY <1>0, <3>1, <3>2
  <2>5. Feed!OnTheWay' = Feed!OnTheWay
    BY <2>1 DEF Feed!OnTheWay
  <2>6. \A q \in Requests : feed_pc[q] \in {"tell", "local"} => msg[q] \in Feed!Underway
    BY DEF Feed!Underway, FeedTypes
  <2>7. \A q \in Requests :
           feed_pc'[q] = "local" \/ (feed_pc'[q] = "tell" /\ feed_kind'[q] \in GoneKinds) => msg'[q] \notin rows'
    BY <2>1, <2>2, <2>4, <2>5, <2>6 DEF IdsInv
  <2>8. \A i \in DOMAIN feed_inbox' : feed_inbox'[i].kind \in GoneKinds => feed_inbox'[i].id \notin rows'
    BY <2>1, <2>2, <2>4, <2>5 DEF IdsInv, Feed!OnTheWay
  <2> QED
    BY <2>1, <2>2, <2>3, <2>5, <2>7, <2>8 DEF IdsInv, Feed!Ids
<1>3. ASSUME NEW r \in Requests, Feed!Tell(r) PROVE IdsInv'
  <2>1. PICK e : e = [kind |-> feed_kind[r], id |-> msg[r], row |-> data[r]]
    OBVIOUS
  <2>2. /\ e \in Events /\ e.id = msg[r] /\ e.kind = feed_kind[r] /\ feed_pc[r] = "tell"
        /\ feed_inbox' = Append(feed_inbox, e) \/ feed_inbox' = feed_inbox
        /\ (feed_pc'[r] = "local" => feed_kind[r] \in GoneKinds) /\ feed_pc'[r] \in {"local", "done"}
        /\ \A q \in Requests : q # r => feed_pc'[q] = feed_pc[q] /\ feed_kind'[q] = feed_kind[q]
        /\ Feed!Underway' \subseteq Feed!Underway /\ e.id \in Feed!Underway
        /\ UNCHANGED <<rows, react, last, msg, feed_list, reactions, page, olderPage>>
    BY <1>3, <2>1, TellIs
  <2>3. Feed!OnTheWay' \subseteq Feed!OnTheWay \cup {e.id}
    BY <2>2, OnTheWayIs
  <2>4. \A q \in Requests :
           feed_pc'[q] = "local" \/ (feed_pc'[q] = "tell" /\ feed_kind'[q] \in GoneKinds) => msg'[q] \notin rows'
    BY <2>2 DEF IdsInv
  <2>5. \A i \in DOMAIN feed_inbox' : feed_inbox'[i] = e \/ \E j \in DOMAIN feed_inbox : feed_inbox'[i] = feed_inbox[j]
    BY <2>2, OnTheWayIs
  <2>6. e.kind \in GoneKinds => e.id \notin rows
    BY <2>2 DEF IdsInv
  <2>7. \A i \in DOMAIN feed_inbox' : feed_inbox'[i].kind \in GoneKinds => feed_inbox'[i].id \notin rows'
    BY <2>2, <2>5, <2>6 DEF IdsInv
  <2> QED
    BY <2>2, <2>3, <2>4, <2>7 DEF IdsInv, Feed!Ids
<1>4. ASSUME NEW r \in Requests, Feed!DeleteLocally(r) PROVE IdsInv'
  <2>1. /\ feed_list' = Feed!Without(feed_list, msg[r]) /\ \A q \in Requests : feed_pc'[q] = feed_pc[q] \/ feed_pc'[q] = "done"
        /\ UNCHANGED <<Feed!db, feed_kind, msg, data, reactions, subscribed, feed_inbox, Feed!loads, Feed!view, Feed!past>>
    BY <1>4 DEF Feed!DeleteLocally, FeedTypes, Feed!TypeOK
  <2>2. Feed!Ids(feed_list') \subseteq Feed!Ids(feed_list)
    <3>1. /\ Feed!Without(feed_list, msg[r]) \in Seq(Feed!Entries) /\ feed_list \in Seq(Feed!Entries)
          /\ \A m : In(Feed!Without(feed_list, msg[r]), m) = IF m = msg[r] THEN {} ELSE In(feed_list, m)
      BY WithoutIs DEF FeedTypes, Feed!TypeOK
    <3> QED
      BY <2>1, <3>1, InIs
  <2>3. Feed!Underway' \subseteq Feed!Underway
    BY <2>1 DEF Feed!Underway
  <2> QED
    BY <2>1, <2>2, <2>3 DEF IdsInv, Feed!Ids, Feed!OnTheWay
<1>5. ASSUME Feed!ReadEvent PROVE IdsInv'
  <2>1. PICK e : e = Head(feed_inbox)
    OBVIOUS
  <2>2. /\ feed_inbox # <<>> /\ e \in Events /\ feed_list' \in Seq(Feed!Entries) /\ feed_list \in Seq(Feed!Entries)
        /\ \A m : m # e.id => In(feed_list', m) = In(feed_list, m)
    BY <1>5, <2>1, ReadIs DEF FeedTypes, Feed!TypeOK
  <2>3. Feed!Ids(feed_list') \subseteq Feed!Ids(feed_list) \cup {e.id}
    BY <2>2, InIs
  <2>4. reactions' \subseteq reactions \cup {e.id} /\ feed_inbox' = Tail(feed_inbox)
    BY <1>5, <2>1 DEF Feed!ReadEvent
  <2>5. /\ e.id \in Feed!OnTheWay /\ Feed!OnTheWay' \subseteq Feed!OnTheWay
        /\ \A i \in DOMAIN feed_inbox' : \E j \in DOMAIN feed_inbox : feed_inbox'[i] = feed_inbox[j]
    BY <2>1, <2>2, <2>4, OnTheWayIs
  <2>6. UNCHANGED Feed!request /\ UNCHANGED <<rows, react, last, feed_kind, msg, feed_pc, page, olderPage>>
    BY <1>5 DEF Feed!ReadEvent, Feed!request
  <2>7. Feed!Underway' = Feed!Underway
    BY <2>6, RequestsSame
  <2>8. \A i \in DOMAIN feed_inbox' : feed_inbox'[i].kind \in GoneKinds => feed_inbox'[i].id \notin rows'
    BY <2>5, <2>6 DEF IdsInv
  <2>9. (rows \cup react \cup Feed!Ids(feed_list) \cup reactions \cup Feed!OnTheWay \cup Feed!Underway \subseteq 1..last)'
    BY <2>3, <2>4, <2>5, <2>6, <2>7 DEF IdsInv
  <2>10. /\ \A l \in FeedLoads : Feed!Ids(page'[l].rows) \cup page'[l].reacted \subseteq 1..last'
         /\ \A o \in Olders : Feed!Ids(olderPage'[o]) \subseteq 1..last'
         /\ \A r \in Requests :
               feed_pc'[r] = "local" \/ (feed_pc'[r] = "tell" /\ feed_kind'[r] \in GoneKinds) => msg'[r] \notin rows'
    BY <2>6 DEF IdsInv
  <2> QED
    BY <2>8, <2>9, <2>10 DEF IdsInv, Feed!Ids
<1>6. ASSUME NEW before \in Nat PROVE Feed!Ids(Feed!Page(before)) \subseteq rows
  <2>1. /\ Feed!Page(before) \in Seq(Feed!Entries)
        /\ \A m : \A e \in In(Feed!Page(before), m) : m \in rows
    BY PageIs
  <2> QED
    BY <2>1, InIs
<1>7. ASSUME NEW l \in FeedLoads, Feed!GetPage(l) PROVE IdsInv'
  <2>1. /\ Feed!Ids(Feed!Page(MaxMsgs + 1)) \subseteq rows
        /\ \A h \in FeedLoads : page'[h] = page[h]
              \/ page'[h] = [rows |-> Feed!Page(MaxMsgs + 1), reacted |-> rows \cap react]
        /\ UNCHANGED <<Feed!db, Feed!request, feed_list, reactions, subscribed, feed_inbox, olderPage>>
    BY <1>6, <1>7 DEF Feed!GetPage, FeedTypes, Feed!TypeOK, FeedAssumption
  <2>2. \A h \in FeedLoads : Feed!Ids(page'[h].rows) \cup page'[h].reacted \subseteq 1..last
    BY <1>0, <2>1 DEF IdsInv
  <2> QED
    BY <2>1, <2>2 DEF IdsInv, Feed!Ids, Feed!OnTheWay, Feed!Underway
<1>8. ASSUME NEW l \in FeedLoads, Feed!StorePage(l) PROVE IdsInv'
  <2>1. /\ feed_list' = page[l].rows /\ reactions' \subseteq reactions \cup page[l].reacted
        /\ \A h \in FeedLoads : page'[h] = page[h] \/ page'[h] = Feed!NoPage
        /\ UNCHANGED <<Feed!db, Feed!request, subscribed, feed_inbox, olderPage>>
    BY <1>8 DEF Feed!StorePage, FeedTypes
  <2>2. Feed!Ids(Feed!NoPage.rows) = {} /\ Feed!NoPage.reacted = {}
    BY DEF Feed!NoPage, Feed!Ids
  <2>3. \A h \in FeedLoads : Feed!Ids(page'[h].rows) \cup page'[h].reacted \subseteq 1..last
    BY <2>1, <2>2 DEF IdsInv
  <2>4. Feed!Ids(feed_list') \cup reactions' \subseteq 1..last
    BY <2>1 DEF IdsInv
  <2> QED
    BY <2>1, <2>3, <2>4 DEF IdsInv, Feed!Ids, Feed!OnTheWay, Feed!Underway
<1>9. ASSUME NEW l \in FeedLoads, Feed!ServeSubscribe(l) PROVE IdsInv'
  BY <1>9 DEF Feed!ServeSubscribe, IdsInv, Feed!Ids, Feed!OnTheWay, Feed!Underway
<1>10. ASSUME NEW timeout \in BOOLEAN, Feed!Frame(timeout) PROVE IdsInv'
  BY <1>10 DEF Feed!Frame, IdsInv, Feed!Ids, Feed!OnTheWay, Feed!Underway
<1>11. ASSUME NEW o \in Olders, Feed!StartOlder(o) PROVE IdsInv'
  BY <1>11 DEF Feed!StartOlder, IdsInv, Feed!Ids, Feed!OnTheWay, Feed!Underway
<1>12. ASSUME NEW o \in Olders, Feed!GetOlder(o) PROVE IdsInv'
  <2>1. /\ Feed!Ids(Feed!Page(from[o])) \subseteq rows
        /\ \A h \in Olders : olderPage'[h] = olderPage[h] \/ olderPage'[h] = Feed!Page(from[o])
        /\ UNCHANGED <<Feed!db, Feed!request, feed_list, reactions, subscribed, feed_inbox, page>>
    BY <1>6, <1>12 DEF Feed!GetOlder, FeedTypes, Feed!TypeOK, FeedAssumption
  <2>2. \A h \in Olders : Feed!Ids(olderPage'[h]) \subseteq 1..last
    BY <1>0, <2>1 DEF IdsInv
  <2> QED
    BY <2>1, <2>2 DEF IdsInv, Feed!Ids, Feed!OnTheWay, Feed!Underway
<1>13. ASSUME NEW o \in Olders, Feed!ExtendOlder(o) PROVE IdsInv'
  <2>1. /\ feed_list' = feed_list \o olderPage[o]
        /\ \A h \in Olders : olderPage'[h] = olderPage[h] \/ olderPage'[h] = <<>>
        /\ UNCHANGED <<Feed!db, Feed!request, reactions, subscribed, feed_inbox, page>>
    BY <1>13 DEF Feed!ExtendOlder, FeedTypes
  <2>2. Feed!Ids(<<>>) = {}
    BY DEF Feed!Ids
  <2>3. feed_list \in Seq(Feed!Entries) /\ olderPage[o] \in Seq(Feed!Entries)
    BY DEF FeedTypes, Feed!TypeOK
  <2>4. Feed!Ids(feed_list') = Feed!Ids(feed_list) \cup Feed!Ids(olderPage[o])
    <3>1. feed_list' \in Seq(Feed!Entries) /\ \A m : In(feed_list', m) = In(feed_list, m) \cup In(olderPage[o], m)
      BY <2>1, <2>3, JoinedIs
    <3> QED
      BY <2>3, <3>1, InIs
  <2>5. \A h \in Olders : Feed!Ids(olderPage'[h]) \subseteq 1..last
    BY <2>1, <2>2 DEF IdsInv
  <2> QED
    BY <2>1, <2>4, <2>5 DEF IdsInv, Feed!OnTheWay, Feed!Underway
<1>14. ASSUME NEW r \in Requests, Feed!Untold(r) PROVE IdsInv'
  <2>1. /\ \A q \in Requests : (feed_pc'[q] = feed_pc[q] /\ feed_kind'[q] = feed_kind[q]) \/ feed_pc'[q] = "done"
        /\ Feed!Underway' \subseteq Feed!Underway
        /\ UNCHANGED <<rows, react, last, msg, feed_list, reactions, feed_inbox, page, olderPage>>
    BY <1>14, UntoldIs
  <2>2. Feed!OnTheWay' = Feed!OnTheWay
    BY <2>1 DEF Feed!OnTheWay
  <2> QED
    BY <2>1, <2>2 DEF IdsInv, Feed!Ids
<1> QED
  BY <1>1, <1>2, <1>3, <1>4, <1>5, <1>7, <1>8, <1>9, <1>10, <1>11, <1>12, <1>13,
     <1>14 DEF Feed!Next

-----------------------------------------------------------------------------
(* While a load is under way a message that is not raced is settled.       *)
LEMMA LoadSettles ==
    ASSUME FeedTypes, LoadInv, Feed!LoadOpen, NEW m \in Feed!Msgs \ raced
    PROVE  ~ComingOf(m) /\ \A K : Settled(K, m)
<1>1. m \notin Feed!Underway /\ m \notin Feed!OnTheWay
  BY DEF LoadInv
<1>2. \A K : TellingOf(K, m) = {}
  BY <1>1 DEF TellingOf, Feed!Underway
<1>3. \A K : Of(feed_inbox, K, m) = {}
  BY <1>1 DEF Of, Feed!OnTheWay
<1> QED
  BY <1>2, <1>3 DEF Settled, ComingOf

(* What a load overlaps with is raced.                                     *)
LEMMA LoadStep == FeedTypes /\ LoadInv /\ [Feed!Next]_(Feed!vars) => LoadInv'
<1> SUFFICES ASSUME FeedTypes, LoadInv, [Feed!Next]_(Feed!vars), Feed!LoadOpen'
             PROVE  (Feed!Underway \cup Feed!OnTheWay \subseteq raced)'
  BY DEF LoadInv
<1> USE DEF Feed!db, Feed!request, Feed!loads, Feed!scroll, Feed!view, Feed!past
<1>1. CASE UNCHANGED Feed!vars
  BY <1>1 DEF Feed!vars, LoadInv, Feed!LoadOpen, Feed!OnTheWay, Feed!Underway
<1>2. ASSUME NEW r \in Requests, NEW k \in Feed!Kinds, NEW n \in Feed!Msgs, Feed!Change(r, k, n)
      PROVE  (Feed!Underway \cup Feed!OnTheWay \subseteq raced)'
  <2>1. /\ n \notin raced' => ~Feed!LoadOpen
        /\ raced \subseteq raced' /\ Feed!Underway' = Feed!Underway \cup {n}
        /\ UNCHANGED <<feed_list, reactions, subscribed, feed_inbox, Feed!loads, Feed!view, again, bare>>
    BY <1>2, ChangeIs
  <2>2. Feed!LoadOpen /\ Feed!OnTheWay' = Feed!OnTheWay
    BY <2>1 DEF Feed!LoadOpen, Feed!OnTheWay
  <2> QED
    BY <2>1, <2>2 DEF LoadInv
<1>3. ASSUME NEW r \in Requests, Feed!Tell(r) PROVE (Feed!Underway \cup Feed!OnTheWay \subseteq raced)'
  <2>1. PICK e : e = [kind |-> feed_kind[r], id |-> msg[r], row |-> data[r]]
    OBVIOUS
  <2>2. /\ e \in Events /\ (feed_inbox' = Append(feed_inbox, e) \/ feed_inbox' = feed_inbox)
        /\ Feed!Underway' \subseteq Feed!Underway /\ e.id \in Feed!Underway
        /\ UNCHANGED <<Feed!db, msg, feed_list, reactions, subscribed, Feed!loads, Feed!view, Feed!past>>
    BY <1>3, <2>1, TellIs
  <2>3. Feed!OnTheWay' \subseteq Feed!OnTheWay \cup {e.id}
    BY <2>2, OnTheWayIs
  <2>4. Feed!LoadOpen
    BY <2>2 DEF Feed!LoadOpen
  <2> QED
    BY <2>2, <2>3, <2>4 DEF LoadInv
<1>4. ASSUME NEW r \in Requests, Feed!DeleteLocally(r) PROVE (Feed!Underway \cup Feed!OnTheWay \subseteq raced)'
  <2>1. \A q \in Requests : feed_pc'[q] = feed_pc[q] \/ feed_pc'[q] = "done"
    BY <1>4 DEF Feed!DeleteLocally, FeedTypes, Feed!TypeOK
  <2>2. Feed!Underway' \subseteq Feed!Underway /\ Feed!OnTheWay' = Feed!OnTheWay /\ Feed!LoadOpen
    BY <1>4, <2>1 DEF Feed!DeleteLocally, Feed!LoadOpen, Feed!Underway, Feed!OnTheWay
  <2> QED
    BY <1>4, <2>2 DEF Feed!DeleteLocally, LoadInv
<1>5. ASSUME Feed!ReadEvent PROVE (Feed!Underway \cup Feed!OnTheWay \subseteq raced)'
  <2>1. /\ feed_inbox # <<>> /\ feed_inbox' = Tail(feed_inbox)
        /\ UNCHANGED <<Feed!db, Feed!request, subscribed, Feed!loads, Feed!view, Feed!past>>
    BY <1>5 DEF Feed!ReadEvent
  <2>2. Feed!OnTheWay' \subseteq Feed!OnTheWay /\ Feed!Underway' = Feed!Underway /\ Feed!LoadOpen
    BY <2>1, OnTheWayIs, RequestsSame DEF Feed!LoadOpen
  <2> QED
    BY <2>1, <2>2 DEF LoadInv
<1>6. ASSUME NEW l \in FeedLoads, Feed!GetPage(l) PROVE (Feed!Underway \cup Feed!OnTheWay \subseteq raced)'
  BY <1>6 DEF Feed!GetPage, Feed!Underway, Feed!OnTheWay
<1>7. ASSUME NEW l \in FeedLoads, Feed!StorePage(l) PROVE (Feed!Underway \cup Feed!OnTheWay \subseteq raced)'
  <2>1. Feed!LoadOpen
    BY <1>7 DEF Feed!StorePage, Feed!LoadOpen
  <2> QED
    BY <1>7, <2>1 DEF Feed!StorePage, LoadInv, Feed!Underway, Feed!OnTheWay
<1>8. ASSUME NEW l \in FeedLoads, Feed!ServeSubscribe(l) PROVE (Feed!Underway \cup Feed!OnTheWay \subseteq raced)'
  <2>1. Feed!LoadOpen
    BY <1>8 DEF Feed!ServeSubscribe, Feed!LoadOpen
  <2> QED
    BY <1>8, <2>1 DEF Feed!ServeSubscribe, LoadInv, Feed!Underway, Feed!OnTheWay
<1>9. ASSUME NEW timeout \in BOOLEAN, Feed!Frame(timeout) PROVE (Feed!Underway \cup Feed!OnTheWay \subseteq raced)'
  BY <1>9 DEF Feed!Frame, LoadInv, Feed!LoadOpen, Feed!Underway, Feed!OnTheWay
<1>10. ASSUME NEW o \in Olders, Feed!StartOlder(o) PROVE (Feed!Underway \cup Feed!OnTheWay \subseteq raced)'
  <2>1. Feed!LoadOpen
    BY <1>10 DEF Feed!StartOlder, Feed!LoadOpen, FeedTypes, Feed!TypeOK
  <2> QED
    BY <1>10, <2>1 DEF Feed!StartOlder, LoadInv, Feed!Underway, Feed!OnTheWay
<1>11. ASSUME NEW o \in Olders, Feed!GetOlder(o) PROVE (Feed!Underway \cup Feed!OnTheWay \subseteq raced)'
  <2>1. CASE from[o] \in rows
    BY <1>11, <2>1 DEF Feed!GetOlder, Feed!Underway, Feed!OnTheWay
  <2>2. CASE from[o] \notin rows
    <3>1. Feed!LoadOpen
      BY <1>11, <2>2 DEF Feed!GetOlder, Feed!LoadOpen, FeedTypes, Feed!TypeOK
    <3> QED
      BY <1>11, <2>2, <3>1 DEF Feed!GetOlder, LoadInv, Feed!Underway, Feed!OnTheWay
  <2> QED
    BY <2>1, <2>2
<1>12. ASSUME NEW o \in Olders, Feed!ExtendOlder(o) PROVE (Feed!Underway \cup Feed!OnTheWay \subseteq raced)'
  <2>1. Feed!LoadOpen
    BY <1>12 DEF Feed!ExtendOlder, Feed!LoadOpen
  <2> QED
    BY <1>12, <2>1 DEF Feed!ExtendOlder, LoadInv, Feed!Underway, Feed!OnTheWay
<1>13. ASSUME NEW r \in Requests, Feed!Untold(r) PROVE (Feed!Underway \cup Feed!OnTheWay \subseteq raced)'
  <2>1. /\ Feed!Underway' \subseteq Feed!Underway /\ raced \subseteq raced'
        /\ UNCHANGED <<feed_inbox, Feed!loads, older>>
    BY <1>13, UntoldIs
  <2>2. Feed!OnTheWay' = Feed!OnTheWay /\ Feed!LoadOpen
    BY <2>1 DEF Feed!OnTheWay, Feed!LoadOpen
  <2> QED
    BY <2>1, <2>2 DEF LoadInv
<1> QED
  BY <1>1, <1>2, <1>3, <1>4, <1>5, <1>6, <1>7, <1>8, <1>9, <1>10, <1>11, <1>12,
     <1>13 DEF Feed!Next

(* Without a subscription there is nothing to show but what a load brings. *)
LEMMA SubscribedStep == FeedTypes /\ SubscribedInv /\ [Feed!Next]_(Feed!vars) => SubscribedInv'
<1> SUFFICES ASSUME FeedTypes, SubscribedInv, [Feed!Next]_(Feed!vars) PROVE SubscribedInv'
  OBVIOUS
<1> USE DEF Feed!db, Feed!request, Feed!loads, Feed!scroll, Feed!view, Feed!past
<1>1. CASE UNCHANGED Feed!vars
  BY <1>1 DEF Feed!vars, SubscribedInv
<1>2. ASSUME NEW r \in Requests, NEW k \in Feed!Kinds, NEW n \in Feed!Msgs, Feed!Change(r, k, n)
      PROVE  SubscribedInv'
  BY <1>2 DEF Feed!Change, SubscribedInv
<1>3. ASSUME NEW r \in Requests, Feed!Tell(r) PROVE SubscribedInv'
  BY <1>3 DEF Feed!Tell, SubscribedInv
<1>4. ASSUME NEW r \in Requests, Feed!DeleteLocally(r) PROVE SubscribedInv'
  <2>1. feed_list = <<>> => feed_list' = <<>>
    <3>1. feed_list' \in Seq(Feed!Entries) /\ \A m : In(feed_list', m) = {} \/ In(feed_list', m) = In(feed_list, m)
      BY <1>4, WithoutIs DEF Feed!DeleteLocally, FeedTypes, Feed!TypeOK
    <3>2. feed_list = <<>> => \A m : In(feed_list, m) = {}
      BY DEF In
    <3>3. feed_list = <<>> => Feed!Ids(feed_list') = {}
      BY <3>1, <3>2, InIs
    <3>4. Feed!Ids(feed_list') = {} => feed_list' = <<>>
      <4>1. feed_list' # <<>> => 1 \in DOMAIN feed_list'
        BY <3>1
      <4> QED
        BY <4>1 DEF Feed!Ids
    <3> QED
      BY <3>3, <3>4
  <2> QED
    BY <1>4, <2>1 DEF Feed!DeleteLocally, SubscribedInv
<1>5. ASSUME Feed!ReadEvent PROVE SubscribedInv'
  BY <1>5 DEF Feed!ReadEvent, SubscribedInv
<1>6. ASSUME NEW l \in FeedLoads, Feed!GetPage(l) PROVE SubscribedInv'
  <2>1. \A h \in FeedLoads : load[h] = "subscribe" => load'[h] = "subscribe"
    BY <1>6 DEF Feed!GetPage, FeedTypes, Feed!TypeOK
  <2> QED
    BY <1>6, <2>1 DEF Feed!GetPage, SubscribedInv
<1>7. ASSUME NEW l \in FeedLoads, Feed!StorePage(l) PROVE SubscribedInv'
  <2>1. load'[l] = "subscribe"
    BY <1>7 DEF Feed!StorePage, FeedTypes, Feed!TypeOK
  <2> QED
    BY <1>7, <2>1 DEF Feed!StorePage, SubscribedInv
<1>8. ASSUME NEW l \in FeedLoads, Feed!ServeSubscribe(l) PROVE SubscribedInv'
  BY <1>8 DEF Feed!ServeSubscribe, SubscribedInv
<1>9. ASSUME NEW timeout \in BOOLEAN, Feed!Frame(timeout) PROVE SubscribedInv'
  BY <1>9 DEF Feed!Frame, SubscribedInv
<1>10. ASSUME NEW o \in Olders, Feed!StartOlder(o) PROVE SubscribedInv'
  BY <1>10 DEF Feed!StartOlder, SubscribedInv
<1>11. ASSUME NEW o \in Olders, Feed!GetOlder(o) PROVE SubscribedInv'
  BY <1>11 DEF Feed!GetOlder, SubscribedInv
<1>12. ASSUME NEW o \in Olders, Feed!ExtendOlder(o) PROVE SubscribedInv'
  BY <1>12 DEF Feed!ExtendOlder, SubscribedInv
<1>13. ASSUME NEW r \in Requests, Feed!Untold(r) PROVE SubscribedInv'
  BY <1>13 DEF Feed!Untold, SubscribedInv
<1> QED
  BY <1>1, <1>2, <1>3, <1>4, <1>5, <1>6, <1>7, <1>8, <1>9, <1>10, <1>11, <1>12,
     <1>13 DEF Feed!Next

(* A request on a message that is not raced is alone.                      *)
LEMMA SoleStep == FeedTypes /\ SoleInv /\ [Feed!Next]_(Feed!vars) => SoleInv'
<1> SUFFICES ASSUME FeedTypes, SoleInv, [Feed!Next]_(Feed!vars) PROVE SoleInv'
  OBVIOUS
<1>1. ASSUME UNCHANGED <<Feed!db, Feed!request>>, raced \subseteq raced' PROVE SoleInv'
  BY <1>1 DEF Feed!db, Feed!request, SoleInv, Sole, Feed!Row
<1>2. ASSUME NEW r \in Requests, NEW k \in Feed!Kinds, NEW n \in Feed!Msgs, Feed!Change(r, k, n) PROVE SoleInv'
  <2>1. /\ \A m \in Feed!Msgs : m # n => SameRow(m)
        /\ n \in rows' <=> k \notin GoneKinds
        /\ (k = "pin" => n \in pinned') /\ (k = "unpin" => n \notin pinned')
        /\ (k = "react" => n \in react') /\ (k = "unreact" => n \notin react')
        /\ data'[r] = Feed!Row(n)' /\ feed_pc[r] = "new" /\ feed_pc'[r] = "tell" /\ feed_kind'[r] = k /\ msg'[r] = n
        /\ \A q \in Requests : q # r => /\ feed_pc'[q] = feed_pc[q] /\ feed_kind'[q] = feed_kind[q]
                                        /\ msg'[q] = msg[q] /\ data'[q] = data[q]
        /\ n \notin raced' => n \notin Feed!Underway
        /\ raced \subseteq raced'
    BY <1>2, ChangeIs
  <2>2. \A q \in Requests : feed_pc[q] \in {"tell", "local"} => msg[q] \in Feed!Underway /\ msg[q] \in Feed!Msgs
    BY DEF Feed!Underway, FeedTypes
  <2> SUFFICES ASSUME NEW q \in Requests, feed_pc'[q] \in {"tell", "local"}, msg'[q] \notin raced'
               PROVE  Sole(q)'
    BY DEF SoleInv
  <2>3. CASE q = r
    <3>1. \A p \in Requests : feed_pc'[p] \in {"tell", "local"} /\ msg'[p] = n => p = r
      BY <2>1, <2>2, <2>3
    <3>2. Feed!Row(msg[q])' = Feed!Row(n)'
      BY <2>1, <2>3
    <3> QED
      BY <2>1, <2>3, <3>1, <3>2 DEF Sole
  <2>4. CASE q # r
    <3>1. feed_pc[q] \in {"tell", "local"} /\ msg[q] # n /\ msg[q] \notin raced /\ msg[q] \in Feed!Msgs
      BY <2>1, <2>2, <2>4
    <3>2. Sole(q) /\ SameRow(msg[q])
      BY <2>1, <3>1 DEF SoleInv
    <3>3. Feed!Row(msg[q])' = Feed!Row(msg[q])
      BY <2>1, <2>4, <3>2 DEF Feed!Row, SameRow
    <3> QED
      BY <2>1, <2>4, <3>1, <3>2, <3>3 DEF Sole, SameRow
  <2> QED
    BY <2>3, <2>4
<1>3. ASSUME NEW r \in Requests, Feed!Tell(r) PROVE SoleInv'
  <2>1. PICK e : e = [kind |-> feed_kind[r], id |-> msg[r], row |-> data[r]]
    OBVIOUS
  <2>2. /\ feed_pc[r] = "tell" /\ feed_pc'[r] \in {"local", "done"}
        /\ \A q \in Requests : q # r => feed_pc'[q] = feed_pc[q] /\ feed_kind'[q] = feed_kind[q] /\ data'[q] = data[q]
        /\ UNCHANGED <<Feed!db, msg, feed_list, reactions, subscribed, Feed!loads, Feed!view, Feed!past>>
    BY <1>3, <2>1, TellIs
  <2> QED
    BY <2>2 DEF Feed!db, Feed!past, SoleInv, Sole, Feed!Row
<1>4. ASSUME NEW r \in Requests, Feed!DeleteLocally(r) PROVE SoleInv'
  <2>1. /\ \A q \in Requests : feed_pc'[q] = feed_pc[q] \/ feed_pc'[q] = "done"
        /\ UNCHANGED <<Feed!db, feed_kind, msg, data, reactions, subscribed, feed_inbox, Feed!loads, Feed!view, Feed!past>>
    BY <1>4 DEF Feed!DeleteLocally, FeedTypes, Feed!TypeOK
  <2> QED
    BY <2>1 DEF Feed!db, Feed!past, SoleInv, Sole, Feed!Row
<1>5. ASSUME Feed!ReadEvent PROVE SoleInv'
  BY <1>1, <1>5 DEF Feed!ReadEvent, Feed!past
<1>6. ASSUME NEW l \in FeedLoads, Feed!GetPage(l) \/ Feed!StorePage(l) \/ Feed!ServeSubscribe(l) PROVE SoleInv'
  BY <1>1, <1>6 DEF Feed!GetPage, Feed!StorePage, Feed!ServeSubscribe, Feed!past
<1>7. ASSUME NEW timeout \in BOOLEAN, Feed!Frame(timeout) PROVE SoleInv'
  BY <1>1, <1>7 DEF Feed!Frame, Feed!past
<1>8. ASSUME NEW o \in Olders, Feed!StartOlder(o) \/ Feed!GetOlder(o) \/ Feed!ExtendOlder(o) PROVE SoleInv'
  BY <1>1, <1>8 DEF Feed!StartOlder, Feed!GetOlder, Feed!ExtendOlder, Feed!past
<1>9. ASSUME NEW r \in Requests, Feed!Untold(r) PROVE SoleInv'
  <2>1. /\ feed_pc'[r] = "done" /\ raced \subseteq raced'
        /\ \A q \in Requests : q # r => feed_pc'[q] = feed_pc[q] /\ feed_kind'[q] = feed_kind[q] /\ data'[q] = data[q]
        /\ UNCHANGED <<rows, text, pinned, react, msg>>
    BY <1>9, UntoldIs
  <2> QED
    BY <2>1 DEF SoleInv, Sole, Feed!Row
<1> QED
  BY <1>1, <1>2, <1>3, <1>4, <1>5, <1>6, <1>7, <1>8,
     <1>9 DEF Feed!Next, Feed!vars, Feed!past

-----------------------------------------------------------------------------
(* What is said of each message that is not raced, step by step.  First    *)
(* the message that a statement is about.                                  *)
LEMMA ChangedMessage ==
    ASSUME FeedAssumption, FeedTypes, IdsInv, MessagesInv, LoadInv,
           NEW r \in Requests, NEW k \in Feed!Kinds, NEW n \in Feed!Msgs, Feed!Change(r, k, n), n \notin raced'
    PROVE  OfMessage(n)'
<1>1. /\ k = "create" => n = last + 1 /\ last' = n
      /\ k # "create" => n \in rows /\ last' = last
      /\ n \in rows' <=> k \notin GoneKinds
      /\ k \notin ThereKinds => n \in rows
      /\ k \notin TextKinds => text'[n] = text[n]
      /\ k \notin PinKinds => (n \in pinned' <=> n \in pinned)
      /\ k \notin ReactKinds \cup GoneKinds => (n \in react' <=> n \in react)
      /\ k \in GoneKinds => n \notin react'
      /\ \A K, m : TellingOf(K, m)' = TellingOf(K, m) \cup (IF m = n /\ k \in K THEN {r} ELSE {})
      /\ ~Feed!LoadOpen /\ n \notin Feed!Underway /\ raced \subseteq raced'
      /\ UNCHANGED <<feed_list, reactions, subscribed, feed_inbox, Feed!loads, Feed!view, again, bare>>
  BY ChangeIs
<1>2. OfMessage(n)
  BY <1>1 DEF MessagesInv
<1>3. \A K : TellingOf(K, n) = {}
  BY <1>1 DEF TellingOf, Feed!Underway
<1>4. \A K : TellingOf(K, n)' = IF k \in K THEN {r} ELSE {}
  BY <1>1, <1>3
<1>5. k = "create" => n \notin Feed!Ids(feed_list) \cup reactions \cup react \cup Feed!OnTheWay
  BY <1>1 DEF IdsInv, FeedTypes, Feed!TypeOK
<1>6. k = "create" => /\ In(feed_list, n) = {} /\ n \notin reactions /\ n \notin react
                      /\ \A K : Of(feed_inbox, K, n) = {}
  BY <1>5, InIs DEF FeedTypes, Feed!TypeOK, Of, Feed!OnTheWay
<1>7. /\ \A l \in FeedLoads : load'[l] # "insert"
      /\ \A o \in Olders : older'[o] # "extend"
  BY <1>1 DEF Feed!LoadOpen, Feed!loads, Feed!view, Feed!scroll
<1>8. \A K : Settled(K, n)' <=> Settled(K, n) /\ k \notin K
  BY <1>1, <1>3, <1>4 DEF Settled
<1>9. SaysOf(n)'
  <2>1. ASSUME k \notin TextKinds PROVE SaysTrue(feed_inbox, TextKinds, n, GoodText(n))'
    BY <1>1, <1>2, <1>3, <2>1 DEF OfMessage, SaysOf, GoodText
  <2>2. ASSUME k \notin PinKinds PROVE SaysTrue(feed_inbox, PinKinds, n, GoodPin(n))'
    BY <1>1, <1>2, <1>3, <2>2 DEF OfMessage, SaysOf, GoodPin
  <2>3. ASSUME k \notin ThereKinds PROVE SaysTrue(feed_inbox, ThereKinds, n, GoodThere(n))'
    <3>1. n \in rows' <=> n \in rows
      BY <1>1, <2>3 DEF GoneKinds, ThereKinds
    <3> QED
      BY <1>1, <1>2, <1>3, <2>3, <3>1 DEF OfMessage, SaysOf, GoodThere
  <2>4. ASSUME k \notin ReactKinds, n \in rows' PROVE SaysTrue(feed_inbox, ReactKinds, n, GoodReact(n))'
    <3>1. CASE k = "create"
      BY <1>1, <1>6, <3>1 DEF SaysTrue
    <3>2. CASE k # "create"
      BY <1>1, <1>2, <1>3, <2>4, <3>2 DEF OfMessage, SaysOf, GoodReact
    <3> QED
      BY <3>1, <3>2
  <2> QED
    BY <1>4, <2>1, <2>2, <2>3, <2>4 DEF SaysOf
<1>10. Pages(n)' /\ Hidden(n)'
  BY <1>7 DEF Pages, Hidden
<1>11. (n \notin again => Shows(n))'
  <2> SUFFICES ASSUME n \notin again PROVE Shows(n)'
    BY <1>1
  <2>1. Shows(n)
    BY <1>2 DEF OfMessage
  <2>2. k \notin ThereKinds => (n \in rows' <=> n \in rows)
    BY <1>1 DEF GoneKinds, ThereKinds
  <2> QED
    BY <1>1, <1>8, <2>1, <2>2 DEF Shows
<1>12. Reacts(n)'
  <2>1. CASE k = "create"
    BY <1>1, <1>6, <2>1 DEF Reacts
  <2>2. CASE k # "create"
    BY <1>1, <1>2, <1>8, <2>2 DEF OfMessage, Reacts
  <2> QED
    BY <2>1, <2>2
<1>13. Comes(n)'
  <2>1. CASE k = "create"
    BY <1>1, <1>6, <1>10, <2>1 DEF Comes, CreatedFirst, GoneKinds, ReactKinds
  <2>2. CASE k # "create"
    <3>1. TellingOf({"create"}, n)' = {} /\ (ComingOf(n)' <=> ComingOf(n))
      BY <1>4, <1>8, <2>2 DEF ComingOf
    <3>2. n \in react' /\ n \notin react => k \in ReactKinds
      BY <1>1
    <3> QED
      BY <1>1, <1>2, <1>8, <1>10, <3>1, <3>2 DEF OfMessage, Comes
  <2> QED
    BY <2>1, <2>2
<1> QED
  BY <1>1, <1>9, <1>10, <1>11, <1>12, <1>13 DEF OfMessage

(* The message that a broadcast is about.                                  *)
LEMMA ToldMessage ==
    ASSUME FeedTypes, IdsInv, SoleInv, SubscribedInv, MessagesInv, LoadInv,
           NEW r \in Requests, Feed!Tell(r), NEW n, n = msg[r], n \notin raced
    PROVE  OfMessage(n)' /\ (~subscribed => feed_list = <<>>)
<1>1. PICK e : e = [kind |-> feed_kind[r], id |-> msg[r], row |-> data[r]]
  OBVIOUS
<1>2. /\ e \in Events /\ e.id = msg[r] /\ e.kind = feed_kind[r] /\ e.row = data[r] /\ e.id \in Feed!Msgs
      /\ feed_inbox' = Append(feed_inbox, e) \/ feed_inbox' = feed_inbox
      /\ subscribed /\ Feed!Announced(r) => feed_inbox' = Append(feed_inbox, e)
      /\ ~subscribed => feed_inbox' = feed_inbox
      /\ feed_pc[r] = "tell"
      /\ \A K, m : TellingOf(K, m)' = TellingOf(K, m) \ {r}
      /\ \A K, m : r \in TellingOf(K, m) <=> m = e.id /\ e.kind \in K
      /\ Feed!Underway' \subseteq Feed!Underway /\ e.id \in Feed!Underway
      /\ UNCHANGED <<Feed!db, msg, feed_list, reactions, subscribed, Feed!loads, Feed!view, Feed!past>>
  BY <1>1, TellIs
<1>3. UNCHANGED <<rows, text, pinned, react, again, bare, raced, load, page, older, olderPage>>
  BY <1>2 DEF Feed!db, Feed!past, Feed!loads, Feed!view, Feed!scroll
<1>4. n \in Feed!Msgs /\ OfMessage(n) /\ Sole(r)
  BY <1>2 DEF MessagesInv, SoleInv
<1>5. \A q \in Requests : feed_pc[q] = "tell" /\ msg[q] = n => q = r
  BY <1>4 DEF Sole
<1>6. \A K : TellingOf(K, n)' = {} /\ (TellingOf(K, n) = {} <=> e.kind \notin K)
  <2>1. \A K : TellingOf(K, n) \subseteq {r}
    BY <1>5 DEF TellingOf
  <2> QED
    BY <1>2, <2>1
<1>7. ~Feed!LoadOpen
  BY <1>2 DEF LoadInv
<1>8. ~subscribed => feed_list = <<>> /\ reactions = {} /\ feed_inbox = <<>>
  BY <1>7 DEF SubscribedInv, Feed!LoadOpen
<1>9. /\ Pages(n)' /\ Hidden(n)' /\ GoodText(n)' = GoodText(n) /\ GoodPin(n)' = GoodPin(n)
      /\ GoodThere(n)' = GoodThere(n) /\ GoodReact(n)' = GoodReact(n)
  BY <1>3, <1>7 DEF Pages, Hidden, Feed!LoadOpen, GoodText, GoodPin, GoodThere, GoodReact
<1>10. /\ e.row.text = text[n] /\ (e.row.pinned <=> n \in pinned)
       /\ e.kind = "pin" => n \in pinned
       /\ e.kind = "unpin" => n \notin pinned
       /\ e.kind = "react" => n \in react
       /\ e.kind = "unreact" => n \notin react
       /\ e.kind \notin GoneKinds => n \in rows
  <2>1. /\ e.row = Feed!Row(n)
        /\ feed_kind[r] = "pin" => n \in pinned
        /\ feed_kind[r] = "unpin" => n \notin pinned
        /\ feed_kind[r] = "react" => n \in react
        /\ feed_kind[r] = "unreact" => n \notin react
        /\ feed_kind[r] \notin GoneKinds => n \in rows
    BY <1>2, <1>4 DEF Sole
  <2>2. Feed!Row(n).text = text[n] /\ (Feed!Row(n).pinned <=> n \in pinned)
    BY DEF Feed!Row
  <2> QED
    BY <1>2, <2>1, <2>2
<1>11. subscribed => feed_inbox' = Append(feed_inbox, e)
  BY <1>2, <1>10 DEF Feed!Announced, GoneKinds
<1>12. CASE subscribed
  <2> DEFINE t == Append(feed_inbox, e)
  <2>1. feed_inbox' = t /\ feed_inbox \in Seq(Events)
    BY <1>11, <1>12 DEF FeedTypes
  <2>2. /\ \A K, m : Of(t, K, m) = {} <=> Of(feed_inbox, K, m) = {} /\ ~(e.id = m /\ e.kind \in K)
        /\ \A K, m, good : e.id = m /\ e.kind \in K /\ e \in good => SaysTrue(t, K, m, good)
        /\ \A K, m, good : ~(e.id = m /\ e.kind \in K) /\ SaysTrue(feed_inbox, K, m, good)
                              => SaysTrue(t, K, m, good)
        /\ \A m : /\ CreatedFirst(feed_inbox, m)
                  /\ e.id = m /\ e.kind = "create" => Of(feed_inbox, Feed!Kinds, m) = {}
                  => CreatedFirst(t, m)
    BY <1>2, <2>1, QueueAppended
  <2> HIDE DEF t
  <2>3. e.id = n
    BY <1>2
  <2>4. \A K : Settled(K, n)' <=> Settled(K, n)
    BY <1>6, <2>1, <2>2, <2>3 DEF Settled
  <2>5. \A K : e.kind \in K => ~Settled(K, n)
    BY <1>6 DEF Settled
  <2>6. SaysOf(n)'
    <3>1. SaysTrue(t, TextKinds, n, GoodText(n))
      <4>1. e.kind \in TextKinds => e \in GoodText(n)
        BY <1>2, <1>10 DEF GoodText
      <4> QED
        BY <1>4, <1>6, <2>2, <2>3, <4>1 DEF OfMessage, SaysOf
    <3>2. SaysTrue(t, PinKinds, n, GoodPin(n))
      <4>1. e.kind \in PinKinds => e \in GoodPin(n)
        BY <1>2, <1>10 DEF GoodPin
      <4> QED
        BY <1>4, <1>6, <2>2, <2>3, <4>1 DEF OfMessage, SaysOf
    <3>3. SaysTrue(t, ThereKinds, n, GoodThere(n))
      <4>1. e.kind \in GoneKinds => n \notin rows
        BY <1>2, <1>4 DEF IdsInv
      <4>2. e.kind \in ThereKinds => e \in GoodThere(n)
        BY <1>2, <1>10, <4>1 DEF GoodThere, ThereKinds, GoneKinds
      <4> QED
        BY <1>4, <1>6, <2>2, <2>3, <4>2 DEF OfMessage, SaysOf
    <3>4. n \in rows => SaysTrue(t, ReactKinds, n, GoodReact(n))
      <4>1. e.kind \in ReactKinds => e \in GoodReact(n)
        BY <1>2, <1>10 DEF GoodReact, ReactKinds
      <4> QED
        BY <1>4, <1>6, <2>2, <2>3, <4>1 DEF OfMessage, SaysOf
    <3> QED
      BY <1>3, <1>9, <2>1, <3>1, <3>2, <3>3, <3>4 DEF SaysOf
  <2>7. (n \notin again => Shows(n))'
    BY <1>2, <1>3, <1>4, <2>4 DEF OfMessage, Shows
  <2>8. Reacts(n)'
    BY <1>2, <1>3, <1>4, <2>4 DEF OfMessage, Reacts
  <2>9. Comes(n)'
    <3>1. CreatedFirst(t, n)
      BY <1>4, <1>6, <2>2, <2>3 DEF OfMessage, Comes
    <3> QED
      BY <1>2, <1>3, <1>4, <1>6, <1>9, <2>1, <2>4, <3>1 DEF OfMessage, Comes, ComingOf
  <2> QED
    BY <1>9, <1>12, <2>6, <2>7, <2>8, <2>9 DEF OfMessage
<1>13. CASE ~subscribed
  <2>1. feed_inbox' = <<>> /\ feed_list' = <<>> /\ reactions' = {}
    BY <1>2, <1>8, <1>13
  <2>2. /\ \A K : Of(feed_inbox', K, n) = {} /\ Settled(K, n)'
        /\ In(feed_list', n) = {} /\ Once(feed_list', n)
    BY <1>6, <2>1 DEF Of, Settled, In, Once
  <2>3. SaysOf(n)' /\ Shows(n)' /\ Reacts(n)' /\ Comes(n)'
    BY <1>6, <2>1, <2>2 DEF SaysOf, SaysTrue, Shows, Reacts, Comes, CreatedFirst, ComingOf
  <2> QED
    BY <1>8, <1>9, <1>13, <2>3 DEF OfMessage
<1> QED
  BY <1>12, <1>13

(* The message of an event that is read.                                   *)
LEMMA ReadMessage ==
    ASSUME FeedTypes, IdsInv, MessagesInv, Feed!ReadEvent, NEW n, n = Head(feed_inbox).id, n \notin raced
    PROVE  OfMessage(n)'
<1>1. PICK e : e = Head(feed_inbox)
  OBVIOUS
<1>2. /\ feed_inbox # <<>> /\ e \in Events /\ e.id \in Feed!Msgs /\ e.row.id = e.id
      /\ feed_list' \in Seq(Feed!Entries)
      /\ e.kind = "create" => /\ In(feed_list', e.id) = {e.row} \cup In(feed_list, e.id)
                              /\ In(feed_list, e.id) = {} => Once(feed_list', e.id)
      /\ e.kind \in GoneKinds => In(feed_list', e.id) = {} /\ Once(feed_list', e.id)
      /\ e.kind \notin ThereKinds => /\ In(feed_list', e.id) = {} <=> In(feed_list, e.id) = {}
                                     /\ Once(feed_list, e.id) => Once(feed_list', e.id)
      /\ e.kind = "edit" /\ Once(feed_list, e.id) => In(feed_list', e.id) \subseteq {e.row}
      /\ e.kind \in {"pin", "unpin"} /\ Once(feed_list, e.id) =>
            \A f \in In(feed_list', e.id) :
               (f.pinned <=> e.kind = "pin") /\ \E g \in In(feed_list, e.id) : f.text = g.text
      /\ e.kind \in ReactKinds => feed_list' = feed_list
  BY <1>1, ReadIs
<1>3. e.id = n /\ n \in Feed!Msgs /\ OfMessage(n)
  BY <1>1, <1>2 DEF MessagesInv
<1>4. feed_inbox' = Tail(feed_inbox) /\ feed_inbox \in Seq(Events)
  BY DEF Feed!ReadEvent, FeedTypes
<1>5. /\ \A K : Of(feed_inbox, K, n) = {} <=> Of(feed_inbox', K, n) = {} /\ e.kind \notin K
      /\ \A K, good : SaysTrue(feed_inbox, K, n, good) => SaysTrue(feed_inbox', K, n, good)
      /\ \A K, good : SaysTrue(feed_inbox, K, n, good) /\ Of(feed_inbox', K, n) = {} /\ e.kind \in K => e \in good
      /\ CreatedFirst(feed_inbox, n) => CreatedFirst(feed_inbox', n)
      /\ CreatedFirst(feed_inbox, n) => Of(feed_inbox', {"create"}, n) = {}
  <2>1. /\ \A K, m : Of(feed_inbox, K, m) = {}
              <=> Of(Tail(feed_inbox), K, m) = {} /\ ~(Head(feed_inbox).id = m /\ Head(feed_inbox).kind \in K)
        /\ \A K, m, good : SaysTrue(feed_inbox, K, m, good) => SaysTrue(Tail(feed_inbox), K, m, good)
        /\ \A K, m, good : SaysTrue(feed_inbox, K, m, good) /\ Of(Tail(feed_inbox), K, m) = {}
                              /\ Head(feed_inbox).id = m /\ Head(feed_inbox).kind \in K => Head(feed_inbox) \in good
        /\ \A m : CreatedFirst(feed_inbox, m) => CreatedFirst(Tail(feed_inbox), m)
        /\ \A m : CreatedFirst(feed_inbox, m) /\ Head(feed_inbox).id = m => Of(Tail(feed_inbox), {"create"}, m) = {}
    BY <1>2, <1>4, QueueRead
  <2>2. feed_inbox' = Tail(feed_inbox) /\ e = Head(feed_inbox) /\ e.id = n
    BY <1>1, <1>3, <1>4
  <2> QED
    BY <2>1, <2>2
<1>6. /\ UNCHANGED <<rows, text, pinned, react, again, bare, raced, load, page, older, olderPage>>
      /\ UNCHANGED Feed!request
  BY DEF Feed!ReadEvent, Feed!db, Feed!loads, Feed!view, Feed!scroll, Feed!past
<1>7. \A K : TellingOf(K, n)' = TellingOf(K, n)
  BY <1>6, RequestsSame DEF SameRequests
<1>8. \A K : Settled(K, n)' => TellingOf(K, n) = {} /\ Of(feed_inbox', K, n) = {}
                               /\ (e.kind \notin K => Settled(K, n))
  BY <1>5, <1>7 DEF Settled
<1>9. /\ GoodText(n)' = GoodText(n) /\ GoodPin(n)' = GoodPin(n)
      /\ GoodThere(n)' = GoodThere(n) /\ GoodReact(n)' = GoodReact(n)
      /\ Pages(n)' /\ (Hidden(n) => Hidden(n)')
  <2>1. SameRow(n) /\ SamePages
    BY <1>6 DEF SameRow, SamePages
  <2>2. Pages(n)
    BY <1>3 DEF OfMessage
  <2> QED
    BY <1>6, <2>1, <2>2, PagesStay DEF GoodText, GoodPin, GoodThere, GoodReact
<1>10. SaysOf(n)'
  BY <1>3, <1>5, <1>6, <1>7, <1>9 DEF OfMessage, SaysOf
<1>11. e.kind = "create" => In(feed_list, n) = {} /\ Hidden(n) /\ ComingOf(n)
  <2>1. e.kind = "create" => ComingOf(n)
    BY <1>5 DEF ComingOf, Settled
  <2> QED
    BY <1>3, <2>1 DEF OfMessage, Comes
<1>12. e.kind \in Feed!Kinds
  BY <1>2 DEF Events
<1>13. ASSUME n \notin again PROVE Shows(n)'
  <2>1. Shows(n) /\ SaysOf(n)
    BY <1>3, <1>13 DEF OfMessage
  <2>2. Once(feed_list, n)
    BY <2>1 DEF Shows
  <2>3. Once(feed_list', n)
    BY <1>2, <1>3, <1>11, <2>2 DEF ThereKinds, GoneKinds
  <2>4. ASSUME Settled(TextKinds, n)', NEW f \in In(feed_list', n) PROVE f.text = text[n]
    <3>1. CASE e.kind \in TextKinds
      <4>1. e \in GoodText(n)
        BY <1>5, <1>8, <2>1, <2>4, <3>1 DEF SaysOf
      <4>2. f = e.row
        BY <1>2, <1>3, <1>11, <2>2, <2>4, <3>1 DEF TextKinds
      <4> QED
        BY <4>1, <4>2 DEF GoodText
    <3>2. CASE e.kind \notin TextKinds
      <4>1. \A g \in In(feed_list, n) : g.text = text[n]
        BY <1>8, <2>1, <2>4, <3>2 DEF Shows
      <4> QED
        BY <1>2, <1>3, <1>12, <2>2, <2>4, <3>2, <4>1 DEF TextKinds, Feed!Kinds, GoneKinds, ReactKinds
    <3> QED
      BY <3>1, <3>2
  <2>5. ASSUME Settled(PinKinds, n)', NEW f \in In(feed_list', n) PROVE f.pinned <=> n \in pinned
    <3>1. CASE e.kind \in PinKinds
      <4>1. e \in GoodPin(n)
        BY <1>5, <1>8, <2>1, <2>5, <3>1 DEF SaysOf
      <4>2. CASE e.kind \in TextKinds
        <5>1. f = e.row
          BY <1>2, <1>3, <1>11, <2>2, <2>5, <4>2 DEF TextKinds
        <5> QED
          BY <4>1, <4>2, <5>1 DEF GoodPin
      <4>3. CASE e.kind \in {"pin", "unpin"}
        <5>1. f.pinned <=> e.kind = "pin"
          BY <1>2, <1>3, <2>2, <2>5, <4>3
        <5> QED
          BY <4>1, <4>3, <5>1 DEF GoodPin
      <4> QED
        BY <3>1, <4>2, <4>3 DEF PinKinds, TextKinds
    <3>2. CASE e.kind \notin PinKinds
      <4>1. \A g \in In(feed_list, n) : g.pinned <=> n \in pinned
        BY <1>8, <2>1, <2>5, <3>2 DEF Shows
      <4> QED
        BY <1>2, <1>3, <1>12, <2>5, <3>2, <4>1 DEF PinKinds, Feed!Kinds, GoneKinds, ReactKinds
    <3> QED
      BY <3>1, <3>2
  <2>6. ASSUME Settled(ThereKinds, n)', In(feed_list', n) # {} PROVE n \in rows
    <3>1. CASE e.kind \in ThereKinds
      <4>1. e \in GoodThere(n)
        BY <1>5, <1>8, <2>1, <2>6, <3>1 DEF SaysOf
      <4>2. e.kind = "create"
        BY <1>2, <1>3, <2>6, <3>1 DEF ThereKinds, GoneKinds
      <4> QED
        BY <4>1, <4>2 DEF GoodThere
    <3>2. CASE e.kind \notin ThereKinds
      BY <1>2, <1>3, <1>8, <2>1, <2>6, <3>2 DEF Shows
    <3> QED
      BY <3>1, <3>2
  <2> QED
    BY <1>6, <2>3, <2>4, <2>5, <2>6 DEF Shows
<1>14. Reacts(n)'
  <2> SUFFICES ASSUME n \in rows, Settled(ReactKinds, n)'
               PROVE  /\ n \in reactions' => n \in react
                      /\ In(feed_list', n) # {} /\ n \notin bare /\ n \in react => n \in reactions'
    BY <1>6 DEF Reacts
  <2>1. CASE e.kind \in ReactKinds
    <3>1. e \in GoodReact(n)
      BY <1>3, <1>5, <1>8, <2>1 DEF OfMessage, SaysOf
    <3>2. n \in reactions' <=> e.kind = "react"
      BY <1>1, <1>3, <2>1 DEF Feed!ReadEvent, ReactKinds
    <3> QED
      BY <3>1, <3>2 DEF GoodReact
  <2>2. CASE e.kind \notin ReactKinds
    <3>1. reactions' = reactions /\ Settled(ReactKinds, n)
      BY <1>1, <1>8, <2>2 DEF Feed!ReadEvent, ReactKinds
    <3>2. /\ n \in reactions => n \in react
          /\ In(feed_list, n) # {} /\ n \notin bare /\ n \in react => n \in reactions
      BY <1>3, <3>1 DEF OfMessage, Reacts
    <3>3. CASE e.kind = "create"
      <4>1. n \notin react
        BY <1>3, <1>11, <3>1, <3>3 DEF OfMessage, Comes
      <4> QED
        BY <3>1, <3>2, <4>1
    <3>4. CASE e.kind # "create"
      BY <1>2, <1>3, <3>1, <3>2, <3>4 DEF ThereKinds, GoneKinds
    <3> QED
      BY <3>3, <3>4
  <2> QED
    BY <2>1, <2>2
<1>15. Comes(n)'
  <2>1. Comes(n)
    BY <1>3 DEF OfMessage
  <2>2. Of(feed_inbox, Feed!Kinds, n) # {}
    BY <1>5, <1>12
  <2>3. TellingOf({"create"}, n)' = {} /\ CreatedFirst(feed_inbox', n)
    BY <1>5, <1>7, <2>1, <2>2 DEF Comes
  <2>4. ~ComingOf(n)'
    BY <1>5, <2>1, <2>3 DEF ComingOf, Settled, Comes
  <2> QED
    BY <2>3, <2>4 DEF Comes
<1> QED
  BY <1>6, <1>9, <1>10, <1>13, <1>14, <1>15 DEF OfMessage

(* A message about which nothing is on its way.                            *)
LEMMA SettledMessage ==
    ASSUME NEW m, \A K : Settled(K, m)', Pages(m)',
           (m \notin again)' => Once(feed_list', m) /\ \A e \in In(feed_list', m) : m \in rows' /\ e = Feed!Row(m)',
           Reacts(m)'
    PROVE  OfMessage(m)'
<1>1. \A K : TellingOf(K, m)' = {} /\ Of(feed_inbox', K, m) = {}
  BY DEF Settled
<1>2. ~ComingOf(m)'
  BY DEF ComingOf
<1>3. SaysOf(m)' /\ Comes(m)'
  BY <1>1, <1>2 DEF SaysOf, SaysTrue, Comes, CreatedFirst
<1>4. Feed!Row(m)'.text = text'[m] /\ (Feed!Row(m)'.pinned <=> m \in pinned')
  BY DEF Feed!Row
<1>5. (m \notin again => Shows(m))'
  BY <1>4 DEF Shows
<1> QED
  BY <1>3, <1>5 DEF OfMessage

(* A message that nothing is on its way about, while somebody loads.       *)
LEMMA LoadedMessages ==
    ASSUME FeedTypes, LoadInv, MessagesInv, NEW m \in Feed!Msgs \ raced,
           (\E l \in FeedLoads : Feed!StorePage(l)) \/ (\E o \in Olders : Feed!ExtendOlder(o))
    PROVE  OfMessage(m)'
<1>1. Feed!LoadOpen /\ UNCHANGED <<rows, text, pinned, react, feed_inbox>> /\ UNCHANGED Feed!request
  BY DEF Feed!StorePage, Feed!ExtendOlder, Feed!LoadOpen, Feed!db
<1>2. ~ComingOf(m) /\ \A K : Settled(K, m)
  BY <1>1, LoadSettles
<1>3. SameRow(m) /\ SameRequests(m) /\ Feed!Row(m)' = Feed!Row(m)
  BY <1>1, RequestsSame DEF SameRow, Feed!Row
<1>4. \A K : Settled(K, m)'
  BY <1>1, <1>2, <1>3 DEF SameRequests, Settled
<1>5. OfMessage(m) /\ m \in Feed!Msgs
  BY DEF MessagesInv
<1>6. /\ m \notin again => Once(feed_list, m) /\ \A e \in In(feed_list, m) : m \in rows /\ e = Feed!Row(m)
      /\ m \in rows => /\ m \in reactions => m \in react
                       /\ In(feed_list, m) # {} /\ m \notin bare /\ m \in react => m \in reactions
      /\ Pages(m)
  <2>1. ASSUME m \notin again, NEW e \in In(feed_list, m) PROVE m \in rows /\ e = Feed!Row(m)
    <3>1. m \in rows /\ e.text = text[m] /\ (e.pinned <=> m \in pinned)
      BY <1>2, <1>5, <2>1 DEF OfMessage, Shows
    <3>2. e \in Feed!Entries /\ e.id = m
      BY InIs DEF FeedTypes, Feed!TypeOK
    <3> QED
      BY <3>1, <3>2 DEF Feed!Entries, Feed!Row
  <2> QED
    BY <1>2, <1>5, <2>1 DEF OfMessage, Shows, Reacts
<1>7. ASSUME NEW l \in FeedLoads, Feed!StorePage(l) PROVE OfMessage(m)'
  <2>1. /\ load[l] = "insert" /\ feed_list' = page[l].rows
        /\ reactions' = reactions \cup (page[l].reacted \cap Feed!Ids(page[l].rows))
        /\ page' = [page EXCEPT ![l] = Feed!NoPage] /\ load' = [load EXCEPT ![l] = "subscribe"]
        /\ UNCHANGED <<older, olderPage, bare, again>>
    BY <1>7 DEF Feed!StorePage, Feed!view, Feed!scroll, Feed!past
  <2>2. SamePages
    BY <2>1 DEF SamePages, FeedTypes, Feed!TypeOK
  <2>3. Pages(m)'
    BY <1>3, <1>6, <2>2, PagesStay
  <2>4. /\ Once(feed_list', m) /\ \A e \in In(feed_list', m) : m \in rows /\ e = Feed!Row(m)
        /\ m \in rows => (m \in page[l].reacted <=> m \in react)
    BY <1>6, <2>1 DEF Pages, Right
  <2>5. m \in Feed!Ids(page[l].rows) <=> In(feed_list', m) # {}
    BY <2>1, InIs DEF FeedTypes
  <2>6. Reacts(m)'
    BY <1>1, <1>6, <2>1, <2>4, <2>5 DEF Reacts
  <2> QED
    BY <1>1, <1>3, <1>4, <2>3, <2>4, <2>6, SettledMessage
<1>8. ASSUME NEW o \in Olders, Feed!ExtendOlder(o) PROVE OfMessage(m)'
  <2>1. /\ older[o] = "extend" /\ feed_list' = feed_list \o olderPage[o] /\ reactions' = reactions
        /\ again' = again \cup (Feed!Ids(feed_list) \cap Feed!Ids(olderPage[o]))
        /\ bare' = bare \cup Feed!Ids(olderPage[o])
        /\ olderPage' = [olderPage EXCEPT ![o] = <<>>] /\ older' = [older EXCEPT ![o] = "done"]
        /\ UNCHANGED <<load, page>>
    BY <1>8 DEF Feed!ExtendOlder, Feed!loads
  <2>2. SamePages
    BY <2>1 DEF SamePages, FeedTypes, Feed!TypeOK
  <2>3. Pages(m)'
    BY <1>3, <1>6, <2>2, PagesStay
  <2>4. Once(olderPage[o], m) /\ \A e \in In(olderPage[o], m) : m \in rows /\ e = Feed!Row(m)
    BY <1>6, <2>1 DEF Pages, Right
  <2>5. feed_list \in Seq(Feed!Entries) /\ olderPage[o] \in Seq(Feed!Entries)
    BY DEF FeedTypes, Feed!TypeOK
  <2>6. /\ m \in Feed!Ids(olderPage[o]) <=> In(olderPage[o], m) # {}
        /\ m \in Feed!Ids(feed_list) <=> In(feed_list, m) # {}
    BY <2>5, InIs
  <2>7. /\ In(feed_list', m) = In(feed_list, m) \cup In(olderPage[o], m)
        /\ Once(feed_list, m) /\ Once(olderPage[o], m) /\ (In(feed_list, m) = {} \/ In(olderPage[o], m) = {})
              => Once(feed_list', m)
    BY <2>1, <2>5, JoinedIs
  <2>8. m \notin again' => Once(feed_list', m) /\ \A e \in In(feed_list', m) : m \in rows /\ e = Feed!Row(m)
    BY <1>6, <2>1, <2>4, <2>6, <2>7
  <2>9. Reacts(m)'
    BY <1>1, <1>6, <2>1, <2>6, <2>7 DEF Reacts
  <2> QED
    BY <1>1, <1>3, <1>4, <2>3, <2>8, <2>9, SettledMessage
<1> QED
  BY <1>7, <1>8

(* A page that is read is right about every message nobody races with.     *)
LEMMA ReadPages ==
    ASSUME FeedAssumption, FeedTypes, MessagesInv, NEW m \in Feed!Msgs \ raced',
           (\E l \in FeedLoads : Feed!GetPage(l)) \/ (\E o \in Olders : Feed!GetOlder(o))
    PROVE  OfMessage(m)'
<1>1. /\ UNCHANGED <<rows, text, pinned, react, feed_list, reactions, feed_inbox, again, bare>>
      /\ UNCHANGED Feed!request /\ raced \subseteq raced'
  BY DEF Feed!GetPage, Feed!GetOlder, Feed!db
<1>2. OfMessage(m)
  BY <1>1 DEF MessagesInv
<1>3. SameRow(m) /\ SameRequests(m) /\ QueueKept(feed_inbox, feed_inbox', m) /\ SameShown(m) /\ Feed!Row(m)' = Feed!Row(m)
  BY <1>1, RequestsSame, QueueSame DEF SameRow, SameShown, Feed!Row
<1>4. Pages(m)
  BY <1>2 DEF OfMessage
<1>5. ASSUME NEW before \in Nat PROVE Right(Feed!Page(before), m)
  BY <1>5, PageIs DEF Right
<1>6. ASSUME Feed!Underway \cup Feed!OnTheWay \subseteq raced' PROVE ~ComingOf(m)
  <2>1. m \notin Feed!Underway /\ m \notin Feed!OnTheWay
    BY <1>6
  <2>2. TellingOf({"create"}, m) = {}
    BY <2>1 DEF TellingOf, Feed!Underway
  <2>3. Of(feed_inbox, {"create"}, m) = {}
    BY <2>1 DEF Of, Feed!OnTheWay
  <2> QED
    BY <2>2, <2>3 DEF ComingOf, Settled
<1>7. ASSUME NEW l \in FeedLoads, Feed!GetPage(l) PROVE OfMessage(m)'
  <2>1. /\ page' = [page EXCEPT ![l] = [rows |-> Feed!Page(MaxMsgs + 1), reacted |-> rows \cap react]]
        /\ load' = [load EXCEPT ![l] = "insert"] /\ raced' = raced \cup Feed!Underway \cup Feed!OnTheWay
        /\ UNCHANGED <<older, olderPage>>
    BY <1>7 DEF Feed!GetPage, Feed!view, Feed!scroll
  <2>2. ~ComingOf(m)
    BY <1>6, <2>1
  <2>3. \A h \in FeedLoads :
           page'[h] = IF h = l THEN [rows |-> Feed!Page(MaxMsgs + 1), reacted |-> rows \cap react]
                               ELSE page[h]
    BY <2>1 DEF FeedTypes
  <2>4. \A h \in FeedLoads : h # l => load'[h] = load[h]
    BY <2>1 DEF FeedTypes, Feed!TypeOK
  <2>5. Right(Feed!Page(MaxMsgs + 1), m)
    BY <1>5 DEF FeedAssumption
  <2>7. ASSUME NEW h \in FeedLoads, load'[h] = "insert"
        PROVE  Right(page[h].rows, m)' /\ (m \in rows => (m \in page'[h].reacted <=> m \in react))
    <3>1. CASE h = l
      <4>1. page'[h].rows = Feed!Page(MaxMsgs + 1) /\ page'[h].reacted = rows \cap react
        BY <2>3, <3>1
      <4> QED
        BY <1>1, <1>3, <2>5, <4>1 DEF Right
    <3>2. CASE h # l
      BY <1>1, <1>3, <1>4, <2>3, <2>4, <2>7, <3>2 DEF Pages, Right
    <3> QED
      BY <3>1, <3>2
  <2>8. Pages(m)'
    BY <1>1, <1>3, <1>4, <2>1, <2>7 DEF Pages, Right
  <2> QED
    BY <1>2, <1>3, <2>2, <2>8, MessageStays
<1>8. ASSUME NEW o \in Olders, Feed!GetOlder(o) PROVE OfMessage(m)'
  <2>1. CASE from[o] \in rows
    <3>1. /\ olderPage' = [olderPage EXCEPT ![o] = Feed!Page(from[o])]
          /\ older' = [older EXCEPT ![o] = "extend"] /\ raced' = raced \cup Feed!Underway \cup Feed!OnTheWay
          /\ UNCHANGED <<load, page>>
      BY <1>8, <2>1 DEF Feed!GetOlder, Feed!loads
    <3>2. ~ComingOf(m)
      BY <1>6, <3>1
    <3>3. \A h \in Olders : /\ h # o => olderPage'[h] = olderPage[h] /\ older'[h] = older[h]
                            /\ h = o => olderPage'[h] = Feed!Page(from[o])
      BY <3>1 DEF FeedTypes, Feed!TypeOK
    <3>4. Right(Feed!Page(from[o]), m)
      BY <1>5 DEF FeedTypes, Feed!TypeOK
    <3>6. Pages(m)'
      BY <1>1, <1>3, <1>4, <3>1, <3>3, <3>4 DEF Pages, Right
    <3> QED
      BY <1>2, <1>3, <3>2, <3>6, MessageStays
  <2>2. CASE from[o] \notin rows
    <3>1. SamePages
      BY <1>8, <2>2 DEF Feed!GetOlder, Feed!loads, SamePages, FeedTypes, Feed!TypeOK
    <3>2. Pages(m)' /\ (Hidden(m) => Hidden(m)')
      BY <1>3, <1>4, <3>1, PagesStay
    <3> QED
      BY <1>2, <1>3, <3>2, MessageStays DEF OfMessage, Comes
  <2> QED
    BY <2>1, <2>2
<1> QED
  BY <1>7, <1>8

(* What is known of the messages that are not raced.                       *)
LEMMA MessagesStep ==
    FeedAssumption /\ FeedTypes /\ IdsInv /\ LoadInv /\ SubscribedInv /\ SoleInv /\ MessagesInv
    /\ [Feed!Next]_(Feed!vars) => MessagesInv'
<1> SUFFICES ASSUME FeedAssumption, FeedTypes, IdsInv, LoadInv, SubscribedInv, SoleInv, MessagesInv,
                    [Feed!Next]_(Feed!vars), NEW m \in Feed!Msgs \ raced'
             PROVE  OfMessage(m)'
  BY DEF MessagesInv
<1> USE DEF Feed!db, Feed!request, Feed!loads, Feed!scroll, Feed!view, Feed!past
<1>a. ASSUME m \notin raced,
             UNCHANGED <<rows, text, pinned, react, feed_list, reactions, feed_inbox, again, bare>>,
             SamePages, SameRequests(m)
      PROVE  OfMessage(m)'
  <2>1. OfMessage(m) /\ SameRow(m) /\ SameShown(m) /\ QueueKept(feed_inbox, feed_inbox', m)
    BY <1>a, QueueSame DEF MessagesInv, SameRow, SameShown
  <2>2. Pages(m)' /\ (Hidden(m) => Hidden(m)')
    BY <1>a, <2>1, PagesStay DEF OfMessage
  <2> QED
    BY <1>a, <2>1, <2>2, MessageStays DEF OfMessage, Comes
<1>1. CASE UNCHANGED Feed!vars
  BY <1>1, <1>a, RequestsSame DEF Feed!vars, SamePages
<1>2. ASSUME NEW r \in Requests, NEW k \in Feed!Kinds, NEW n \in Feed!Msgs, Feed!Change(r, k, n)
      PROVE  OfMessage(m)'
  <2>1. /\ \A i \in Feed!Msgs : i # n => SameRow(i)
        /\ \A K, i : TellingOf(K, i)' = TellingOf(K, i) \cup (IF i = n /\ k \in K THEN {r} ELSE {})
        /\ raced \subseteq raced'
        /\ UNCHANGED <<feed_list, reactions, subscribed, feed_inbox, Feed!loads, Feed!view, again, bare>>
    BY <1>2, ChangeIs
  <2>2. CASE m = n
    BY <1>2, <2>2, ChangedMessage
  <2>3. CASE m # n
    <3>1. OfMessage(m) /\ SameRow(m) /\ SameRequests(m) /\ SamePages /\ SameShown(m)
          /\ QueueKept(feed_inbox, feed_inbox', m)
      BY <2>1, <2>3, QueueSame DEF MessagesInv, SameRequests, SamePages, SameShown
    <3>2. Pages(m)' /\ (Hidden(m) => Hidden(m)')
      BY <3>1, PagesStay DEF OfMessage
    <3> QED
      BY <3>1, <3>2, MessageStays DEF OfMessage, Comes
  <2> QED
    BY <2>2, <2>3
<1>3. ASSUME NEW r \in Requests, Feed!Tell(r) PROVE OfMessage(m)'
  <2>1. PICK e : e = [kind |-> feed_kind[r], id |-> msg[r], row |-> data[r]]
    OBVIOUS
  <2>2. /\ e \in Events /\ e.id = msg[r] /\ (feed_inbox' = Append(feed_inbox, e) \/ feed_inbox' = feed_inbox)
        /\ \A K, i : TellingOf(K, i)' = TellingOf(K, i) \ {r}
        /\ \A K, i : r \in TellingOf(K, i) <=> i = e.id /\ e.kind \in K
        /\ UNCHANGED <<Feed!db, msg, feed_list, reactions, subscribed, Feed!loads, Feed!view, Feed!past>>
    BY <1>3, <2>1, TellIs
  <2>3. CASE m = msg[r]
    BY <1>3, <2>2, <2>3, ToldMessage
  <2>4. CASE m # msg[r]
    <3>1. feed_inbox \in Seq(Events)
      BY DEF FeedTypes
    <3>2. QueueKept(feed_inbox, feed_inbox', m)
      <4>1. QueueKept(feed_inbox, Append(feed_inbox, e), m)
        BY <2>2, <2>4, <3>1, QueueAppended
      <4> QED
        BY <2>2, <4>1, QueueSame
    <3>3. SameRequests(m)
      <4>1. \A K : r \notin TellingOf(K, m)
        BY <2>2, <2>4
      <4> QED
        BY <2>2, <4>1 DEF SameRequests
    <3>4. OfMessage(m) /\ SameRow(m) /\ SamePages /\ SameShown(m)
      BY <2>2 DEF MessagesInv, SameRow, SamePages, SameShown
    <3>5. Pages(m)' /\ (Hidden(m) => Hidden(m)')
      BY <3>4, PagesStay DEF OfMessage
    <3> QED
      BY <3>2, <3>3, <3>4, <3>5, MessageStays DEF OfMessage, Comes
  <2> QED
    BY <2>3, <2>4
<1>4. ASSUME NEW r \in Requests, Feed!DeleteLocally(r) PROVE OfMessage(m)'
  <2>1. /\ feed_pc[r] = "local" /\ feed_list' = Feed!Without(feed_list, msg[r])
        /\ \A q \in Requests : feed_pc'[q] = feed_pc[q] \/ (feed_pc[q] = "local" /\ feed_pc'[q] = "done")
        /\ UNCHANGED <<Feed!db, feed_kind, msg, data, reactions, subscribed, feed_inbox, Feed!loads, Feed!view, Feed!past>>
    BY <1>4 DEF Feed!DeleteLocally, FeedTypes, Feed!TypeOK
  <2>2. SameRequests(m) /\ QueueKept(feed_inbox, feed_inbox', m) /\ OfMessage(m) /\ SameRow(m) /\ SamePages
    BY <2>1, QueueSame DEF SameRequests, TellingOf, MessagesInv, SameRow, SamePages
  <2>3. Pages(m)' /\ (Hidden(m) => Hidden(m)')
    BY <2>2, PagesStay DEF OfMessage
  <2>4. /\ In(feed_list', m) = IF m = msg[r] THEN {} ELSE In(feed_list, m)
        /\ Once(feed_list, m) => Once(feed_list', m)
    BY <2>1, WithoutIs DEF FeedTypes, Feed!TypeOK
  <2>5. CASE m # msg[r]
    <3>1. SameShown(m)
      BY <2>1, <2>4, <2>5 DEF SameShown
    <3> QED
      BY <2>2, <2>3, <3>1, MessageStays DEF OfMessage, Comes
  <2>6. CASE m = msg[r]
    <3>1. m \notin rows
      BY <2>1, <2>6 DEF IdsInv
    <3>2. /\ \A K : Settled(K, m)' <=> Settled(K, m)
          /\ ComingOf(m)' <=> ComingOf(m)
      BY <2>2, SettledStays
    <3>3. SaysOf(m)'
      <4>1. /\ GoodText(m)' = GoodText(m) /\ GoodPin(m)' = GoodPin(m)
            /\ GoodThere(m)' = GoodThere(m) /\ GoodReact(m)' = GoodReact(m)
        BY <2>1 DEF GoodText, GoodPin, GoodThere, GoodReact
      <4> QED
        BY <2>1, <2>2, <4>1 DEF OfMessage, SaysOf, SameRequests
    <3>4. (m \notin again => Shows(m))'
      BY <2>1, <2>2, <2>4, <2>6 DEF OfMessage, Shows
    <3>5. Reacts(m)'
      BY <2>1, <3>1 DEF Reacts
    <3>6. Comes(m)'
      BY <2>1, <2>2, <2>3, <2>4, <2>6, <3>2 DEF OfMessage, Comes, SameRequests
    <3> QED
      BY <2>3, <3>3, <3>4, <3>5, <3>6 DEF OfMessage
  <2> QED
    BY <2>5, <2>6
<1>5. ASSUME Feed!ReadEvent PROVE OfMessage(m)'
  <2>1. PICK e : e = Head(feed_inbox)
    OBVIOUS
  <2>2. /\ feed_inbox # <<>> /\ feed_inbox' = Tail(feed_inbox) /\ feed_inbox \in Seq(Events)
        /\ UNCHANGED <<Feed!db, Feed!request, subscribed, Feed!loads, Feed!view, Feed!past>>
    BY <1>5 DEF Feed!ReadEvent, FeedTypes
  <2>3. CASE m = e.id
    BY <1>5, <2>1, <2>2, <2>3, ReadMessage
  <2>4. CASE m # e.id
    <3>1. /\ In(feed_list', m) = In(feed_list, m) /\ (Once(feed_list, m) => Once(feed_list', m))
      BY <1>5, <2>1, <2>4, ReadIs
    <3>2. e.id \in Feed!Msgs /\ e.kind \in Feed!Kinds
      BY <1>5, <2>1, ReadIs DEF Events
    <3>3. m \in reactions' <=> m \in reactions
      BY <1>5, <2>1, <2>4 DEF Feed!ReadEvent
    <3>4. SameShown(m)
      BY <2>2, <3>1, <3>3 DEF SameShown
    <3>5. QueueKept(feed_inbox, feed_inbox', m)
      BY <2>1, <2>2, <2>4, QueueRead
    <3>6. SameRequests(m) /\ OfMessage(m) /\ SameRow(m) /\ SamePages
      BY <2>2, RequestsSame DEF MessagesInv, SameRow, SamePages
    <3>7. Pages(m)' /\ (Hidden(m) => Hidden(m)')
      BY <3>6, PagesStay DEF OfMessage
    <3> QED
      BY <3>4, <3>5, <3>6, <3>7, MessageStays DEF OfMessage, Comes
  <2> QED
    BY <2>3, <2>4
<1>6. ASSUME NEW l \in FeedLoads, Feed!GetPage(l) PROVE OfMessage(m)'
  BY <1>6, ReadPages
<1>7. ASSUME NEW l \in FeedLoads, Feed!StorePage(l) PROVE OfMessage(m)'
  <2>1. raced' = raced
    BY <1>7 DEF Feed!StorePage
  <2> QED
    BY <1>7, <2>1, LoadedMessages
<1>8. ASSUME NEW l \in FeedLoads, Feed!ServeSubscribe(l) PROVE OfMessage(m)'
  <2>1. SamePages
    BY <1>8 DEF Feed!ServeSubscribe, SamePages, FeedTypes, Feed!TypeOK
  <2> QED
    BY <1>8, <1>a, <2>1, RequestsSame DEF Feed!ServeSubscribe
<1>9. ASSUME NEW timeout \in BOOLEAN, Feed!Frame(timeout) PROVE OfMessage(m)'
  BY <1>9, <1>a, RequestsSame DEF Feed!Frame, SamePages
<1>10. ASSUME NEW o \in Olders, Feed!StartOlder(o) PROVE OfMessage(m)'
  <2>1. SamePages
    BY <1>10 DEF Feed!StartOlder, SamePages, FeedTypes, Feed!TypeOK
  <2> QED
    BY <1>10, <1>a, <2>1, RequestsSame DEF Feed!StartOlder
<1>11. ASSUME NEW o \in Olders, Feed!GetOlder(o) PROVE OfMessage(m)'
  BY <1>11, ReadPages
<1>12. ASSUME NEW o \in Olders, Feed!ExtendOlder(o) PROVE OfMessage(m)'
  <2>1. raced' = raced
    BY <1>12 DEF Feed!ExtendOlder
  <2> QED
    BY <1>12, <2>1, LoadedMessages
<1>13. ASSUME NEW r \in Requests, Feed!Untold(r) PROVE OfMessage(m)'
  <2>1. /\ m # msg[r] /\ m \notin raced
        /\ \A K, i : i # msg[r] => TellingOf(K, i)' = TellingOf(K, i)
        /\ UNCHANGED <<rows, text, pinned, react, feed_list, reactions, feed_inbox, Feed!loads, Feed!view, again, bare>>
    BY <1>13, UntoldIs
  <2>2. SamePages /\ SameRequests(m)
    BY <2>1 DEF SamePages, SameRequests
  <2> QED
    BY <1>a, <2>1, <2>2
<1> QED
  BY <1>1, <1>2, <1>3, <1>4, <1>5, <1>6, <1>7, <1>8, <1>9, <1>10, <1>11, <1>12,
     <1>13 DEF Feed!Next

-----------------------------------------------------------------------------
(* Where no message comes or goes, what is shown reaches as far as before. *)
LEMMA NewestStays ==
    ASSUME FeedTypes, NewestInv, SamePages, rows' = rows, raced \subseteq raced',
           bare' = bare, subscribed' = subscribed, Feed!Ids(feed_list)' = Feed!Ids(feed_list),
           \A m \in Feed!Msgs : ComingOf(m)' <=> ComingOf(m)
    PROVE  NewestInv'
<1>1. rows \subseteq Feed!Msgs
  BY DEF FeedTypes, Feed!TypeOK
<1>2. ASSUME NEW l \in FeedLoads, load'[l] = "insert" PROVE Newest(page[l].rows)'
  BY <1>2 DEF NewestInv, SamePages, Newest, Feed!Ids
<1>3. ASSUME NEW k \in Feed!Msgs \ raced', NEW m \in rows \ raced', k < m, Before(k)'
      PROVE  m \in Feed!Ids(feed_list) \/ ComingOf(m)
  BY <1>1, <1>3 DEF NewestInv, Before
<1> QED
  BY <1>1, <1>2, <1>3 DEF NewestInv

(* The newest messages are shown, or are still to come.                    *)
LEMMA NewestStep ==
    FeedAssumption /\ FeedTypes /\ IdsInv /\ LoadInv /\ SubscribedInv /\ SoleInv /\ MessagesInv
    /\ NewestInv /\ IdsInv' /\ [Feed!Next]_(Feed!vars) => NewestInv'
<1> SUFFICES ASSUME FeedAssumption, FeedTypes, IdsInv, LoadInv, SubscribedInv, SoleInv, MessagesInv,
                    NewestInv, IdsInv', [Feed!Next]_(Feed!vars)
             PROVE  NewestInv'
  OBVIOUS
<1> USE DEF Feed!db, Feed!request, Feed!loads, Feed!scroll, Feed!view, Feed!past
<1>0. /\ rows \subseteq Feed!Msgs /\ feed_list \in Seq(Feed!Entries)
      /\ \A k \in Feed!Msgs \ raced, m \in rows \ raced : k < m /\ Before(k) => m \in Feed!Ids(feed_list) \/ ComingOf(m)
  BY DEF FeedTypes, Feed!TypeOK, NewestInv
<1>1. CASE UNCHANGED Feed!vars
  <2>1. \A m : ComingOf(m)' <=> ComingOf(m)
    BY <1>1 DEF Feed!vars, ComingOf, Settled, TellingOf, Of
  <2> QED
    BY <1>1, <2>1, NewestStays DEF Feed!vars, SamePages, Feed!Ids
<1>2. ASSUME NEW r \in Requests, NEW c \in Feed!Kinds, NEW n \in Feed!Msgs, Feed!Change(r, c, n) PROVE NewestInv'
  <2>1. /\ \A m \in Feed!Msgs : m # n => SameRow(m)
        /\ c = "create" => n = last + 1 /\ last' = n
        /\ c # "create" => n \in rows
        /\ \A K, m : TellingOf(K, m)' = TellingOf(K, m) \cup (IF m = n /\ c \in K THEN {r} ELSE {})
        /\ n \notin raced' => ~Feed!LoadOpen
        /\ raced \subseteq raced'
        /\ UNCHANGED <<feed_list, reactions, subscribed, feed_inbox, Feed!loads, Feed!view, again, bare>>
    BY <1>2, ChangeIs
  <2>2. rows' \subseteq 1..last' /\ \A m \in rows' : m # n => m \in rows
    <3>1. rows' \subseteq Feed!Msgs
      BY <1>2, FeedTypeStep DEF FeedTypes, Feed!TypeOK
    <3> QED
      BY <2>1, <3>1 DEF IdsInv, SameRow
  <2>3. \A m : m # n \/ c # "create" => (ComingOf(m)' <=> ComingOf(m))
    BY <2>1 DEF ComingOf, Settled
  <2>4. c = "create" => ComingOf(n)'
    BY <2>1 DEF ComingOf, Settled
  <2>5. ASSUME NEW l \in FeedLoads, load'[l] = "insert" PROVE Newest(page[l].rows)'
    <3>1. Feed!LoadOpen /\ Newest(page[l].rows)
      BY <2>1, <2>5 DEF NewestInv, Feed!LoadOpen
    <3> QED
      BY <2>1, <2>2, <3>1 DEF Newest, Feed!Ids
  <2>6. ASSUME NEW k \in Feed!Msgs \ raced', NEW m \in rows' \ raced', k < m, Before(k)'
        PROVE  m \in Feed!Ids(feed_list) \/ ComingOf(m)'
    <3>1. CASE c = "create" /\ m = n
      BY <2>4, <3>1
    <3>2. CASE ~(c = "create" /\ m = n)
      <4>1. m \in rows /\ k \notin raced /\ m \notin raced
        BY <2>1, <2>2, <2>6, <3>2
      <4>2. ~(c = "create" /\ k = n)
        <5>1. ASSUME c = "create" PROVE k # n
          <6>1. m \in Nat /\ last' = n /\ m <= n
            BY <2>1, <2>2, <2>6, <5>1 DEF Feed!Msgs
          <6> QED
            BY <2>6, <6>1 DEF Feed!Msgs
        <5> QED
          BY <5>1
      <4>3. Before(k)
        BY <2>1, <2>3, <2>6, <4>2 DEF Before
      <4>4. m \in Feed!Ids(feed_list) \/ ComingOf(m)
        BY <1>0, <2>6, <4>1, <4>3
      <4> QED
        BY <2>3, <3>2, <4>4
    <3> QED
      BY <3>1, <3>2
  <2> QED
    BY <2>1, <2>5, <2>6 DEF NewestInv
<1>3. ASSUME NEW r \in Requests, Feed!Tell(r) PROVE NewestInv'
  <2>1. PICK e : e = [kind |-> feed_kind[r], id |-> msg[r], row |-> data[r]]
    OBVIOUS
  <2>2. /\ e \in Events /\ e.id = msg[r] /\ e.kind = feed_kind[r]
        /\ feed_inbox' = Append(feed_inbox, e) \/ feed_inbox' = feed_inbox
        /\ subscribed /\ Feed!Announced(r) => feed_inbox' = Append(feed_inbox, e)
        /\ \A K, m : TellingOf(K, m)' = TellingOf(K, m) \ {r}
        /\ \A K, m : r \in TellingOf(K, m) <=> m = e.id /\ e.kind \in K
        /\ UNCHANGED <<Feed!db, msg, feed_list, reactions, subscribed, Feed!loads, Feed!view, Feed!past>>
    BY <1>3, <2>1, TellIs
  <2>3. \A K, m : Of(Append(feed_inbox, e), K, m) = {} <=> Of(feed_inbox, K, m) = {} /\ ~(e.id = m /\ e.kind \in K)
    BY <2>2, QueueAppended DEF FeedTypes
  <2>4. \A m : Of(feed_inbox', {"create"}, m) # {} =>
                  Of(feed_inbox, {"create"}, m) # {} \/ (e.id = m /\ e.kind = "create")
    BY <2>2, <2>3
  <2>5. \A m : ComingOf(m)' => ComingOf(m)
    BY <2>2, <2>4 DEF ComingOf, Settled
  <2>6. \A m : ~(e.id = m /\ e.kind = "create") => (ComingOf(m) => ComingOf(m)')
    <3> SUFFICES ASSUME NEW m, ~(e.id = m /\ e.kind = "create"), ComingOf(m) PROVE ComingOf(m)'
      OBVIOUS
    <3>1. TellingOf({"create"}, m)' = TellingOf({"create"}, m)
      <4>1. r \notin TellingOf({"create"}, m)
        BY <2>2
      <4> QED
        BY <2>2, <4>1
    <3>2. Of(feed_inbox, {"create"}, m) # {} => Of(feed_inbox', {"create"}, m) # {}
      BY <2>2, <2>3
    <3> QED
      BY <3>1, <3>2 DEF ComingOf, Settled
  <2>7. ASSUME e.kind = "create", subscribed PROVE ComingOf(e.id)'
    <3>1. feed_inbox' = Append(feed_inbox, e)
      BY <2>2, <2>7 DEF Feed!Announced
    <3> QED
      BY <2>3, <2>7, <3>1 DEF ComingOf, Settled
  <2>8. ASSUME NEW k \in Feed!Msgs \ raced, NEW m \in rows \ raced, k < m, Before(k)'
        PROVE  m \in Feed!Ids(feed_list) \/ ComingOf(m)'
    <3>1. Before(k)
      BY <2>2, <2>5, <2>8 DEF Before
    <3>2. m \in Feed!Ids(feed_list) \/ ComingOf(m)
      BY <1>0, <2>8, <3>1
    <3>3. CASE e.id = m /\ e.kind = "create"
      <4>1. ~subscribed => feed_list = <<>>
        BY <1>3, <2>2, <2>8, <3>3, ToldMessage
      <4>2. feed_list = <<>> => Feed!Ids(feed_list) = {}
        BY DEF Feed!Ids
      <4>3. subscribed
        BY <3>1, <4>1, <4>2 DEF Before
      <4> QED
        BY <2>7, <3>3, <4>3
    <3>4. CASE ~(e.id = m /\ e.kind = "create")
      BY <2>6, <3>2, <3>4
    <3> QED
      BY <3>3, <3>4
  <2>9. \A l \in FeedLoads : load'[l] = "insert" => Newest(page[l].rows)'
    <3>1. UNCHANGED <<rows, raced, load, page>>
      BY <2>2
    <3> QED
      BY <3>1 DEF NewestInv, Newest, Feed!Ids
  <2> QED
    BY <2>2, <2>8, <2>9 DEF NewestInv
<1>4. ASSUME NEW r \in Requests, Feed!DeleteLocally(r) PROVE NewestInv'
  <2>1. /\ feed_pc[r] = "local" /\ feed_list' = Feed!Without(feed_list, msg[r])
        /\ \A q \in Requests : feed_pc'[q] = feed_pc[q] \/ (feed_pc[q] = "local" /\ feed_pc'[q] = "done")
        /\ UNCHANGED <<Feed!db, feed_kind, msg, data, reactions, subscribed, feed_inbox, Feed!loads, Feed!view, Feed!past>>
    BY <1>4 DEF Feed!DeleteLocally, FeedTypes, Feed!TypeOK
  <2>2. \A m : ComingOf(m)' <=> ComingOf(m)
    BY <2>1 DEF ComingOf, Settled, TellingOf
  <2>3. msg[r] \notin rows
    BY <2>1 DEF IdsInv
  <2>4. feed_list' \in Seq(Feed!Entries) /\ \A m : In(feed_list', m) = IF m = msg[r] THEN {} ELSE In(feed_list, m)
    <3>1. PICK n : n = msg[r]
      OBVIOUS
    <3>2. feed_list' = Feed!Without(feed_list, n) /\ feed_list \in Seq(Feed!Entries)
      BY <1>0, <2>1, <3>1
    <3>3. /\ Feed!Without(feed_list, n) \in Seq(Feed!Entries)
          /\ \A m : In(Feed!Without(feed_list, n), m) = IF m = n THEN {} ELSE In(feed_list, m)
      BY <3>2, WithoutIs
    <3> QED
      BY <3>1, <3>2, <3>3
  <2>5. \A m : (m \in Feed!Ids(feed_list') <=> In(feed_list', m) # {}) /\ (m \in Feed!Ids(feed_list) <=> In(feed_list, m) # {})
    BY <1>0, <2>4, InIs
  <2>6. \A m : /\ m \in Feed!Ids(feed_list') => m \in Feed!Ids(feed_list)
               /\ m # msg[r] /\ m \in Feed!Ids(feed_list) => m \in Feed!Ids(feed_list')
    BY <2>4, <2>5
  <2>7. \A k : Before(k)' => Before(k)
    BY <2>1, <2>2, <2>6 DEF Before, Feed!Ids
  <2>8. ASSUME NEW k \in Feed!Msgs \ raced, NEW m \in rows \ raced, k < m, Before(k)'
        PROVE  m \in Feed!Ids(feed_list') \/ ComingOf(m)'
    BY <1>0, <2>2, <2>3, <2>6, <2>7, <2>8
  <2>9. \A l \in FeedLoads : load'[l] = "insert" => Newest(page[l].rows)'
    BY <2>1 DEF NewestInv, Newest, Feed!Ids
  <2> QED
    BY <2>1, <2>8, <2>9 DEF NewestInv, Feed!Ids
<1>5. ASSUME Feed!ReadEvent PROVE NewestInv'
  <2>1. PICK e : e = Head(feed_inbox)
    OBVIOUS
  <2>2. /\ feed_inbox # <<>> /\ feed_inbox' = Tail(feed_inbox) /\ feed_inbox \in Seq(Events)
        /\ UNCHANGED <<Feed!db, Feed!request, subscribed, Feed!loads, Feed!view, Feed!past>>
    BY <1>5 DEF Feed!ReadEvent, FeedTypes
  <2>3. /\ e \in Events /\ feed_list' \in Seq(Feed!Entries)
        /\ \A m : m # e.id => In(feed_list', m) = In(feed_list, m)
        /\ e.kind = "create" => In(feed_list', e.id) # {}
        /\ e.kind \in GoneKinds => In(feed_list', e.id) = {}
        /\ e.kind \notin ThereKinds => (In(feed_list', e.id) = {} <=> In(feed_list, e.id) = {})
    BY <1>5, <2>1, ReadIs
  <2>4. \A m : (m \in Feed!Ids(feed_list') <=> In(feed_list', m) # {}) /\ (m \in Feed!Ids(feed_list) <=> In(feed_list, m) # {})
    BY <1>0, <2>3, InIs
  <2>5. \A K, m : Of(feed_inbox, K, m) = {} <=> Of(feed_inbox', K, m) = {} /\ ~(e.id = m /\ e.kind \in K)
    BY <2>1, <2>2, QueueRead
  <2>6. \A m : ComingOf(m) <=> ComingOf(m)' \/ (e.id = m /\ e.kind = "create")
    BY <2>2, <2>5, RequestsSame DEF SameRequests, ComingOf, Settled
  <2>7. subscribed
    BY <2>2 DEF SubscribedInv
  <2>8. \A k : Before(k)' => Before(k)
    <3> SUFFICES ASSUME NEW k, Before(k)' PROVE Before(k)
      OBVIOUS
    <3>1. CASE ComingOf(k)
      BY <2>7, <3>1 DEF Before
    <3>2. CASE ~ComingOf(k)
      <4>1. In(feed_list', k) # {} /\ k \notin bare /\ ~(e.id = k /\ e.kind = "create")
        BY <2>2, <2>4, <2>6, <3>2 DEF Before, Feed!Ids
      <4>2. In(feed_list, k) # {}
        BY <2>3, <4>1 DEF ThereKinds, GoneKinds
      <4> QED
        BY <2>4, <4>1, <4>2 DEF Before
    <3> QED
      BY <3>1, <3>2
  <2>9. \A i \in DOMAIN feed_inbox : feed_inbox[i].kind \in GoneKinds => feed_inbox[i].id \notin rows
    BY DEF IdsInv
  <2>10. e.kind \in GoneKinds => e.id \notin rows
    <3>1. 1 \in DOMAIN feed_inbox /\ e = feed_inbox[1]
      BY <2>1, <2>2
    <3> QED
      BY <2>9, <3>1
  <2>11. ASSUME NEW k \in Feed!Msgs \ raced, NEW m \in rows \ raced, k < m, Before(k)'
         PROVE  m \in Feed!Ids(feed_list') \/ ComingOf(m)'
    <3>1. m \in Feed!Ids(feed_list) \/ ComingOf(m)
      BY <1>0, <2>8, <2>11
    <3>2. CASE e.id = m /\ e.kind = "create"
      BY <2>3, <2>4, <3>2
    <3>3. CASE ~(e.id = m /\ e.kind = "create")
      <4>1. In(feed_list, m) # {} => In(feed_list', m) # {}
        BY <2>3, <2>10, <2>11, <3>3 DEF ThereKinds, GoneKinds
      <4> QED
        BY <2>4, <2>6, <3>1, <3>3, <4>1
    <3> QED
      BY <3>2, <3>3
  <2>12. \A l \in FeedLoads : load'[l] = "insert" => Newest(page[l].rows)'
    <3>1. UNCHANGED <<rows, raced, load, page>>
      BY <2>2
    <3> QED
      BY <3>1 DEF NewestInv, Newest, Feed!Ids
  <2> QED
    BY <2>2, <2>11, <2>12 DEF NewestInv, Feed!Ids
<1>6. ASSUME NEW l \in FeedLoads, Feed!GetPage(l) PROVE NewestInv'
  <2>1. /\ page' = [page EXCEPT ![l] = [rows |-> Feed!Page(MaxMsgs + 1), reacted |-> rows \cap react]]
        /\ load' = [load EXCEPT ![l] = "insert"] /\ raced \subseteq raced'
        /\ UNCHANGED <<Feed!db, Feed!request, feed_list, reactions, subscribed, feed_inbox, Feed!view, again, bare>>
    BY <1>6 DEF Feed!GetPage
  <2>2. \A m : (ComingOf(m)' <=> ComingOf(m)) /\ (Before(m)' <=> Before(m))
    BY <2>1 DEF ComingOf, Settled, TellingOf, Before, Feed!Ids
  <2>3. MaxMsgs + 1 \in Nat /\ \A m \in rows : m < MaxMsgs + 1
    BY <1>0 DEF FeedAssumption, Feed!Msgs
  <2>4. \A k \in Feed!Ids(Feed!Page(MaxMsgs + 1)), m \in rows : k < m => m \in Feed!Ids(Feed!Page(MaxMsgs + 1))
    BY <2>3, PageIs
  <2>5. ASSUME NEW h \in FeedLoads, load'[h] = "insert" PROVE Newest(page[h].rows)'
    <3>1. CASE h = l
      <4>1. page'[h].rows = Feed!Page(MaxMsgs + 1)
        BY <2>1, <3>1 DEF FeedTypes
      <4> QED
        BY <2>1, <2>4, <4>1 DEF Newest, Feed!Ids
    <3>2. CASE h # l
      <4>1. page'[h] = page[h] /\ Newest(page[h].rows)
        BY <2>1, <2>5, <3>2 DEF FeedTypes, Feed!TypeOK, NewestInv
      <4> QED
        BY <2>1, <4>1 DEF Newest, Feed!Ids
    <3> QED
      BY <3>1, <3>2
  <2> QED
    BY <1>0, <2>1, <2>2, <2>5 DEF NewestInv
<1>7. ASSUME NEW l \in FeedLoads, Feed!StorePage(l) PROVE NewestInv'
  <2>1. /\ load[l] = "insert" /\ feed_list' = page[l].rows
        /\ page' = [page EXCEPT ![l] = Feed!NoPage] /\ load' = [load EXCEPT ![l] = "subscribe"]
        /\ UNCHANGED <<Feed!db, Feed!request, subscribed, feed_inbox, Feed!view, Feed!past>>
    BY <1>7 DEF Feed!StorePage
  <2>2. Newest(page[l].rows) /\ Feed!LoadOpen
    BY <2>1 DEF NewestInv, Feed!LoadOpen
  <2>3. \A m \in Feed!Msgs \ raced : ~ComingOf(m)'
    <3>1. \A m : ComingOf(m)' <=> ComingOf(m)
      BY <2>1 DEF ComingOf, Settled, TellingOf
    <3> QED
      BY <2>2, <3>1, LoadSettles
  <2>4. SamePages
    BY <2>1 DEF SamePages, FeedTypes, Feed!TypeOK
  <2>5. \A h \in FeedLoads : load'[h] = "insert" => Newest(page[h].rows)'
    <3>1. UNCHANGED <<rows, raced>>
      BY <2>1
    <3> QED
      BY <2>4, <3>1 DEF SamePages, NewestInv, Newest, Feed!Ids
  <2>6. \A k \in Feed!Msgs \ raced, m \in rows \ raced : k < m /\ Before(k)' => m \in Feed!Ids(feed_list')
    BY <2>1, <2>2, <2>3 DEF Before, Newest, Feed!Ids
  <2> QED
    BY <2>1, <2>5, <2>6 DEF NewestInv, Feed!Ids
<1>8. ASSUME NEW l \in FeedLoads, Feed!ServeSubscribe(l) PROVE NewestInv'
  <2>1. /\ load[l] = "subscribe" /\ load' = [load EXCEPT ![l] = "done"]
        /\ UNCHANGED <<Feed!db, Feed!request, feed_list, reactions, feed_inbox, page, Feed!view, Feed!past>>
    BY <1>8 DEF Feed!ServeSubscribe
  <2>2. \A m : ComingOf(m)' <=> ComingOf(m)
    BY <2>1 DEF ComingOf, Settled, TellingOf
  <2>3. \A m \in Feed!Msgs \ raced : ~ComingOf(m)
    BY <2>1, LoadSettles DEF Feed!LoadOpen
  <2>4. \A k \in Feed!Msgs \ raced : Before(k)' => Before(k)
    BY <2>1, <2>2, <2>3 DEF Before, Feed!Ids
  <2>5. SamePages
    BY <2>1 DEF SamePages, FeedTypes, Feed!TypeOK
  <2>6. \A h \in FeedLoads : load'[h] = "insert" => Newest(page[h].rows)'
    <3>1. UNCHANGED <<rows, raced>>
      BY <2>1
    <3> QED
      BY <2>5, <3>1 DEF SamePages, NewestInv, Newest, Feed!Ids
  <2>7. \A k \in Feed!Msgs \ raced, m \in rows \ raced : k < m /\ Before(k)' => m \in Feed!Ids(feed_list) \/ ComingOf(m)'
    BY <1>0, <2>2, <2>4
  <2> QED
    BY <2>1, <2>6, <2>7 DEF NewestInv, Feed!Ids
<1>9. ASSUME NEW timeout \in BOOLEAN, Feed!Frame(timeout) PROVE NewestInv'
  <2>1. UNCHANGED <<Feed!db, Feed!request, feed_list, reactions, subscribed, feed_inbox, Feed!loads, Feed!scroll, Feed!past>>
    BY <1>9 DEF Feed!Frame
  <2>2. \A m : ComingOf(m)' <=> ComingOf(m)
    BY <2>1 DEF ComingOf, Settled, TellingOf
  <2> QED
    BY <2>1, <2>2, NewestStays DEF SamePages, Feed!Ids
<1>10. ASSUME NEW o \in Olders, Feed!StartOlder(o) \/ Feed!GetOlder(o) PROVE NewestInv'
  <2>1. /\ raced \subseteq raced'
        /\ UNCHANGED <<Feed!db, Feed!request, feed_list, reactions, subscribed, feed_inbox, Feed!loads, again, bare>>
    BY <1>10 DEF Feed!StartOlder, Feed!GetOlder
  <2>2. \A m : (ComingOf(m)' <=> ComingOf(m)) /\ (Before(m)' <=> Before(m))
    BY <2>1 DEF ComingOf, Settled, TellingOf, Before, Feed!Ids
  <2>3. \A h \in FeedLoads : load'[h] = "insert" => Newest(page[h].rows)'
    BY <2>1 DEF NewestInv, Newest, Feed!Ids
  <2> QED
    BY <1>0, <2>1, <2>2, <2>3 DEF NewestInv, Feed!Ids
<1>11. ASSUME NEW o \in Olders, Feed!ExtendOlder(o) PROVE NewestInv'
  <2>1. /\ older[o] = "extend" /\ feed_list' = feed_list \o olderPage[o]
        /\ bare' = bare \cup Feed!Ids(olderPage[o])
        /\ UNCHANGED <<Feed!db, Feed!request, reactions, subscribed, feed_inbox, Feed!loads, raced>>
    BY <1>11 DEF Feed!ExtendOlder
  <2>2. \A m \in Feed!Msgs \ raced : ~ComingOf(m) /\ ~ComingOf(m)'
    <3>1. \A m : ComingOf(m)' <=> ComingOf(m)
      BY <2>1 DEF ComingOf, Settled, TellingOf
    <3> QED
      BY <2>1, <3>1, LoadSettles DEF Feed!LoadOpen
  <2>3. olderPage[o] \in Seq(Feed!Entries)
    BY DEF FeedTypes, Feed!TypeOK
  <2>4. feed_list' \in Seq(Feed!Entries) /\ \A m : In(feed_list', m) = In(feed_list, m) \cup In(olderPage[o], m)
    BY <1>0, <2>1, <2>3, JoinedIs
  <2>5. \A m : /\ m \in Feed!Ids(feed_list') <=> In(feed_list', m) # {}
               /\ m \in Feed!Ids(feed_list) <=> In(feed_list, m) # {}
               /\ m \in Feed!Ids(olderPage[o]) <=> In(olderPage[o], m) # {}
    BY <1>0, <2>3, <2>4, InIs
  <2>6. \A k \in Feed!Msgs \ raced : Before(k)' => Before(k)
    BY <2>1, <2>2, <2>4, <2>5 DEF Before, Feed!Ids
  <2>7. \A k \in Feed!Msgs \ raced, m \in rows \ raced : k < m /\ Before(k)' => m \in Feed!Ids(feed_list')
    BY <1>0, <2>2, <2>4, <2>5, <2>6
  <2>8. \A h \in FeedLoads : load'[h] = "insert" => Newest(page[h].rows)'
    BY <2>1 DEF NewestInv, Newest, Feed!Ids
  <2> QED
    BY <2>1, <2>7, <2>8 DEF NewestInv, Feed!Ids
<1>12. ASSUME NEW r \in Requests, Feed!Untold(r) PROVE NewestInv'
  <2>1. /\ raced' = raced \cup {msg[r]}
        /\ \A K, m : m # msg[r] => TellingOf(K, m)' = TellingOf(K, m)
        /\ \A K, m : TellingOf(K, m)' \subseteq TellingOf(K, m)
        /\ UNCHANGED <<rows, feed_list, subscribed, feed_inbox, load, page, bare>>
    BY <1>12, UntoldIs
  <2>2. /\ \A m : ComingOf(m)' => ComingOf(m)
        /\ \A m : m # msg[r] => (ComingOf(m)' <=> ComingOf(m))
    BY <2>1 DEF ComingOf, Settled
  <2>3. \A k \in Feed!Msgs \ raced : Before(k)' => Before(k)
    BY <2>1, <2>2 DEF Before, Feed!Ids
  <2>4. \A k \in Feed!Msgs \ raced', m \in rows \ raced' : k < m /\ Before(k)' => m \in Feed!Ids(feed_list) \/ ComingOf(m)'
    BY <1>0, <2>1, <2>2, <2>3
  <2>5. ASSUME NEW h \in FeedLoads, load'[h] = "insert" PROVE Newest(page[h].rows)'
    <3>1. page' = page /\ Newest(page[h].rows) /\ rows' \ raced' \subseteq rows \ raced
      BY <2>1, <2>5 DEF NewestInv
    <3>2. Feed!Ids(page[h].rows)' = Feed!Ids(page[h].rows)
      BY <3>1 DEF Feed!Ids
    <3> QED
      BY <3>1, <3>2 DEF Newest
  <2> QED
    BY <2>1, <2>4, <2>5 DEF NewestInv, Feed!Ids
<1> QED
  BY <1>1, <1>2, <1>3, <1>4, <1>5, <1>6, <1>7, <1>8, <1>9, <1>10, <1>11,
     <1>12 DEF Feed!Next

-----------------------------------------------------------------------------
(* At the start nothing is shown, and nothing is on its way.               *)
LEMMA FeedInitially == FeedAssumption /\ Feed!Init => FeedInv
<1> SUFFICES ASSUME FeedAssumption, Feed!Init PROVE FeedInv
  OBVIOUS
<1>1. /\ MaxMsgs \in Nat /\ First \in 0..MaxMsgs
      /\ rows = 1..First /\ last = First /\ react = {} /\ pinned = {} /\ text = [m \in Feed!Msgs |-> 0]
      /\ feed_list = <<>> /\ reactions = {} /\ subscribed = FALSE /\ feed_inbox = <<>>
      /\ raced = {} /\ again = {} /\ bare = {}
      /\ \A r \in Requests : feed_pc[r] = "new" /\ msg[r] = 0
      /\ \A l \in FeedLoads : load[l] = "new" /\ page[l] = Feed!NoPage
      /\ \A o \in Olders : older[o] = "new" /\ olderPage[o] = <<>>
  BY DEF Feed!Init, FeedAssumption
<1>2. FeedTypes
  <2>1. 1..First \subseteq Feed!Msgs
    BY <1>1 DEF Feed!Msgs
  <2>2. page \in [FeedLoads -> [rows : Seq(Feed!Entries), reacted : SUBSET Feed!Msgs]]
    BY DEF Feed!Init, Feed!NoPage
  <2>3. olderPage \in [Olders -> Seq(Feed!Entries)]
    BY DEF Feed!Init
  <2>4. Feed!TypeOK
    <3>1. rows \subseteq Feed!Msgs /\ last \in 0..MaxMsgs /\ feed_list \in Seq(Feed!Entries)
      BY <1>1, <2>1
    <3>2. \A l \in FeedLoads : page[l].rows \in Seq(Feed!Entries) /\ page[l].reacted \subseteq Feed!Msgs
      BY <2>2
    <3>3. \A o \in Olders : olderPage[o] \in Seq(Feed!Entries)
      BY <2>3
    <3>4. /\ msg \in [Requests -> 0..MaxMsgs] /\ from \in [Olders -> 0..MaxMsgs]
          /\ data \in [Requests -> Feed!Entries \cup {Feed!NoRow}]
      BY <1>1 DEF Feed!Init
    <3>5. /\ feed_pc \in [Requests -> {"new", "tell", "local", "done"}]
          /\ feed_kind \in [Requests -> Feed!Kinds \cup {"none"}]
          /\ load \in [FeedLoads -> {"new", "insert", "subscribe", "done"}]
          /\ older \in [Olders -> {"new", "get", "extend", "done"}]
      BY DEF Feed!Init
    <3>6. /\ text \in [Feed!Msgs -> Nat] /\ pinned \subseteq Feed!Msgs /\ react \subseteq Feed!Msgs
          /\ reactions \subseteq Feed!Msgs /\ subscribed \in BOOLEAN
          /\ loading \in BOOLEAN /\ reached_end \in BOOLEAN /\ last_count \in Nat
          /\ raced \subseteq Feed!Msgs /\ again \subseteq bare /\ bare \subseteq Feed!Msgs
      BY DEF Feed!Init
    <3> QED
      BY <3>1, <3>2, <3>3, <3>4, <3>5, <3>6 DEF Feed!TypeOK
  <2> QED
    BY <1>1, <2>2, <2>3, <2>4 DEF FeedTypes
<1>3. /\ \A m : In(feed_list, m) = {} /\ Once(feed_list, m)
      /\ \A K, m : Of(feed_inbox, K, m) = {} /\ TellingOf(K, m) = {} /\ Settled(K, m)
      /\ \A m : ~ComingOf(m)
      /\ Feed!Ids(feed_list) = {} /\ Feed!OnTheWay = {} /\ Feed!Underway = {} /\ ~Feed!LoadOpen
  BY <1>1 DEF In, Once, Of, TellingOf, Settled, ComingOf, Feed!Ids, Feed!OnTheWay, Feed!Underway, Feed!LoadOpen
<1>4. IdsInv
  <2>1. \A l \in FeedLoads : Feed!Ids(page[l].rows) = {} /\ page[l].reacted = {}
    BY <1>1 DEF Feed!NoPage, Feed!Ids
  <2>2. \A o \in Olders : Feed!Ids(olderPage[o]) = {}
    BY <1>1 DEF Feed!Ids
  <2> QED
    BY <1>1, <1>3, <2>1, <2>2 DEF IdsInv
<1>5. LoadInv /\ SubscribedInv /\ SoleInv
  BY <1>1, <1>3 DEF LoadInv, SubscribedInv, SoleInv
<1>6. MessagesInv
  <2> SUFFICES ASSUME NEW m \in Feed!Msgs PROVE OfMessage(m)
    BY <1>1 DEF MessagesInv
  <2>1. SaysOf(m) /\ Pages(m) /\ Shows(m) /\ Reacts(m) /\ Comes(m)
    BY <1>1, <1>3 DEF SaysOf, SaysTrue, Pages, Shows, Reacts, Comes, CreatedFirst
  <2> QED
    BY <2>1 DEF OfMessage
<1>7. NewestInv
  BY <1>1, <1>3 DEF NewestInv, Before
<1> QED
  BY <1>2, <1>4, <1>5, <1>6, <1>7 DEF FeedInv

(* Every step keeps all of it.                                             *)
LEMMA FeedStep == FeedInv /\ [Feed!Next]_(Feed!vars) => FeedInv'
<1> SUFFICES ASSUME FeedInv, [Feed!Next]_(Feed!vars) PROVE FeedInv'
  OBVIOUS
<1>1. /\ FeedAssumption /\ FeedTypes /\ IdsInv /\ LoadInv /\ SubscribedInv /\ SoleInv
      /\ MessagesInv /\ NewestInv
  BY DEF FeedInv
<1>2. FeedAssumption'
  BY <1>1 DEF FeedAssumption
<1>3. FeedTypes' /\ IdsInv' /\ LoadInv' /\ SubscribedInv' /\ SoleInv'
  BY <1>1, FeedTypeStep, IdsStep, LoadStep, SubscribedStep, SoleStep
<1>4. MessagesInv'
  BY <1>1, MessagesStep
<1>5. NewestInv'
  BY <1>1, <1>3, NewestStep
<1> QED
  BY <1>2, <1>3, <1>4, <1>5 DEF FeedInv

(* What is asked of the list follows from it.                              *)
LEMMA FeedGives == FeedInv => Feed!TypeOK /\ Feed!FeedAgrees /\ Feed!FeedOnce
<1> SUFFICES ASSUME FeedInv PROVE Feed!TypeOK /\ Feed!FeedAgrees /\ Feed!FeedOnce
  OBVIOUS
<1>1. FeedTypes /\ MessagesInv /\ NewestInv
  BY DEF FeedInv
<1>2. Feed!TypeOK /\ feed_list \in Seq(Feed!Entries) /\ again \subseteq bare /\ rows \subseteq Feed!Msgs
  BY <1>1 DEF FeedTypes, Feed!TypeOK
<1>3. \A m : /\ Feed!Shown(m) = In(feed_list, m)
             /\ Feed!Where(m) = {} <=> In(feed_list, m) = {}
             /\ m \in Feed!Ids(feed_list) <=> In(feed_list, m) # {}
  BY <1>2, InIs DEF Feed!Shown, Feed!Where, In
<1>4. Feed!FeedOnce
  <2> SUFFICES ASSUME NEW m \in Feed!Msgs \ (raced \cup again) PROVE Once(feed_list, m)
    BY DEF Feed!FeedOnce, Once, Feed!Where
  <2> QED
    BY <1>1 DEF MessagesInv, OfMessage, Shows
<1>5. ASSUME Feed!Quiet, NEW m \in Feed!Msgs \ raced
      PROVE  /\ m \notin again => Feed!Shown(m) \subseteq {Feed!Row(k) : k \in rows}
             /\ Feed!Where(m) # {} /\ m \notin bare => (m \in reactions <=> m \in react)
             /\ m \in rows /\ (\E k \in 1..(m - 1) \ (raced \cup bare) : Feed!Where(k) # {})
                   => Feed!Where(m) # {}
  <2>1. \A K, k : Settled(K, k)
    BY <1>5 DEF Feed!Quiet, Settled, TellingOf, Of
  <2>2. \A k : ~ComingOf(k)
    BY <2>1 DEF ComingOf
  <2>3. OfMessage(m)
    BY <1>1 DEF MessagesInv
  <2>4. ASSUME m \notin again, NEW e \in In(feed_list, m) PROVE m \in rows /\ e = Feed!Row(m)
    <3>1. m \in rows /\ e.text = text[m] /\ (e.pinned <=> m \in pinned)
      BY <2>1, <2>3, <2>4 DEF OfMessage, Shows
    <3>2. e \in Feed!Entries /\ e.id = m
      BY <1>2, InIs
    <3> QED
      BY <3>1, <3>2 DEF Feed!Entries, Feed!Row
  <2>5. m \notin again => Feed!Shown(m) \subseteq {Feed!Row(k) : k \in rows}
    BY <1>3, <2>4
  <2>6. ASSUME Feed!Where(m) # {}, m \notin bare PROVE m \in reactions <=> m \in react
    <3>1. In(feed_list, m) # {} /\ m \in rows
      BY <1>2, <1>3, <2>4, <2>6
    <3> QED
      BY <2>1, <2>3, <2>6, <3>1 DEF OfMessage, Reacts
  <2>7. ASSUME m \in rows, NEW k \in 1..(m - 1) \ (raced \cup bare), Feed!Where(k) # {}
        PROVE  Feed!Where(m) # {}
    <3>1. k \in Feed!Msgs \ raced /\ k < m
      <4>1. MaxMsgs \in Nat /\ m \in 1..MaxMsgs
        BY DEF FeedInv, FeedAssumption, Feed!Msgs
      <4> QED
        BY <4>1 DEF Feed!Msgs
    <3>2. k \in Feed!Ids(feed_list) /\ k \notin bare
      BY <1>3, <2>7
    <3>3. m \in Feed!Ids(feed_list)
      BY <1>1, <2>2, <2>7, <3>1, <3>2 DEF NewestInv, Before
    <3> QED
      BY <1>3, <3>3
  <2> QED
    BY <2>5, <2>6, <2>7
<1> QED
  BY <1>2, <1>4, <1>5 DEF Feed!FeedAgrees

(* For any number of messages, requests, loads and older pages, and        *)
(* requests that end before they are announced: a settled client shows     *)
(* each message nobody raced about as it is stored, the newer ones without *)
(* a gap, and each of them once.                                           *)
THEOREM FeedSound ==
    ASSUME FeedAssumption
    PROVE  Feed!Spec => [](Feed!TypeOK /\ Feed!FeedAgrees /\ Feed!FeedOnce)
<1>1. Feed!Init => FeedInv
  BY FeedInitially
<1>2. FeedInv /\ [Feed!Next]_(Feed!vars) => FeedInv'
  BY FeedStep
<1>3. FeedInv => Feed!TypeOK /\ Feed!FeedAgrees /\ Feed!FeedOnce
  BY FeedGives
<1> QED
  BY <1>1, <1>2, <1>3, PTL DEF Feed!Spec
=============================================================================
