------------------------- MODULE ConnectionsProofs -------------------------
(***************************************************************************)
(* Proofs about Connections, for any number of users, connections, topics  *)
(* and broadcasts.                                                         *)
(***************************************************************************)
EXTENDS Connections, TLAPS

(* The actions of Next, one by one: what every step proof below is split   *)
(* into.                                                                   *)
LEMMA NextCases ==
    ASSUME Next
    PROVE  \/ \E c \in Conns, u \in Users : Authenticate(c, u)
           \/ \E c \in Conns : AddSender(c) \/ AddInfo(c) \/ AddUser(c) \/ SetOnline(c)
           \/ \E c \in Conns, t \in Topics : SubscribeInfo(c, t) \/ UnsubscribeInfo(c, t)
           \/ \E c \in Conns : SubscribeIndex(c) \/ SubscribeAck(c) \/ UnsubscribeIndex(c)
           \/ \E c \in Conns, m \in Msgs, x \in Dests : Relay(c, m, x)
           \/ \E m \in Msgs, x \in Dests : LockIndex(m, x)
           \/ \E m \in Msgs : LockSenders(m) \/ Unlock(m)
           \/ \E m \in Msgs, c \in Conns : Send(m, c)
           \/ \E c \in Conns : RemoveInfo(c) \/ RemoveUser(c) \/ RemoveSender(c)
           \/ \E c \in Conns, t \in Topics : RemoveTopic(c, t)
           \/ \E c \in Conns : CheckOnline(c) \/ SetOffline(c) \/ LeaveVoice(c)
           \/ \E u \in Users : JoinVoice(u)
           \/ Restart
  BY VoiceUsersAssumption, Zenon DEF Next, TaskStep, ClientStep, CastStep

(* What the labels of a task say about its other variables.                *)
TaskInv ==
    \A c \in Conns :
        /\ pc[c] # "new" => owner[c] \in Users
        /\ pc[c] = "subIndex" => arg[c] \in Topics /\ arg[c] \in subscribed[c]
        /\ pc[c] = "subAck" => arg[c] \in Channels /\ arg[c] \in subscribed[c]
        /\ pc[c] = "unsubIndex" =>
              /\ arg[c] \in Topics
              /\ arg[c] \notin subscribed[c]
              /\ arg[c] \notin acked[c]
        /\ acked[c] # {} => pc[c] \in Serving

(* The inductive invariant behind IndexesAgree and AckHonoured.            *)
IndexInv == TypeOK /\ TaskInv /\ IndexesAgree /\ AckHonoured

(* The server starts with empty maps and no task.                          *)
LEMMA IndexInvInit == Init => IndexInv
  BY MaxFaultsAssumption, IdsAssumption
  DEF Init, IndexInv, TypeOK, TaskInv, IndexesAgree, AckHonoured, HasSender, HasInfo,
      IsCounted, InFlight, Labels, Starting, Serving, Leaving, Topics, Dests

(* One status update keeps the types, whether the statement fails or not.  *)
LEMMA UpdateStatusType ==
    ASSUME TypeOK, NEW u \in Users, NEW s \in {"online", "offline"}, UpdateStatus(u, s)
    PROVE  /\ status' \in [Users -> {"online", "offline"}]
           /\ lost' \subseteq Users
           /\ faults' \in 0 .. MaxFaults
<1>1. status' \in [Users -> {"online", "offline"}] /\ lost' \subseteq Users
  BY DEF TypeOK, UpdateStatus
<1>2. faults' \in 0 .. MaxFaults
  BY MaxFaultsAssumption DEF TypeOK, UpdateStatus
<1> QED
  BY <1>1, <1>2

(* Every action keeps every variable in its type.                          *)
LEMMA TypeStep == ASSUME IndexInv, Next PROVE TypeOK'
<1> USE IdsAssumption, MaxFaultsAssumption
    DEF IndexInv, TypeOK, TaskInv, manager, db, task, cast, Goto,
        Topics, Dests, Labels, Starting, Serving, Leaving
<1>1. ASSUME NEW c \in Conns, NEW u \in Users, Authenticate(c, u) PROVE TypeOK'
  BY <1>1 DEF Authenticate
<1>2. ASSUME NEW c \in Conns, AddSender(c) PROVE TypeOK'
  BY <1>2 DEF AddSender
<1>3. ASSUME NEW c \in Conns, AddInfo(c) PROVE TypeOK'
  BY <1>3 DEF AddInfo
<1>4. ASSUME NEW c \in Conns, AddUser(c) PROVE TypeOK'
  BY <1>4 DEF AddUser
<1>5. ASSUME NEW c \in Conns, SetOnline(c) PROVE TypeOK'
  BY <1>5, UpdateStatusType DEF SetOnline
<1>6. ASSUME NEW c \in Conns, NEW t \in Topics, SubscribeInfo(c, t) PROVE TypeOK'
  BY <1>6 DEF SubscribeInfo
<1>7. ASSUME NEW c \in Conns, NEW t \in Topics, UnsubscribeInfo(c, t) PROVE TypeOK'
  BY <1>7 DEF UnsubscribeInfo
<1>8. ASSUME NEW c \in Conns, SubscribeIndex(c) PROVE TypeOK'
  BY <1>8 DEF SubscribeIndex, Indexed, AfterSubscribe
<1>9. ASSUME NEW c \in Conns, SubscribeAck(c) PROVE TypeOK'
  BY <1>9 DEF SubscribeAck
<1>10. ASSUME NEW c \in Conns, UnsubscribeIndex(c) PROVE TypeOK'
  BY <1>10 DEF UnsubscribeIndex
<1>11. ASSUME NEW c \in Conns, NEW m \in Msgs, NEW x \in Dests, Relay(c, m, x) PROVE TypeOK'
  BY <1>11 DEF Relay
<1>12. ASSUME NEW m \in Msgs, NEW x \in Dests, LockIndex(m, x) PROVE TypeOK'
  BY <1>12 DEF LockIndex
<1>13. ASSUME NEW m \in Msgs, LockSenders(m) PROVE TypeOK'
  BY <1>13 DEF LockSenders, Audience
<1>14. ASSUME NEW m \in Msgs, NEW c \in Conns, Send(m, c) PROVE TypeOK'
  BY <1>14 DEF Send
<1>15. ASSUME NEW m \in Msgs, Unlock(m) PROVE TypeOK'
  BY <1>15 DEF Unlock
<1>16. ASSUME NEW c \in Conns, RemoveInfo(c) PROVE TypeOK'
  BY <1>16 DEF RemoveInfo
<1>17. ASSUME NEW c \in Conns, RemoveUser(c) PROVE TypeOK'
  BY <1>17 DEF RemoveUser
<1>18. ASSUME NEW c \in Conns, NEW t \in Topics, RemoveTopic(c, t) PROVE TypeOK'
  BY <1>18 DEF RemoveTopic
<1>19. ASSUME NEW c \in Conns, RemoveSender(c) PROVE TypeOK'
  BY <1>19 DEF RemoveSender, LoopsOver
<1>20. ASSUME NEW c \in Conns, CheckOnline(c) PROVE TypeOK'
  BY <1>20 DEF CheckOnline, AfterCheck
<1>21. ASSUME NEW c \in Conns, SetOffline(c) PROVE TypeOK'
  BY <1>21, UpdateStatusType DEF SetOffline
<1>22. ASSUME NEW c \in Conns, LeaveVoice(c) PROVE TypeOK'
  BY <1>22 DEF LeaveVoice
<1>23. ASSUME NEW u \in Users, JoinVoice(u) PROVE TypeOK'
  BY <1>23 DEF JoinVoice
<1>24. ASSUME Restart PROVE TypeOK'
  BY <1>24 DEF Restart
<1> QED
  BY NextCases, <1>1, <1>2, <1>3, <1>4, <1>5, <1>6, <1>7, <1>8, <1>9, <1>10, <1>11, <1>12,
     <1>13, <1>14, <1>15, <1>16, <1>17, <1>18, <1>19, <1>20, <1>21, <1>22, <1>23, <1>24

(* Every action keeps the five maps and the tasks' labels in agreement.    *)
LEMMA IndexStep ==
    ASSUME IndexInv, Next
    PROVE  TaskInv' /\ IndexesAgree' /\ AckHonoured'
<1> DEFINE Goal == TaskInv /\ IndexesAgree /\ AckHonoured
<1> USE IdsAssumption
    DEF IndexInv, TypeOK, TaskInv, IndexesAgree, AckHonoured, HasSender, HasInfo,
        IsCounted, InFlight, manager, db, task, cast, Goto, Topics, Dests, Serving
<1>1. ASSUME NEW c \in Conns, NEW u \in Users, Authenticate(c, u) PROVE Goal'
  BY <1>1 DEF Authenticate
<1>2. ASSUME NEW c \in Conns, AddSender(c) PROVE Goal'
  BY <1>2 DEF AddSender
<1>3. ASSUME NEW c \in Conns, AddInfo(c) PROVE Goal'
  BY <1>3 DEF AddInfo
<1>4. ASSUME NEW c \in Conns, AddUser(c) PROVE Goal'
  BY <1>4 DEF AddUser
<1>5. ASSUME NEW c \in Conns, SetOnline(c) PROVE Goal'
  BY <1>5 DEF SetOnline
<1>6. ASSUME NEW c \in Conns, NEW t \in Topics, SubscribeInfo(c, t) PROVE Goal'
  BY <1>6 DEF SubscribeInfo
<1>7. ASSUME NEW c \in Conns, NEW t \in Topics, UnsubscribeInfo(c, t) PROVE Goal'
  BY <1>7 DEF UnsubscribeInfo
<1>8. ASSUME NEW c \in Conns, SubscribeIndex(c) PROVE Goal'
  BY <1>8 DEF SubscribeIndex, Indexed, AfterSubscribe
<1>9. ASSUME NEW c \in Conns, SubscribeAck(c) PROVE Goal'
  BY <1>9 DEF SubscribeAck
<1>10. ASSUME NEW c \in Conns, UnsubscribeIndex(c) PROVE Goal'
  BY <1>10 DEF UnsubscribeIndex
<1>11. ASSUME NEW c \in Conns, NEW m \in Msgs, NEW x \in Dests, Relay(c, m, x) PROVE Goal'
  BY <1>11 DEF Relay
<1>12. ASSUME NEW m \in Msgs, NEW x \in Dests, LockIndex(m, x) PROVE Goal'
  BY <1>12 DEF LockIndex
<1>13. ASSUME NEW m \in Msgs, LockSenders(m) PROVE Goal'
  BY <1>13 DEF LockSenders, Audience
<1>14. ASSUME NEW m \in Msgs, NEW c \in Conns, Send(m, c) PROVE Goal'
  BY <1>14 DEF Send
<1>15. ASSUME NEW m \in Msgs, Unlock(m) PROVE Goal'
  BY <1>15 DEF Unlock
<1>16. ASSUME NEW c \in Conns, RemoveInfo(c) PROVE Goal'
  BY <1>16 DEF RemoveInfo
<1>17. ASSUME NEW c \in Conns, RemoveUser(c) PROVE Goal'
  BY <1>17 DEF RemoveUser
<1>18. ASSUME NEW c \in Conns, NEW t \in Topics, RemoveTopic(c, t) PROVE Goal'
  <2>1. TaskInv' /\ AckHonoured'
    BY <1>18 DEF RemoveTopic
  <2>2. /\ subscribers' = [subscribers EXCEPT ![t] = @ \ {c}]
        /\ subscribed' = [subscribed EXCEPT ![c] = @ \ {t}]
        /\ UNCHANGED <<senders, connection_info, user_connections, pc, arg, owner>>
        /\ pc[c] = "dropTopics"
    BY <1>18 DEF RemoveTopic
  <2>3. IndexesAgree'
    BY <2>2
  <2> QED
    BY <2>1, <2>3
<1>19. ASSUME NEW c \in Conns, RemoveSender(c) PROVE Goal'
  BY <1>19 DEF RemoveSender, LoopsOver
<1>20. ASSUME NEW c \in Conns, CheckOnline(c) PROVE Goal'
  BY <1>20 DEF CheckOnline, AfterCheck
<1>21. ASSUME NEW c \in Conns, SetOffline(c) PROVE Goal'
  BY <1>21 DEF SetOffline
<1>22. ASSUME NEW c \in Conns, LeaveVoice(c) PROVE Goal'
  BY <1>22 DEF LeaveVoice
<1>23. ASSUME NEW u \in Users, JoinVoice(u) PROVE Goal'
  BY <1>23 DEF JoinVoice
<1>24. ASSUME Restart PROVE Goal'
  BY <1>24 DEF Restart
<1> QED
  BY NextCases, <1>1, <1>2, <1>3, <1>4, <1>5, <1>6, <1>7, <1>8, <1>9, <1>10, <1>11, <1>12,
     <1>13, <1>14, <1>15, <1>16, <1>17, <1>18, <1>19, <1>20, <1>21, <1>22, <1>23, <1>24

(* Type correctness and IndexesAgree and AckHonoured, in one induction.    *)
THEOREM IndexInvariance == Spec => []IndexInv
<1>1. IndexInv /\ [Next]_vars => IndexInv'
  <2> SUFFICES ASSUME IndexInv, [Next]_vars PROVE IndexInv'
    OBVIOUS
  <2>1. CASE Next
    BY <2>1, TypeStep, IndexStep DEF IndexInv
  <2>2. CASE UNCHANGED vars
    BY <2>2 DEF vars, manager, db, task, cast, IndexInv, TypeOK, TaskInv, IndexesAgree,
        AckHonoured, HasSender, HasInfo, IsCounted, InFlight
  <2> QED
    BY <2>1, <2>2
<1> QED
  BY IndexInvInit, <1>1, PTL DEF Spec

(* TypeOK: every variable stays in its type.                               *)
THEOREM TypeCorrect == Spec => []TypeOK
<1>1. IndexInv => TypeOK
  BY DEF IndexInv
<1> QED
  BY IndexInvariance, <1>1, PTL

(* IndexesAgree: the five maps agree about every connection but for the    *)
(* one write its task has in flight (add_connection, remove_connection,    *)
(* the subscribe and unsubscribe functions).                               *)
THEOREM IndexesAlwaysAgree == Spec => []IndexesAgree
<1>1. IndexInv => IndexesAgree
  BY DEF IndexInv
<1> QED
  BY IndexInvariance, <1>1, PTL

(* AckHonoured: a client that was sent ChannelSubscribed is in the index   *)
(* of the channel, and reachable, until it leaves.                         *)
THEOREM AckAlwaysHonoured == Spec => []AckHonoured
<1>1. IndexInv => AckHonoured
  BY DEF IndexInv
<1> QED
  BY IndexInvariance, <1>1, PTL

-----------------------------------------------------------------------------
(* Somebody answers for every user that is shown online: a task that will  *)
(* still write the status, or still check whether it must.                 *)
Answers(c, u) ==
    /\ owner[c] = u
    /\ pc[c] \in Serving \cup {"setOnline", "dropUser", "dropTopics", "checkOnline", "setOffline"}
PresenceInv ==
    \A u \in Users : status[u] = "online" /\ u \notin lost => \E c \in Conns : Answers(c, u)

(* Whoever answers for an online user goes on doing so, unless it finds    *)
(* another connection of the user that does.                               *)
LEMMA AnswersStep ==
    ASSUME IndexInv, Next, NEW u \in Users, NEW a \in Conns, Answers(a, u),
           status'[u] = "online", u \notin lost'
    PROVE  \E b \in Conns : Answers(b, u)'
<1> DEFINE Goal == \E b \in Conns : Answers(b, u)
<1> USE IdsAssumption
    DEF IndexInv, TypeOK, TaskInv, Answers, manager, db, task, cast, Goto, Serving
<1>1. ASSUME NEW c \in Conns, NEW v \in Users, Authenticate(c, v) PROVE Goal'
  BY <1>1 DEF Authenticate
<1>2. ASSUME NEW c \in Conns, AddSender(c) PROVE Goal'
  BY <1>2 DEF AddSender
<1>3. ASSUME NEW c \in Conns, AddInfo(c) PROVE Goal'
  BY <1>3 DEF AddInfo
<1>4. ASSUME NEW c \in Conns, AddUser(c) PROVE Goal'
  BY <1>4 DEF AddUser
<1>5. ASSUME NEW c \in Conns, SetOnline(c) PROVE Goal'
  BY <1>5 DEF SetOnline, UpdateStatus
<1>6. ASSUME NEW c \in Conns, NEW t \in Topics, SubscribeInfo(c, t) PROVE Goal'
  BY <1>6 DEF SubscribeInfo
<1>7. ASSUME NEW c \in Conns, NEW t \in Topics, UnsubscribeInfo(c, t) PROVE Goal'
  BY <1>7 DEF UnsubscribeInfo
<1>8. ASSUME NEW c \in Conns, SubscribeIndex(c) PROVE Goal'
  BY <1>8 DEF SubscribeIndex, Indexed, AfterSubscribe
<1>9. ASSUME NEW c \in Conns, SubscribeAck(c) PROVE Goal'
  BY <1>9 DEF SubscribeAck
<1>10. ASSUME NEW c \in Conns, UnsubscribeIndex(c) PROVE Goal'
  BY <1>10 DEF UnsubscribeIndex
<1>11. ASSUME NEW c \in Conns, NEW m \in Msgs, NEW x \in Dests, Relay(c, m, x) PROVE Goal'
  BY <1>11 DEF Relay
<1>12. ASSUME NEW m \in Msgs, NEW x \in Dests, LockIndex(m, x) PROVE Goal'
  BY <1>12 DEF LockIndex
<1>13. ASSUME NEW m \in Msgs, LockSenders(m) PROVE Goal'
  BY <1>13 DEF LockSenders, Audience
<1>14. ASSUME NEW m \in Msgs, NEW c \in Conns, Send(m, c) PROVE Goal'
  BY <1>14 DEF Send
<1>15. ASSUME NEW m \in Msgs, Unlock(m) PROVE Goal'
  BY <1>15 DEF Unlock
<1>16. ASSUME NEW c \in Conns, RemoveInfo(c) PROVE Goal'
  BY <1>16 DEF RemoveInfo
<1>17. ASSUME NEW c \in Conns, RemoveUser(c) PROVE Goal'
  BY <1>17 DEF RemoveUser
<1>18. ASSUME NEW c \in Conns, NEW t \in Topics, RemoveTopic(c, t) PROVE Goal'
  BY <1>18 DEF RemoveTopic
<1>19. ASSUME NEW c \in Conns, RemoveSender(c) PROVE Goal'
  BY <1>19 DEF RemoveSender, LoopsOver
<1>20. ASSUME NEW c \in Conns, CheckOnline(c) PROVE Goal'
  <2>1. CASE c # a \/ ~is_user_online(u)
    BY <1>20, <2>1 DEF CheckOnline, AfterCheck
  <2>2. CASE c = a /\ is_user_online(u)
    <3>1. PICK b \in Conns : b \in user_connections[u]
      BY <2>2 DEF is_user_online
    <3>2. b # c /\ Answers(b, u)
      BY <1>20, <3>1 DEF CheckOnline, IndexesAgree, IsCounted
    <3>3. Answers(b, u)'
      BY <1>20, <3>2 DEF CheckOnline
    <3> QED
      BY <3>3
  <2> QED
    BY <2>1, <2>2
<1>21. ASSUME NEW c \in Conns, SetOffline(c) PROVE Goal'
  BY <1>21 DEF SetOffline, UpdateStatus
<1>22. ASSUME NEW c \in Conns, LeaveVoice(c) PROVE Goal'
  BY <1>22 DEF LeaveVoice
<1>23. ASSUME NEW v \in Users, JoinVoice(v) PROVE Goal'
  BY <1>23 DEF JoinVoice
<1>24. ASSUME Restart PROVE Goal'
  BY <1>24 DEF Restart
<1> QED
  BY NextCases, <1>1, <1>2, <1>3, <1>4, <1>5, <1>6, <1>7, <1>8, <1>9, <1>10, <1>11, <1>12,
     <1>13, <1>14, <1>15, <1>16, <1>17, <1>18, <1>19, <1>20, <1>21, <1>22, <1>23, <1>24

(* Who writes users.status.                                                *)
LEMMA StatusWriters ==
    ASSUME Next
    PROVE  \/ \E c \in Conns : SetOnline(c) \/ SetOffline(c)
           \/ Restart
           \/ UNCHANGED <<status, lost>>
  BY NextCases
  DEF db, Authenticate, AddSender, AddInfo, AddUser, SubscribeInfo, UnsubscribeInfo,
      SubscribeIndex, SubscribeAck, UnsubscribeIndex, Relay, LockIndex, LockSenders,
      Send, Unlock, RemoveInfo, RemoveUser, RemoveTopic, RemoveSender, CheckOnline,
      LeaveVoice, JoinVoice

(* Every action leaves an online user somebody who answers for it.         *)
LEMMA PresenceStep == ASSUME IndexInv, PresenceInv, Next PROVE PresenceInv'
<1> SUFFICES ASSUME NEW u \in Users, status'[u] = "online", u \notin lost'
             PROVE  \E b \in Conns : Answers(b, u)'
  BY DEF PresenceInv
<1>1. CASE status[u] = "online" /\ u \notin lost
  <2>1. PICK a \in Conns : Answers(a, u)
    BY <1>1 DEF PresenceInv
  <2> QED
    BY <2>1, AnswersStep
<1>2. CASE ~(status[u] = "online" /\ u \notin lost)
  <2>1. PICK c \in Conns : SetOnline(c) \/ SetOffline(c)
    BY <1>2, StatusWriters DEF Restart
  <2>2. SetOnline(c) /\ owner[c] = u
    BY <1>2, <2>1
    DEF SetOnline, SetOffline, UpdateStatus, IndexInv, TypeOK, TaskInv, Goto
  <2>3. Answers(c, u)'
    BY <2>2 DEF SetOnline, Answers, Serving, Goto, IndexInv, TypeOK
  <2> QED
    BY <2>3
<1> QED
  BY <1>1, <1>2

(* OfflineWhenGone: a user whose tasks have all settled, none serving, has *)
(* nobody to answer for an online status.                                  *)
THEOREM NoGhosts == Spec => []OfflineWhenGone
<1>1. Init => PresenceInv
  BY DEF Init, PresenceInv
<1>2. IndexInv /\ PresenceInv /\ [Next]_vars => PresenceInv'
  <2> SUFFICES ASSUME IndexInv, PresenceInv, [Next]_vars PROVE PresenceInv'
    OBVIOUS
  <2>1. CASE UNCHANGED vars
    BY <2>1 DEF vars, db, task, PresenceInv, Answers
  <2> QED
    BY <2>1, PresenceStep
<1>3. IndexInv /\ PresenceInv => OfflineWhenGone
  <2> SUFFICES ASSUME IndexInv, PresenceInv, NEW u \in Users,
                      Settled(u), ~Connected(u), u \notin lost
               PROVE  status[u] = "offline"
    BY DEF OfflineWhenGone
  <2>1. \A c \in Conns : ~Answers(c, u)
    BY DEF Settled, Connected, Answers, Serving
  <2> QED
    BY <2>1 DEF IndexInv, TypeOK, PresenceInv
<1> QED
  BY IndexInvariance, <1>1, <1>2, <1>3, PTL DEF Spec

-----------------------------------------------------------------------------
(* Broadcasts: only one that is sending owes anything, it owes it to       *)
(* connections that exist, a message for a user to the user's own, and a   *)
(* message that was sent belongs to a broadcast that got as far.           *)
CastInv ==
    /\ \A m \in Msgs :
          /\ phase[m] # "idle" => dest[m] \in Dests
          /\ pending[m] # {} => phase[m] = "sending"
          /\ \A c \in pending[m] :
                pc[c] # "new" /\ (dest[m] \in Users => owner[c] = dest[m])
    /\ \A c \in Conns : \A i \in DOMAIN outbox[c] :
          /\ phase[outbox[c][i]] \in {"sending", "done"}
          /\ pc[c] # "new"
          /\ dest[outbox[c][i]] \in Users => owner[c] = dest[outbox[c][i]]

(* Every action keeps what is known of broadcasts and outboxes.            *)
LEMMA CastStepInv == ASSUME IndexInv, CastInv, Next PROVE CastInv'
<1> USE DEF IndexInv, TypeOK, CastInv, manager, db, task, cast, Goto
<1>1. ASSUME NEW c \in Conns, NEW u \in Users, Authenticate(c, u) PROVE CastInv'
  BY <1>1 DEF Authenticate
<1>2. ASSUME NEW c \in Conns, AddSender(c) PROVE CastInv'
  BY <1>2 DEF AddSender
<1>3. ASSUME NEW c \in Conns, AddInfo(c) PROVE CastInv'
  BY <1>3 DEF AddInfo
<1>4. ASSUME NEW c \in Conns, AddUser(c) PROVE CastInv'
  BY <1>4 DEF AddUser
<1>5. ASSUME NEW c \in Conns, SetOnline(c) PROVE CastInv'
  BY <1>5 DEF SetOnline
<1>6. ASSUME NEW c \in Conns, NEW t \in Topics, SubscribeInfo(c, t) PROVE CastInv'
  BY <1>6 DEF SubscribeInfo
<1>7. ASSUME NEW c \in Conns, NEW t \in Topics, UnsubscribeInfo(c, t) PROVE CastInv'
  BY <1>7 DEF UnsubscribeInfo
<1>8. ASSUME NEW c \in Conns, SubscribeIndex(c) PROVE CastInv'
  BY <1>8 DEF SubscribeIndex, Indexed, AfterSubscribe
<1>9. ASSUME NEW c \in Conns, SubscribeAck(c) PROVE CastInv'
  BY <1>9 DEF SubscribeAck
<1>10. ASSUME NEW c \in Conns, UnsubscribeIndex(c) PROVE CastInv'
  BY <1>10 DEF UnsubscribeIndex
<1>11. ASSUME NEW c \in Conns, NEW m \in Msgs, NEW x \in Dests, Relay(c, m, x) PROVE CastInv'
  BY <1>11 DEF Relay
<1>12. ASSUME NEW m \in Msgs, NEW x \in Dests, LockIndex(m, x) PROVE CastInv'
  BY <1>12 DEF LockIndex
<1>13. ASSUME NEW m \in Msgs, LockSenders(m) PROVE CastInv'
  <2>1. phase[m] = "index" /\ dest[m] \in Dests
    BY <1>13 DEF LockSenders
  <2>2. ASSUME NEW c \in Audience(dest[m]) \cap senders
        PROVE  pc[c] # "new" /\ (dest[m] \in Users => owner[c] = dest[m])
    <3>1. c \in Conns /\ c \in senders /\ IndexesAgree
      BY <2>2
    <3>2. pc[c] # "new"
      BY <3>1 DEF IndexesAgree, HasSender, Serving
    <3>3. ASSUME dest[m] \in Users PROVE owner[c] = dest[m]
      BY <2>2, <3>1, <3>3 DEF IndexesAgree, Audience
    <3> QED
      BY <3>2, <3>3
  <2>3. Audience(dest[m]) \cap senders \in SUBSET Conns
    OBVIOUS
  <2>4. pending' = [pending EXCEPT ![m] = Audience(dest[m]) \cap senders]
    BY <1>13 DEF LockSenders
  <2> QED
    BY <1>13, <2>2, <2>3, <2>4 DEF LockSenders
<1>14. ASSUME NEW m \in Msgs, NEW c \in Conns, Send(m, c) PROVE CastInv'
  BY <1>14 DEF Send
<1>15. ASSUME NEW m \in Msgs, Unlock(m) PROVE CastInv'
  BY <1>15 DEF Unlock, AllSent
<1>16. ASSUME NEW c \in Conns, RemoveInfo(c) PROVE CastInv'
  BY <1>16 DEF RemoveInfo
<1>17. ASSUME NEW c \in Conns, RemoveUser(c) PROVE CastInv'
  BY <1>17 DEF RemoveUser
<1>18. ASSUME NEW c \in Conns, NEW t \in Topics, RemoveTopic(c, t) PROVE CastInv'
  BY <1>18 DEF RemoveTopic
<1>19. ASSUME NEW c \in Conns, RemoveSender(c) PROVE CastInv'
  BY <1>19 DEF RemoveSender, LoopsOver
<1>20. ASSUME NEW c \in Conns, CheckOnline(c) PROVE CastInv'
  BY <1>20 DEF CheckOnline, AfterCheck
<1>21. ASSUME NEW c \in Conns, SetOffline(c) PROVE CastInv'
  BY <1>21 DEF SetOffline
<1>22. ASSUME NEW c \in Conns, LeaveVoice(c) PROVE CastInv'
  BY <1>22 DEF LeaveVoice
<1>23. ASSUME NEW u \in Users, JoinVoice(u) PROVE CastInv'
  BY <1>23 DEF JoinVoice
<1>24. ASSUME Restart PROVE CastInv'
  BY <1>24 DEF Restart
<1> QED
  BY NextCases, <1>1, <1>2, <1>3, <1>4, <1>5, <1>6, <1>7, <1>8, <1>9, <1>10, <1>11, <1>12,
     <1>13, <1>14, <1>15, <1>16, <1>17, <1>18, <1>19, <1>20, <1>21, <1>22, <1>23, <1>24

(* What is known of broadcasts and outboxes holds throughout.              *)
LEMMA CastInvariance == Spec => []CastInv
<1>1. Init => CastInv
  BY DEF Init, CastInv
<1>2. IndexInv /\ CastInv /\ [Next]_vars => CastInv'
  <2> SUFFICES ASSUME IndexInv, CastInv, [Next]_vars PROVE CastInv'
    OBVIOUS
  <2>1. CASE UNCHANGED vars
    BY <2>1 DEF vars, task, cast, CastInv
  <2> QED
    BY <2>1, CastStepInv
<1> QED
  BY IndexInvariance, <1>1, <1>2, PTL DEF Spec

(* PrivateMail: a message for a user only reaches the user's connections.  *)
THEOREM MailIsPrivate == Spec => []PrivateMail
<1>1. CastInv => PrivateMail
  BY DEF CastInv, PrivateMail
<1> QED
  BY CastInvariance, <1>1, PTL

(* PublisherOrder: nothing is sent for a broadcast that has ended.         *)
THEOREM EndedBroadcastsSendNothing == Spec => PublisherOrder
<1> DEFINE Ordered == \A m \in Msgs, c \in Conns :
        phase[m] = "done" /\ outbox'[c] # outbox[c] => outbox'[c] # Append(outbox[c], m)
<1>1. IndexInv /\ CastInv /\ [Next]_vars => [Ordered]_vars
  <2> SUFFICES ASSUME IndexInv, CastInv, Next PROVE Ordered
    BY DEF vars, cast
  <2>1. CASE UNCHANGED outbox
    BY <2>1
  <2>2. CASE \E m \in Msgs, c \in Conns : Send(m, c)
    <3>1. PICK m \in Msgs, c \in Conns : Send(m, c)
      BY <2>2
    <3>2. phase[m] = "sending" /\ outbox' = [outbox EXCEPT ![c] = Append(@, m)]
      BY <3>1 DEF Send, CastInv
    <3>3. ASSUME NEW n \in Msgs, NEW d \in Conns, phase[n] = "done", outbox'[d] # outbox[d],
                 outbox'[d] = Append(outbox[d], n)
          PROVE  FALSE
      <4>1. d = c /\ Append(outbox[c], m) = Append(outbox[c], n)
        BY <3>2, <3>3 DEF IndexInv, TypeOK
      <4>2. outbox[c] \in Seq(Msgs)
        BY DEF IndexInv, TypeOK
      <4>3. m = n
        BY <4>1, <4>2
      <4> QED
        BY <3>2, <3>3, <4>3
    <3> QED
      BY <3>3
  <2> QED
    BY NextCases, <2>1, <2>2
    DEF cast, Authenticate, AddSender, AddInfo, AddUser, SetOnline, SubscribeInfo,
        UnsubscribeInfo, SubscribeIndex, SubscribeAck, UnsubscribeIndex, Relay, LockIndex,
        LockSenders, Unlock, RemoveInfo, RemoveUser, RemoveTopic, RemoveSender,
        CheckOnline, SetOffline, LeaveVoice, JoinVoice, Restart
<1> QED
  BY IndexInvariance, CastInvariance, <1>1, PTL DEF Spec, PublisherOrder
-----------------------------------------------------------------------------
(* The locks and indexes implement PubSub.                                 *)

(* Steps that leave the members, the phases and the outboxes alone are     *)
(* invisible to PubSub.                                                    *)
LEMMA Invisible ==
    ASSUME UNCHANGED <<user_connections, subscribers, senders, phase, dest, pending, outbox>>
    PROVE  UNCHANGED PS!vars
  BY DEF PS!vars, Members, Published, Audience

(* An insert into the index of a topic is a Join, or changes nothing.      *)
LEMMA InsertJoins ==
    ASSUME IndexInv, NEW c \in Conns, NEW t \in Topics, c \in senders,
           subscribers' = [subscribers EXCEPT ![t] = @ \cup {c}],
           UNCHANGED <<user_connections, senders, phase, dest, pending, outbox>>
    PROVE  PS!Next \/ UNCHANGED PS!vars
<1>1. t \in Dests /\ t \notin Users
  BY IdsAssumption DEF Dests
<1>2. Members' = [Members EXCEPT ![t] = @ \cup {c}] /\ UNCHANGED Published
  <2>1. \A x \in Dests : Audience(x)' = IF x = t THEN Audience(x) \cup {c} ELSE Audience(x)
    BY <1>1 DEF Audience, Dests, IndexInv, TypeOK
  <2> QED
    BY <1>1, <2>1 DEF Members, Published
<1>3. CASE c \in subscribers[t]
  <2>1. UNCHANGED subscribers
    BY <1>3 DEF IndexInv, TypeOK
  <2> QED
    BY <2>1, Invisible
<1>4. CASE c \notin subscribers[t]
  <2>1. c \notin Members[t]
    BY <1>1, <1>4 DEF Members, Audience
  <2>2. PS!Join(c, t)
    BY <1>2, <2>1 DEF PS!Join
  <2> QED
    BY <1>1, <2>2 DEF PS!Next
<1> QED
  BY <1>3, <1>4

(* A removal from an index that no broadcast has locked is a Leave: nothing*)
(* published to that destination is still owed.                            *)
LEMMA RemovalLeaves ==
    ASSUME IndexInv, CastInv, NEW c \in Conns, NEW x \in Dests, NEW S,
           x \in S, ~ReadLocked(S), c \in Members[x],
           Members' = [Members EXCEPT ![x] = @ \ {c}],
           UNCHANGED <<phase, dest, pending, outbox>>
    PROVE  PS!Next
<1>1. \A m \in Msgs : Published[m] = x => c \notin pending[m]
  BY DEF ReadLocked, Published, CastInv, IndexInv, TypeOK
<1>2. PS!Leave(c, x)
  BY <1>1 DEF PS!Leave, Published
<1> QED
  BY <1>2 DEF PS!Next

(* The same for one connection and one topic's index.                      *)
LEMMA TopicRemovalLeaves ==
    ASSUME IndexInv, CastInv, NEW c \in Conns, NEW t \in Topics, ~ReadLocked(IndexOf(t)),
           subscribers' = [subscribers EXCEPT ![t] = @ \ {c}],
           UNCHANGED <<user_connections, senders, phase, dest, pending, outbox>>
    PROVE  PS!Next \/ UNCHANGED PS!vars
<1>1. t \in Dests /\ t \notin Users /\ t \in IndexOf(t)
  BY IdsAssumption DEF Dests, Topics, IndexOf
<1>2. Members' = [Members EXCEPT ![t] = @ \ {c}]
  <2>1. \A x \in Dests : Audience(x)' = IF x = t THEN Audience(x) \ {c} ELSE Audience(x)
    BY <1>1 DEF Audience, Dests, IndexInv, TypeOK
  <2> QED
    BY <1>1, <2>1 DEF Members
<1>3. CASE c \in Members[t]
  BY <1>1, <1>2, <1>3, RemovalLeaves
<1>4. CASE c \notin Members[t]
  <2>1. UNCHANGED Members
    BY <1>1, <1>2, <1>4, ZenonT(40) DEF Members
  <2> QED
    BY <2>1 DEF PS!vars, Published
<1> QED
  BY <1>3, <1>4

(* Every step of the server is a step of PubSub or invisible to it.        *)
LEMMA RefinesStep == ASSUME IndexInv, CastInv, Next PROVE PS!Next \/ UNCHANGED PS!vars
<1> DEFINE Goal == PS!Next \/ UNCHANGED PS!vars
<1> USE DEF manager, db, task, cast, Goto
<1>1. CASE \/ \E c \in Conns, u \in Users : Authenticate(c, u)
           \/ \E c \in Conns : AddInfo(c) \/ SetOnline(c) \/ SubscribeAck(c) \/ RemoveInfo(c)
           \/ \E c \in Conns, t \in Topics : SubscribeInfo(c, t) \/ UnsubscribeInfo(c, t)
           \/ \E c \in Conns : CheckOnline(c) \/ SetOffline(c) \/ LeaveVoice(c)
           \/ \E u \in Users : JoinVoice(u)
  BY <1>1, Invisible
  DEF Authenticate, AddInfo, SetOnline, SubscribeAck, RemoveInfo, SubscribeInfo,
      UnsubscribeInfo, CheckOnline, SetOffline, LeaveVoice, JoinVoice
<1>2. ASSUME NEW c \in Conns, AddSender(c) PROVE UNCHANGED PS!vars
  <2>1. \A x \in Dests : c \notin Audience(x)
    BY <1>2 DEF AddSender, IndexInv, TypeOK, IndexesAgree, IsCounted, HasInfo, InFlight,
        Serving, Audience, Dests
  <2>2. senders' = senders \cup {c} /\ UNCHANGED <<user_connections, subscribers, cast>>
    BY <1>2 DEF AddSender
  <2>3. UNCHANGED Members
    BY <2>1, <2>2 DEF Members, Audience
  <2> QED
    BY <2>2, <2>3 DEF PS!vars, Published
<1>3. ASSUME NEW c \in Conns, RemoveSender(c) PROVE UNCHANGED PS!vars
  <2>1. \A x \in Dests : c \notin Audience(x)
    BY <1>3 DEF RemoveSender, LoopsOver, IndexInv, TypeOK, IndexesAgree, IsCounted,
        InFlight, Serving, Audience, Dests
  <2>2. senders' = senders \ {c} /\ UNCHANGED <<user_connections, subscribers, cast>>
    BY <1>3 DEF RemoveSender
  <2>3. UNCHANGED Members
    BY <2>1, <2>2 DEF Members, Audience
  <2> QED
    BY <2>2, <2>3 DEF PS!vars, Published
<1>4. ASSUME NEW c \in Conns, AddUser(c) PROVE PS!Next
  <2>1. owner[c] \in Users /\ owner[c] \in Dests
    BY <1>4 DEF AddUser, IndexInv, TaskInv, Dests
  <2>2. c \in senders /\ c \notin user_connections[owner[c]]
    BY <1>4, <2>1 DEF AddUser, IndexInv, IndexesAgree, HasSender, IsCounted, Serving
  <2>3. /\ user_connections' = [user_connections EXCEPT ![owner[c]] = @ \cup {c}]
        /\ UNCHANGED <<senders, subscribers, cast>>
    BY <1>4 DEF AddUser
  <2>4. Members' = [Members EXCEPT ![owner[c]] = @ \cup {c}]
    BY <2>1, <2>2, <2>3, ZenonT(40) DEF Members, Audience, IndexInv, TypeOK
  <2>5. c \notin Members[owner[c]]
    BY <2>1, <2>2 DEF Members, Audience
  <2>6. PS!Join(c, owner[c])
    BY <2>3, <2>4, <2>5 DEF PS!Join, Published
  <2> QED
    BY <2>1, <2>6 DEF PS!Next
<1>5. ASSUME NEW c \in Conns, SubscribeIndex(c) PROVE Goal
  BY <1>5, InsertJoins
  DEF SubscribeIndex, Indexed, IndexInv, TaskInv, IndexesAgree, HasSender, Serving
<1>6. ASSUME NEW c \in Conns, UnsubscribeIndex(c) PROVE Goal
  BY <1>6, TopicRemovalLeaves DEF UnsubscribeIndex, IndexInv, TaskInv
<1>7. ASSUME NEW c \in Conns, NEW t \in Topics, RemoveTopic(c, t) PROVE Goal
  BY <1>7, TopicRemovalLeaves DEF RemoveTopic
<1>8. ASSUME NEW c \in Conns, RemoveUser(c) PROVE Goal
  <2>1. owner[c] \in Users /\ owner[c] \in Dests
    BY <1>8 DEF RemoveUser, IndexInv, TaskInv, Dests
  <2>2. c \in senders /\ c \in user_connections[owner[c]] /\ ~ReadLocked(Users)
    BY <1>8, <2>1 DEF RemoveUser, IndexInv, IndexesAgree, HasSender, IsCounted, Serving
  <2>3. /\ user_connections' = [user_connections EXCEPT ![owner[c]] = @ \ {c}]
        /\ UNCHANGED <<senders, subscribers, cast>>
    BY <1>8 DEF RemoveUser
  <2>4. Members' = [Members EXCEPT ![owner[c]] = @ \ {c}] /\ c \in Members[owner[c]]
    BY <2>1, <2>2, <2>3 DEF Members, Audience, IndexInv, TypeOK
  <2> QED
    BY <2>1, <2>2, <2>3, <2>4, RemovalLeaves
<1>9. ASSUME NEW m \in Msgs, NEW x \in Dests,
             LockIndex(m, x) \/ \E c \in Conns : Relay(c, m, x)
      PROVE  UNCHANGED PS!vars
  <2>1. /\ phase[m] = "idle" /\ phase' = [phase EXCEPT ![m] = "index"]
        /\ dest' = [dest EXCEPT ![m] = x]
        /\ UNCHANGED <<senders, user_connections, subscribers, pending, outbox>>
    BY <1>9 DEF LockIndex, Relay
  <2>2. UNCHANGED Published /\ UNCHANGED Members
    BY <2>1 DEF Published, Members, Audience, IndexInv, TypeOK
  <2> QED
    BY <2>1, <2>2 DEF PS!vars
<1>10. ASSUME NEW m \in Msgs, LockSenders(m) PROVE PS!Next
  <2>1. dest[m] \in Dests /\ Published[m] = None
    BY <1>10 DEF LockSenders, CastInv, Published
  <2>2. /\ phase' = [phase EXCEPT ![m] = "sending"]
        /\ pending' = [pending EXCEPT ![m] = Members[dest[m]]]
        /\ UNCHANGED <<senders, user_connections, subscribers, dest, outbox>>
    BY <1>10, <2>1 DEF LockSenders, Members
  <2>3. Published' = [Published EXCEPT ![m] = dest[m]] /\ UNCHANGED Members
    BY <2>2 DEF Published, Members, Audience, IndexInv, TypeOK
  <2>4. PS!Publish(m, dest[m])
    BY <2>1, <2>2, <2>3 DEF PS!Publish
  <2> QED
    BY <2>1, <2>4 DEF PS!Next
<1>11. ASSUME NEW m \in Msgs, NEW c \in Conns, Send(m, c) PROVE PS!Next
  <2>1. PS!Deliver(m, c)
    BY <1>11 DEF Send, PS!Deliver, Members, Published, Audience
  <2> QED
    BY <2>1 DEF PS!Next
<1>12. ASSUME NEW m \in Msgs, Unlock(m) PROVE UNCHANGED PS!vars
  <2>1. /\ phase[m] = "sending" /\ phase' = [phase EXCEPT ![m] = "done"]
        /\ UNCHANGED <<senders, user_connections, subscribers, dest, pending, outbox>>
    BY <1>12 DEF Unlock
  <2>2. UNCHANGED Published /\ UNCHANGED Members
    BY <2>1 DEF Published, Members, Audience, IndexInv, TypeOK
  <2> QED
    BY <2>1, <2>2 DEF PS!vars
<1>13. ASSUME Restart PROVE PS!Next
  <2>1. Members' = [x \in Dests |-> {}]
    BY <1>13 DEF Restart, Members, Audience, Dests
  <2>2. UNCHANGED Published
    BY <1>13 DEF Restart, Published, IndexInv, TypeOK
  <2>3. PS!Restart
    BY <1>13, <2>1, <2>2 DEF Restart, PS!Restart
  <2> QED
    BY <2>3 DEF PS!Next
<1> QED
  BY NextCases, <1>1, <1>2, <1>3, <1>4, <1>5, <1>6, <1>7, <1>8, <1>9, <1>10, <1>11,
     <1>12, <1>13

(* Every behaviour of the server's real-time side is one of PubSub's: each *)
(* broadcast reaches the members of one instant, each of them once, and a  *)
(* connection never leaves with a message of that destination outstanding. *)
THEOREM Refinement == Spec => ImplementsPubSub
<1>1. Init => PS!Init
  BY DEF Init, PS!Init, Members, Published, Audience, Dests
<1>2. IndexInv /\ CastInv /\ [Next]_vars => [PS!Next]_PS!vars
  <2> SUFFICES ASSUME IndexInv, CastInv, [Next]_vars PROVE PS!Next \/ UNCHANGED PS!vars
    OBVIOUS
  <2>1. CASE UNCHANGED vars
    BY <2>1, Invisible DEF vars, manager, cast
  <2> QED
    BY <2>1, RefinesStep
<1> QED
  BY IndexInvariance, CastInvariance, <1>1, <1>2, PTL DEF Spec, ImplementsPubSub, PS!Spec
=============================================================================
