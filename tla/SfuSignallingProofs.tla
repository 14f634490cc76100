------------------------- MODULE SfuSignallingProofs -------------------------
(***************************************************************************)
(* Proofs about SfuSignalling: types, and that an answer meets its own     *)
(* offer unless that was superseded or the user is in two sessions.        *)
(***************************************************************************)
EXTENDS SfuSignalling, FiniteSetTheorems, TLAPS

(* The actions of Next, one by one.                                        *)
LEMMA NextCases ==
    ASSUME Next, NEW G,
           ASSUME NEW c \in Channels, Connect(c) PROVE G,
           ASSUME NEW c \in Channels, Push(c) PROVE G,
           ASSUME Disconnect PROVE G,
           ASSUME Cleanup PROVE G,
           ASSUME GatheringEnds PROVE G,
           ASSUME TakeAnswer PROVE G,
           ASSUME TakeRenegotiate PROVE G,
           ASSUME PutBack PROVE G,
           ASSUME Renegotiate PROVE G,
           ASSUME AnswerBack PROVE G,
           ASSUME Read PROVE G,
           ASSUME TakeOffer PROVE G,
           ASSUME SendAnswer PROVE G,
           ASSUME TakeSfuAnswer PROVE G,
           ASSUME NEW s \in Shares, StartShare(s) PROVE G,
           ASSUME NEW s \in Shares, CheckScreen(s) PROVE G,
           ASSUME NEW s \in Shares, AddScreen(s) PROVE G,
           ASSUME NEW s \in Shares, OfferScreen(s) PROVE G,
           ASSUME NEW s \in Shares, OfferStray(s) PROVE G,
           ASSUME NEW s \in Shares, ShareFails(s) PROVE G,
           ASSUME NEW s \in Shares, SendShare(s) PROVE G
    PROVE  G
  BY DEF Next, FrameStep, SocketStep, ShareStep

-----------------------------------------------------------------------------
(* A message of one type about one offer is on the socket; at most once.   *)
Has(q, type, id) == \E i \in 1..Len(q) : q[i].type = type /\ q[i].id = id
Once(q, type) ==
    \A i, j \in 1..Len(q) :
        q[i].type = type /\ q[j].type = type /\ q[i].id = q[j].id => i = j

(* What is appended comes last, and what is taken was first.               *)
LEMMA AppendHas ==
    ASSUME NEW S, NEW q \in Seq(S), NEW m \in S, NEW type
    PROVE  /\ \A id : Has(Append(q, m), type, id) <=> Has(q, type, id) \/ (m.type = type /\ m.id = id)
           /\ Once(q, type) /\ (m.type # type \/ ~Has(q, type, m.id)) => Once(Append(q, m), type)
<1>1. /\ Len(q) \in Nat /\ Len(Append(q, m)) = Len(q) + 1
      /\ \A i \in 1..Len(q) : Append(q, m)[i] = q[i]
      /\ Append(q, m)[Len(q) + 1] = m
  OBVIOUS
<1>2. 1..(Len(q) + 1) = 1..Len(q) \cup {Len(q) + 1}
  BY <1>1
<1>3. \A id : Has(Append(q, m), type, id) <=> Has(q, type, id) \/ (m.type = type /\ m.id = id)
  BY <1>1, <1>2 DEF Has
<1>4. ASSUME Once(q, type), m.type # type \/ ~Has(q, type, m.id) PROVE Once(Append(q, m), type)
  BY <1>1, <1>2, <1>4 DEF Has, Once
<1> QED
  BY <1>3, <1>4

(* What is left of a queue when its head is taken.                         *)
LEMMA TailHas ==
    ASSUME NEW S, NEW q \in Seq(S), q # <<>>, NEW type
    PROVE  /\ \A id : Has(q, type, id) <=> Has(Tail(q), type, id) \/ (Head(q).type = type /\ Head(q).id = id)
           /\ Once(q, type) => Once(Tail(q), type)
           /\ Once(q, type) /\ Head(q).type = type => ~Has(Tail(q), type, Head(q).id)
<1>1. /\ Len(q) \in Nat \ {0} /\ Len(Tail(q)) = Len(q) - 1
      /\ \A i \in 1..Len(Tail(q)) : Tail(q)[i] = q[i + 1]
      /\ Head(q) = q[1]
  OBVIOUS
<1>2. \A j \in 1..Len(q) : j = 1 \/ (j - 1 \in 1..Len(Tail(q)) /\ q[j] = Tail(q)[j - 1])
  BY <1>1
<1>3. \A i \in 1..Len(Tail(q)) : i + 1 \in 1..Len(q) /\ i + 1 # 1
  BY <1>1
<1>4. ASSUME NEW id PROVE Has(q, type, id) <=> Has(Tail(q), type, id) \/ (Head(q).type = type /\ Head(q).id = id)
  BY <1>1, <1>2, <1>3 DEF Has
<1>5. ASSUME Once(q, type) PROVE Once(Tail(q), type)
  BY <1>1, <1>3, <1>5 DEF Once
<1>6. ASSUME Once(q, type), Head(q).type = type PROVE ~Has(Tail(q), type, Head(q).id)
  BY <1>1, <1>3, <1>6 DEF Once, Has
<1> QED
  BY <1>4, <1>5, <1>6

-----------------------------------------------------------------------------
(* What is not said by the types.                                          *)
StateInv ==
    /\ \A s \in Shares : share[s] = "sending" => share_offer[s] # NoOffer
    /\ \A c \in Channels : server_offer[c] # NoOffer <=> server[c] = "local"

ShapeInv == TypeOK /\ StateInv

(* It holds initially.                                                     *)
LEMMA ShapeInitially == Init => ShapeInv
<1> SUFFICES ASSUME Init PROVE ShapeInv
  OBVIOUS
<1>1. c2s \in Seq(FromClient) /\ s2c \in Seq(FromServer)
  BY DEF Init
<1>2. next \in 0..MaxOffers
  BY SignallingAssumption DEF Init
<1>3. StateInv
  BY DEF Init, StateInv
<1> QED
  BY <1>1, <1>2, <1>3 DEF Init, ShapeInv, TypeOK

(* A new offer has the next number.                                        *)
LEMMA NewOfferIsNew == ASSUME TypeOK, MakeOffer PROVE NewOffer \in Ids /\ NewOffer \notin 0..next /\ next' = NewOffer /\ next' \in 0..MaxOffers
  BY SignallingAssumption DEF TypeOK, MakeOffer, NewOffer, Ids

(* Every action keeps the types.                                           *)
LEMMA TypeStep == ASSUME ShapeInv, Next PROVE TypeOK'
<1> USE DEF TypeOK
<1>0. TypeOK /\ NoOffer \notin Ids
  BY SignallingAssumption DEF ShapeInv, Ids, NoOffer
<1>1. ASSUME NEW c \in Channels, Connect(c) PROVE TypeOK'
  <2>1. c2s' \in Seq(FromClient)
    BY <1>0, NewOfferIsNew, <1>1 DEF Connect, FromClient
  <2>2. superseded' \subseteq Ids
    BY <1>0, <1>1 DEF Connect, Outstanding
  <2>3. strays' \subseteq Shares
    BY <1>1 DEF Connect, Running
  <2>4. client_offer' \in Ids /\ next' \in 0..MaxOffers
    BY NewOfferIsNew, <1>0, <1>1 DEF Connect
  <2> QED
    BY <1>0, <1>1, <2>1, <2>2, <2>3, <2>4 DEF Connect, slotVars, serverVars
<1>2. ASSUME NEW c \in Channels, Push(c) PROVE TypeOK'
  BY <1>0, NewOfferIsNew, <1>2
     DEF Push, FromServer, clientVars, slotVars, shareVars, serverVars, history
<1>3. ASSUME Disconnect PROVE TypeOK'
  <2>1. superseded' \subseteq Ids
    BY <1>0, <1>3 DEF Disconnect, NoConnection, Outstanding
  <2>2. share' \in [Shares -> {"unborn", "adding", "checked", "offering", "sending", "over"}]
    BY <1>0, <1>3 DEF Disconnect
  <2> QED
    BY <1>0, <1>3, <2>1, <2>2 DEF Disconnect, NoConnection, slotVars, serverVars
<1>4. ASSUME GatheringEnds PROVE TypeOK'
  BY <1>0, <1>4 DEF GatheringEnds, clientVars, slotVars, shareVars, serverVars, history
<1>5. ASSUME TakeAnswer PROVE TypeOK'
  BY <1>0, <1>5
     DEF TakeAnswer, Settle, AnswerTaken, clientVars, slotVars, shareVars, serverVars,
         history
<1>6. ASSUME TakeRenegotiate PROVE TypeOK'
  BY <1>0, <1>6
     DEF TakeRenegotiate, clientVars, slotVars, shareVars, serverVars, history
<1>7. ASSUME PutBack PROVE TypeOK'
  BY <1>0, <1>7
     DEF PutBack, PutBackValue, clientVars, slotVars, shareVars, serverVars, history
<1>8. ASSUME Renegotiate PROVE TypeOK'
  BY <1>0, <1>8 DEF Renegotiate, clientVars, slotVars, shareVars, serverVars, history
<1>9. ASSUME AnswerBack PROVE TypeOK'
  BY <1>0, <1>9
     DEF AnswerBack, FromClient, clientVars, slotVars, shareVars, serverVars, history
<1>10. ASSUME Read PROVE TypeOK'
  <2>1. Head(s2c) \in FromServer /\ s2c' \in Seq(FromServer)
    BY <1>0, <1>10 DEF Read
  <2>2. Head(s2c).id \in Ids
    BY <2>1 DEF FromServer
  <2>3. {sfu_answer', sfu_renegotiate'} \subseteq Ids \cup {NoOffer}
    BY <1>0, <1>10, <2>2 DEF Read
  <2> QED
    BY <1>0, <1>10, <2>1, <2>3 DEF Read, shareVars, serverVars, history
<1>11. ASSUME TakeOffer PROVE TypeOK'
  <2>0. c2s # <<>> /\ c2s' = Tail(c2s)
    BY <1>11 DEF TakeOffer
  <2>1. Head(c2s) \in FromClient /\ c2s' \in Seq(FromClient)
    BY <1>0, <2>0
  <2>2. Head(c2s).id \in Ids
    BY <2>1 DEF FromClient
  <2>3. taking' \in Ids \cup {NoOffer} /\ refused' \subseteq Ids
    BY <1>0, <1>11, <2>2 DEF TakeOffer
  <2>4. server' \in [Channels -> {"none", "stable", "local", "remote"}]
    BY <1>0, <1>11 DEF TakeOffer
  <2> QED
    BY <1>0, <1>11, <2>1, <2>3, <2>4 DEF TakeOffer, clientVars, slotVars, shareVars
<1>12. ASSUME SendAnswer PROVE TypeOK'
  BY <1>0, <1>12
     DEF SendAnswer, FromServer, AnswerTo, clientVars, slotVars, shareVars, serverVars,
         history
<1>13. ASSUME TakeSfuAnswer PROVE TypeOK'
  <2>1. Head(c2s) \in FromClient /\ c2s' \in Seq(FromClient)
    BY <1>0, <1>13 DEF TakeSfuAnswer
  <2>2. Head(c2s).id \in Ids
    BY <2>1 DEF FromClient
  <2>3. PICK c \in Sessions :
           IF server[c] = "local"
           THEN /\ server' = [server EXCEPT ![c] = "stable"]
                /\ server_offer' = [server_offer EXCEPT ![c] = NoOffer]
                /\ Settle("server", server_offer[c], Head(c2s).id)
           ELSE UNCHANGED <<server, server_offer, superseded, mismatched>>
    BY <1>13 DEF TakeSfuAnswer
  <2>4. server_offer[c] \in Ids \cup {NoOffer} /\ (server[c] = "local" => server_offer[c] # NoOffer)
    BY <2>3, <1>0 DEF Sessions, ShapeInv, StateInv
  <2>5. superseded' \subseteq Ids /\ mismatched' \subseteq [by : {"client", "server"}, answer : Ids]
    BY <1>0, <2>2, <2>3, <2>4 DEF Settle
  <2>6. /\ server' \in [Channels -> {"none", "stable", "local", "remote"}]
        /\ server_offer' \in [Channels -> Ids \cup {NoOffer}]
    BY <1>0, <2>3
  <2> QED
    BY <1>0, <1>13, <2>1, <2>5, <2>6 DEF TakeSfuAnswer, clientVars, slotVars, shareVars
<1>14. ASSUME NEW s \in Shares, StartShare(s) PROVE TypeOK'
  BY <1>0, <1>14
     DEF StartShare, At, clientVars, slotVars, shareVars, serverVars, history
<1>15. ASSUME NEW s \in Shares, CheckScreen(s) PROVE TypeOK'
  BY <1>0, <1>15
     DEF CheckScreen, At, clientVars, slotVars, shareVars, serverVars, history
<1>16. ASSUME NEW s \in Shares, AddScreen(s) PROVE TypeOK'
  BY <1>0, <1>16 DEF AddScreen, At, clientVars, slotVars, shareVars, serverVars, history
<1>17. ASSUME NEW s \in Shares, OfferScreen(s) PROVE TypeOK'
  <2>1. superseded' \subseteq Ids
    BY <1>0, <1>17 DEF OfferScreen, Outstanding
  <2>2. client_offer' \in Ids /\ next' \in 0..MaxOffers
    BY NewOfferIsNew, <1>0, <1>17 DEF OfferScreen
  <2>3. share_offer' \in [Shares -> Ids \cup {NoOffer}]
    BY NewOfferIsNew, <1>0, <1>17 DEF OfferScreen
  <2>4. share' \in [Shares -> {"unborn", "adding", "checked", "offering", "sending", "over"}]
    BY <1>0, <1>17 DEF OfferScreen, At
  <2> QED
    BY <1>0, <1>17, <2>1, <2>2, <2>3, <2>4 DEF OfferScreen, slotVars, serverVars
<1>18. ASSUME NEW s \in Shares, ShareFails(s) PROVE TypeOK'
  BY <1>0, <1>18
     DEF ShareFails, At, clientVars, slotVars, shareVars, serverVars, history
<1>19. ASSUME NEW s \in Shares, SendShare(s) PROVE TypeOK'
  <2>1. share_offer[s] \in Ids
    BY <1>0, <1>19 DEF SendShare, At, ShapeInv, StateInv
  <2>2. \A c \in Channels : [type |-> "offer", channel |-> c, id |-> share_offer[s]] \in FromClient
    BY <2>1 DEF FromClient
  <2>3. c2s' \in Seq(FromClient) /\ unsent' \subseteq Ids
    <3>1. c2s \in Seq(FromClient) /\ unsent \subseteq Ids
      BY <1>0
    <3>2. ASSUME NEW m \in FromClient PROVE Append(c2s, m) \in Seq(FromClient)
      BY <3>1
    <3>3. c2s' \in Seq(FromClient)
      BY <2>2, <3>1, <3>2, <1>19 DEF SendShare
    <3>4. unsent' \subseteq Ids
      BY <2>1, <3>1, <1>19 DEF SendShare
    <3> QED
      BY <3>3, <3>4
  <2>4. /\ share' \in [Shares -> {"unborn", "adding", "checked", "offering", "sending", "over"}]
        /\ share_offer' \in [Shares -> Ids \cup {NoOffer}]
    BY <1>0, <1>19 DEF SendShare, At
  <2> QED
    BY <1>0, <2>3, <2>4, <1>19 DEF SendShare, slotVars, serverVars
<1>20. ASSUME Cleanup PROVE TypeOK'
  <2>1. superseded' \subseteq Ids /\ strays' \subseteq Shares
    BY <1>0, <1>20 DEF Cleanup, NoConnection, Outstanding, Running
  <2> QED
    BY <1>0, <1>20, <2>1 DEF Cleanup, NoConnection, slotVars, serverVars
<1>21. ASSUME NEW s \in Shares, OfferStray(s) PROVE TypeOK'
  <2>1. NewOffer \in Ids /\ next' \in 0..MaxOffers
    BY NewOfferIsNew, <1>0, <1>21 DEF OfferStray
  <2>2. share_offer' \in [Shares -> Ids \cup {NoOffer}] /\ superseded' \subseteq Ids
    BY <1>0, <1>21, <2>1 DEF OfferStray
  <2>3. share' \in [Shares -> {"unborn", "adding", "checked", "offering", "sending", "over"}]
    BY <1>0, <1>21 DEF OfferStray, At
  <2> QED
    BY <1>0, <1>21, <2>1, <2>2, <2>3 DEF OfferStray, slotVars, serverVars
<1> QED
  BY NextCases, <1>1, <1>2, <1>3, <1>4, <1>5, <1>6, <1>7, <1>8, <1>9, <1>10, <1>11,
     <1>12, <1>13, <1>14, <1>15, <1>16, <1>17, <1>18, <1>19, <1>20, <1>21

(* Every action keeps the rest.                                            *)
LEMMA StateStep == ASSUME ShapeInv, Next PROVE StateInv'
<1>1. ASSUME UNCHANGED <<share, share_offer, server, server_offer>> PROVE StateInv'
  BY <1>1 DEF ShapeInv, StateInv
<1>2. ASSUME NEW c \in Channels, Connect(c) PROVE StateInv'
  BY <1>2 DEF Connect, StateInv, ShapeInv, TypeOK, serverVars
<1>3. ASSUME NEW c \in Channels, Push(c) PROVE StateInv'
  BY SignallingAssumption, <1>3
     DEF Push, MakeOffer, NewOffer, NoOffer, StateInv, ShapeInv, TypeOK, clientVars,
         shareVars
<1>4. ASSUME Disconnect PROVE StateInv'
  BY <1>4 DEF Disconnect, NoConnection, StateInv, ShapeInv, TypeOK, serverVars
<1>5. ASSUME GatheringEnds PROVE StateInv'
  BY <1>1, <1>5 DEF GatheringEnds, shareVars, serverVars, clientVars
<1>6. ASSUME TakeAnswer PROVE StateInv'
  BY <1>1, <1>6 DEF TakeAnswer, shareVars, serverVars, clientVars
<1>7. ASSUME TakeRenegotiate PROVE StateInv'
  BY <1>1, <1>7 DEF TakeRenegotiate, shareVars, serverVars, clientVars
<1>8. ASSUME PutBack PROVE StateInv'
  BY <1>1, <1>8 DEF PutBack, shareVars, serverVars, clientVars
<1>9. ASSUME Renegotiate PROVE StateInv'
  BY <1>1, <1>9 DEF Renegotiate, shareVars, serverVars, clientVars
<1>10. ASSUME AnswerBack PROVE StateInv'
  BY <1>1, <1>10 DEF AnswerBack, shareVars, serverVars, clientVars
<1>11. ASSUME Read PROVE StateInv'
  BY <1>1, <1>11 DEF Read, shareVars, serverVars, clientVars
<1>12. ASSUME TakeOffer PROVE StateInv'
  BY <1>12 DEF TakeOffer, Accepts, StateInv, ShapeInv, TypeOK, clientVars, shareVars
<1>13. ASSUME SendAnswer PROVE StateInv'
  BY <1>13 DEF SendAnswer, StateInv, ShapeInv, TypeOK, clientVars, shareVars
<1>14. ASSUME TakeSfuAnswer PROVE StateInv'
  BY <1>14
     DEF TakeSfuAnswer, Sessions, StateInv, ShapeInv, TypeOK, clientVars, shareVars
<1>15. ASSUME NEW s \in Shares, StartShare(s) PROVE StateInv'
  BY <1>15 DEF StartShare, At, StateInv, ShapeInv, TypeOK, serverVars
<1>16. ASSUME NEW s \in Shares, CheckScreen(s) PROVE StateInv'
  BY <1>16 DEF CheckScreen, At, StateInv, ShapeInv, TypeOK, serverVars
<1>17. ASSUME NEW s \in Shares, AddScreen(s) PROVE StateInv'
  BY <1>17 DEF AddScreen, At, StateInv, ShapeInv, TypeOK, serverVars
<1>18. ASSUME NEW s \in Shares, OfferScreen(s) PROVE StateInv'
  BY SignallingAssumption, <1>18
     DEF OfferScreen, At, MakeOffer, NewOffer, NoOffer, StateInv, ShapeInv, TypeOK,
         serverVars
<1>19. ASSUME NEW s \in Shares, ShareFails(s) PROVE StateInv'
  BY <1>19 DEF ShareFails, At, StateInv, ShapeInv, TypeOK, serverVars
<1>20. ASSUME NEW s \in Shares, SendShare(s) PROVE StateInv'
  BY <1>20 DEF SendShare, At, StateInv, ShapeInv, TypeOK, serverVars
<1>21. ASSUME Cleanup PROVE StateInv'
  BY <1>1, <1>21 DEF Cleanup, NoConnection, serverVars
<1>22. ASSUME NEW s \in Shares, OfferStray(s) PROVE StateInv'
  BY SignallingAssumption, <1>22
     DEF OfferStray, At, MakeOffer, NewOffer, NoOffer, StateInv, ShapeInv, TypeOK,
         serverVars
<1> QED
  BY NextCases, <1>2, <1>3, <1>4, <1>5, <1>6, <1>7, <1>8, <1>9, <1>10, <1>11, <1>12,
     <1>13, <1>14, <1>15, <1>16, <1>17, <1>18, <1>19, <1>20, <1>21, <1>22

(* Types and shape hold throughout.                                        *)
THEOREM ShapeInvariance == Spec => []ShapeInv
<1>1. ASSUME ShapeInv, UNCHANGED vars PROVE ShapeInv'
  BY <1>1 DEF ShapeInv, TypeOK, StateInv, vars, clientVars, slotVars, shareVars, serverVars, history
<1>2. ShapeInv /\ [Next]_vars => ShapeInv'
  BY <1>1, TypeStep, StateStep DEF ShapeInv
<1> QED
  BY ShapeInitially, <1>2, PTL DEF Spec

(* The variables keep their types: a client waits for an answer exactly    *)
(* when it has an unanswered offer.                                        *)
THEOREM TypeCorrect == Spec => []TypeOK
<1>1. ShapeInv => TypeOK
  BY DEF ShapeInv
<1> QED
  BY ShapeInvariance, <1>1, PTL

-----------------------------------------------------------------------------
(* What an append or a take does to what is on the socket.                 *)
LEMMA SentByClient ==
    ASSUME ShapeInv, NEW m \in FromClient, c2s' = Append(c2s, m), NEW type
    PROVE  /\ \A x : Has(c2s', type, x) <=> Has(c2s, type, x) \/ (m.type = type /\ m.id = x)
           /\ Once(c2s, type) /\ (m.type # type \/ ~Has(c2s, type, m.id)) => Once(c2s', type)
<1>1. c2s \in Seq(FromClient)
  BY DEF ShapeInv, TypeOK
<1> QED
  BY <1>1, AppendHas

(* What the socket to the client has after a message is sent.              *)
LEMMA SentByServer ==
    ASSUME ShapeInv, NEW m \in FromServer, s2c' = Append(s2c, m), NEW type
    PROVE  /\ \A x : Has(s2c', type, x) <=> Has(s2c, type, x) \/ (m.type = type /\ m.id = x)
           /\ Once(s2c, type) /\ (m.type # type \/ ~Has(s2c, type, m.id)) => Once(s2c', type)
<1>1. s2c \in Seq(FromServer)
  BY DEF ShapeInv, TypeOK
<1> QED
  BY <1>1, AppendHas

(* What the socket to the server has before and after a message is taken.  *)
LEMMA TakenByServer ==
    ASSUME ShapeInv, c2s # <<>>, c2s' = Tail(c2s), NEW type
    PROVE  /\ Head(c2s) \in FromClient /\ Head(c2s).id \in Ids
           /\ \A x : Has(c2s, type, x) <=> Has(c2s', type, x) \/ (Head(c2s).type = type /\ Head(c2s).id = x)
           /\ Once(c2s, type) => Once(c2s', type)
           /\ Once(c2s, type) /\ Head(c2s).type = type => ~Has(c2s', type, Head(c2s).id)
<1>1. c2s \in Seq(FromClient) /\ Head(c2s) \in FromClient
  BY DEF ShapeInv, TypeOK
<1>2. Head(c2s).id \in Ids
  BY <1>1 DEF FromClient
<1> QED
  BY <1>1, <1>2, TailHas

(* The same of the socket to the client.                                   *)
LEMMA TakenByClient ==
    ASSUME ShapeInv, s2c # <<>>, s2c' = Tail(s2c), NEW type
    PROVE  /\ Head(s2c) \in FromServer /\ Head(s2c).id \in Ids
           /\ \A x : Has(s2c, type, x) <=> Has(s2c', type, x) \/ (Head(s2c).type = type /\ Head(s2c).id = x)
           /\ Once(s2c, type) => Once(s2c', type)
           /\ Once(s2c, type) /\ Head(s2c).type = type => ~Has(s2c', type, Head(s2c).id)
<1>1. s2c \in Seq(FromServer) /\ Head(s2c) \in FromServer
  BY DEF ShapeInv, TypeOK
<1>2. Head(s2c).id \in Ids
  BY <1>1 DEF FromServer
<1> QED
  BY <1>1, <1>2, TailHas

(* What is superseded stays so, and nobody leaves a session.               *)
LEMMA HistoryGrows == ASSUME ShapeInv, Next PROVE superseded \subseteq superseded' /\ Sessions \subseteq Sessions'
<1> DEFINE Grows == superseded \subseteq superseded' /\ Sessions \subseteq Sessions'
<1>1. ASSUME UNCHANGED <<superseded, server>> PROVE Grows
  BY <1>1 DEF Sessions
<1>2. ASSUME NEW c \in Channels, Connect(c) PROVE Grows
  BY <1>2 DEF Connect, serverVars, Sessions
<1>3. ASSUME NEW c \in Channels, Push(c) PROVE Grows
  BY <1>3 DEF Push, Sessions, ShapeInv, TypeOK
<1>4. ASSUME Disconnect PROVE Grows
  BY <1>4 DEF Disconnect, NoConnection, serverVars, Sessions
<1>5. ASSUME GatheringEnds PROVE Grows
  BY <1>1, <1>5 DEF GatheringEnds, serverVars, history
<1>6. ASSUME TakeAnswer PROVE Grows
  BY <1>6 DEF TakeAnswer, Settle, serverVars, Sessions
<1>7. ASSUME TakeRenegotiate PROVE Grows
  BY <1>1, <1>7 DEF TakeRenegotiate, serverVars, history
<1>8. ASSUME PutBack PROVE Grows
  BY <1>1, <1>8 DEF PutBack, serverVars, history
<1>9. ASSUME Renegotiate PROVE Grows
  BY <1>1, <1>9 DEF Renegotiate, serverVars, history
<1>10. ASSUME AnswerBack PROVE Grows
  BY <1>1, <1>10 DEF AnswerBack, serverVars, history
<1>11. ASSUME Read PROVE Grows
  BY <1>1, <1>11 DEF Read, serverVars, history
<1>12. ASSUME TakeOffer PROVE Grows
  BY <1>12 DEF TakeOffer, Sessions, ShapeInv, TypeOK
<1>13. ASSUME SendAnswer PROVE Grows
  BY <1>13 DEF SendAnswer, Sessions, history
<1>14. ASSUME TakeSfuAnswer PROVE Grows
  BY <1>14 DEF TakeSfuAnswer, Settle, Sessions, ShapeInv, TypeOK
<1>15. ASSUME NEW s \in Shares, StartShare(s) PROVE Grows
  BY <1>1, <1>15 DEF StartShare, serverVars, history
<1>16. ASSUME NEW s \in Shares, CheckScreen(s) PROVE Grows
  BY <1>1, <1>16 DEF CheckScreen, serverVars, history
<1>17. ASSUME NEW s \in Shares, AddScreen(s) PROVE Grows
  BY <1>1, <1>17 DEF AddScreen, serverVars, history
<1>18. ASSUME NEW s \in Shares, OfferScreen(s) PROVE Grows
  BY <1>18 DEF OfferScreen, serverVars, Sessions
<1>19. ASSUME NEW s \in Shares, ShareFails(s) PROVE Grows
  BY <1>1, <1>19 DEF ShareFails, serverVars, history
<1>20. ASSUME NEW s \in Shares, SendShare(s) PROVE Grows
  BY <1>1, <1>20 DEF SendShare, serverVars
<1>21. ASSUME Cleanup PROVE Grows
  BY <1>21 DEF Cleanup, NoConnection, serverVars, Sessions
<1>22. ASSUME NEW s \in Shares, OfferStray(s) PROVE Grows
  BY <1>22 DEF OfferStray, serverVars, Sessions
<1> QED
  BY NextCases, <1>2, <1>3, <1>4, <1>5, <1>6, <1>7, <1>8, <1>9, <1>10, <1>11, <1>12,
     <1>13, <1>14, <1>15, <1>16, <1>17, <1>18, <1>19, <1>20, <1>21, <1>22

(* An offer of the client travels: from a task over the socket and the     *)
(* WebSocket task to the answer, and to the slot.                          *)
Sharing(x) == \E s \in Shares : share[s] = "sending" /\ share_offer[s] = x
ClientTrip(x) ==
    Sharing(x) \/ Has(c2s, "offer", x) \/ taking = x \/ Has(s2c, "answer", x) \/ sfu_answer = x

(* So with the server's, on its way through the other slot.                *)
ServerTrip(x) ==
    Has(s2c, "renegotiate", x) \/ sfu_renegotiate = x \/ hand = x \/ Has(c2s, "answer", x)

(* A step that moves no offer of one side, or moves some along.            *)
ShareSame ==
    /\ \A s \in Shares : share'[s] = "sending" <=> share[s] = "sending"
    /\ \A s \in Shares : share[s] = "sending" => share_offer'[s] = share_offer[s]

(* If the share tasks stay as they are, so do the offers they have.        *)
LEMMA SharingSame == ASSUME ShareSame PROVE \A x : Sharing(x)' <=> Sharing(x)
  BY DEF ShareSame, Sharing


(* The numbers are not used up.                                            *)
FreshInv == \A x \in Ids : ClientTrip(x) \/ ServerTrip(x) => x <= next

(* Every action keeps it.                                                  *)
LEMMA FreshStep == ASSUME ShapeInv, FreshInv, Next PROVE FreshInv'
<1> DEFINE Trip(x) == ClientTrip(x) \/ ServerTrip(x)
<1>1. ASSUME \A x \in Ids : Trip(x)' => Trip(x), next' = next PROVE FreshInv'
  BY <1>1 DEF FreshInv
<1>2. ASSUME \A x \in Ids : Trip(x)' => Trip(x) \/ x = NewOffer, MakeOffer PROVE FreshInv'
  <2>1. next \in Nat /\ Ids \subseteq Nat
    BY SignallingAssumption DEF ShapeInv, TypeOK, Ids
  <2> QED
    BY <1>2, <2>1 DEF FreshInv, MakeOffer, NewOffer
<1>3. ASSUME UNCHANGED <<share, share_offer, c2s, s2c, taking, sfu_answer, sfu_renegotiate, hand, next>>
      PROVE  FreshInv'
  BY <1>1, <1>3 DEF ClientTrip, Sharing, ServerTrip
<1>4. ASSUME NEW c \in Channels, Connect(c) PROVE FreshInv'
  <2>1. ShareSame
    BY <1>4 DEF Connect, ShareSame
  <2>2. [type |-> "offer", channel |-> c, id |-> NewOffer] \in FromClient
    BY NewOfferIsNew, <1>4 DEF Connect, FromClient, ShapeInv
  <2>3. \A x, type : Has(c2s', type, x) => Has(c2s, type, x) \/ x = NewOffer
    BY <2>2, SentByClient, <1>4 DEF Connect
  <2> QED
    BY <1>2, <2>1, <2>3, SharingSame, <1>4 DEF Connect, ClientTrip, ServerTrip, slotVars, serverVars
<1>5. ASSUME NEW c \in Channels, Push(c) PROVE FreshInv'
  <2>1. [type |-> "renegotiate", id |-> NewOffer] \in FromServer
    BY NewOfferIsNew, <1>5 DEF Push, FromServer, ShapeInv
  <2>2. \A x, type : Has(s2c', type, x) => Has(s2c, type, x) \/ x = NewOffer
    BY <2>1, SentByServer, <1>5 DEF Push
  <2> QED
    BY <1>2, <2>2, <1>5 DEF Push, ClientTrip, Sharing, ServerTrip, clientVars, slotVars, shareVars
<1>6. ASSUME Disconnect PROVE FreshInv'
  <2>1. ShareSame
    BY <1>6 DEF Disconnect, NoConnection, ShareSame, ShapeInv, TypeOK
  <2> QED
    BY <1>1, <2>1, SharingSame, <1>6 DEF Disconnect, NoConnection, ClientTrip, ServerTrip, slotVars, serverVars
<1>7. ASSUME GatheringEnds PROVE FreshInv'
  BY <1>3, <1>7 DEF GatheringEnds, slotVars, shareVars, serverVars, clientVars
<1>8. ASSUME TakeAnswer PROVE FreshInv'
  <2>1. sfu_answer' = NoOffer /\ NoOffer \notin Ids
    BY <1>8 DEF TakeAnswer, AnswerTaken, Ids, NoOffer
  <2> QED
    BY <1>1, <2>1, <1>8 DEF TakeAnswer, ClientTrip, Sharing, ServerTrip, shareVars, serverVars
<1>9. ASSUME TakeRenegotiate PROVE FreshInv'
  <2>1. NoOffer \notin Ids
    BY DEF Ids, NoOffer
  <2> QED
    BY <1>1, <2>1, <1>9 DEF TakeRenegotiate, ClientTrip, Sharing, ServerTrip, shareVars, serverVars
<1>10. ASSUME PutBack PROVE FreshInv'
  <2>1. NoOffer \notin Ids
    BY DEF Ids, NoOffer
  <2> QED
    BY <1>1, <2>1, <1>10 DEF PutBack, PutBackValue, ClientTrip, Sharing, ServerTrip, shareVars, serverVars
<1>11. ASSUME Renegotiate PROVE FreshInv'
  BY <1>3, <1>11 DEF Renegotiate, slotVars, shareVars, serverVars, clientVars
<1>12. ASSUME AnswerBack PROVE FreshInv'
  <2>1. NoOffer \notin Ids /\ [type |-> "answer", id |-> hand] \in FromClient
    BY <1>12 DEF AnswerBack, FromClient, ShapeInv, TypeOK, Ids, NoOffer
  <2>2. \A x, type : Has(c2s', type, x) => Has(c2s, type, x) \/ (type = "answer" /\ x = hand)
    BY <2>1, SentByClient, <1>12 DEF AnswerBack
  <2> QED
    BY <1>1, <2>1, <2>2, <1>12 DEF AnswerBack, ClientTrip, Sharing, ServerTrip, shareVars, serverVars
<1>13. ASSUME Read PROVE FreshInv'
  <2>1. \A x, type : Has(s2c', type, x) => Has(s2c, type, x)
    BY TakenByClient, <1>13 DEF Read
  <2>2. Head(s2c).type \in {"answer", "renegotiate"} /\ Has(s2c, Head(s2c).type, Head(s2c).id)
    BY TakenByClient, <1>13 DEF Read, FromServer
  <2> QED
    BY <1>1, <2>1, <2>2, <1>13 DEF Read, ClientTrip, Sharing, ServerTrip, shareVars, serverVars
<1>14. ASSUME TakeOffer PROVE FreshInv'
  <2>1. \A x, type : Has(c2s', type, x) => Has(c2s, type, x)
    BY TakenByServer, <1>14 DEF TakeOffer
  <2>2. Has(c2s, "offer", Head(c2s).id)
    BY TakenByServer, <1>14 DEF TakeOffer
  <2> QED
    BY <1>1, <2>1, <2>2, <1>14 DEF TakeOffer, ClientTrip, Sharing, ServerTrip, clientVars, slotVars, shareVars
<1>15. ASSUME SendAnswer PROVE FreshInv'
  <2>1. NoOffer \notin Ids /\ [type |-> "answer", id |-> taking] \in FromServer /\ s2c \in Seq(FromServer)
    BY <1>15 DEF SendAnswer, FromServer, ShapeInv, TypeOK, Ids, NoOffer
  <2>2. s2c' = Append(s2c, [type |-> "answer", id |-> taking])
    BY <2>1, <1>15 DEF SendAnswer, AnswerTo
  <2>3. \A x, type : Has(s2c', type, x) => Has(s2c, type, x) \/ (type = "answer" /\ x = taking)
    BY <2>1, <2>2, SentByServer
  <2> QED
    BY <1>1, <2>1, <2>3, <1>15 DEF SendAnswer, ClientTrip, Sharing, ServerTrip, clientVars, slotVars, shareVars
<1>16. ASSUME TakeSfuAnswer PROVE FreshInv'
  <2>1. \A x, type : Has(c2s', type, x) => Has(c2s, type, x)
    BY TakenByServer, <1>16 DEF TakeSfuAnswer
  <2> QED
    BY <1>1, <2>1, <1>16 DEF TakeSfuAnswer, ClientTrip, Sharing, ServerTrip, clientVars, slotVars, shareVars
<1>17. ASSUME NEW s \in Shares, StartShare(s) PROVE FreshInv'
  <2>1. ShareSame
    BY <1>17 DEF StartShare, At, ShareSame, ShapeInv, TypeOK
  <2> QED
    BY <1>1, <2>1, SharingSame, <1>17 DEF StartShare, ClientTrip, ServerTrip, slotVars, serverVars
<1>18. ASSUME NEW s \in Shares, CheckScreen(s) PROVE FreshInv'
  <2>1. ShareSame
    BY <1>18 DEF CheckScreen, At, ShareSame, ShapeInv, TypeOK
  <2> QED
    BY <1>1, <2>1, SharingSame, <1>18 DEF CheckScreen, ClientTrip, ServerTrip, slotVars, serverVars
<1>19. ASSUME NEW s \in Shares, AddScreen(s) PROVE FreshInv'
  <2>1. ShareSame
    BY <1>19 DEF AddScreen, At, ShareSame, ShapeInv, TypeOK
  <2> QED
    BY <1>1, <2>1, SharingSame, <1>19 DEF AddScreen, ClientTrip, ServerTrip, slotVars, serverVars
<1>20. ASSUME NEW s \in Shares, OfferScreen(s) PROVE FreshInv'
  <2>1. \A x : Sharing(x)' => Sharing(x) \/ x = NewOffer
    BY <1>20 DEF OfferScreen, At, Sharing, ShapeInv, TypeOK
  <2> QED
    BY <1>2, <2>1, <1>20 DEF OfferScreen, ClientTrip, ServerTrip, slotVars, serverVars
<1>21. ASSUME NEW s \in Shares, ShareFails(s) PROVE FreshInv'
  <2>1. ShareSame
    BY <1>21 DEF ShareFails, At, ShareSame, ShapeInv, TypeOK
  <2> QED
    BY <1>1, <2>1, SharingSame, <1>21 DEF ShareFails, ClientTrip, ServerTrip, slotVars, serverVars
<1>22. ASSUME NEW s \in Shares, SendShare(s) PROVE FreshInv'
  <2>1. share[s] = "sending" /\ share_offer[s] \in Ids
    BY <1>22 DEF SendShare, At, ShapeInv, TypeOK, StateInv
  <2>2. \A x : Sharing(x)' => Sharing(x)
    BY <1>22 DEF SendShare, At, Sharing, ShapeInv, TypeOK
  <2>3. \A x, type : Has(c2s', type, x) => Has(c2s, type, x) \/ (type = "offer" /\ x = share_offer[s])
    <3>1. ASSUME NEW c \in Channels,
                 c2s' = Append(c2s, [type |-> "offer", channel |-> c, id |-> share_offer[s]])
          PROVE  \A x, type : Has(c2s', type, x) => Has(c2s, type, x) \/ (type = "offer" /\ x = share_offer[s])
      <4>1. [type |-> "offer", channel |-> c, id |-> share_offer[s]] \in FromClient
        BY <2>1 DEF FromClient
      <4> QED
        BY <3>1, <4>1, SentByClient
    <3> QED
      BY <3>1, <1>22 DEF SendShare
  <2>4. Sharing(share_offer[s])
    BY <2>1 DEF Sharing
  <2> QED
    BY <1>1, <2>2, <2>3, <2>4, <1>22 DEF SendShare, ClientTrip, ServerTrip, slotVars, serverVars
<1>23. ASSUME Cleanup PROVE FreshInv'
  BY <1>3, <1>23 DEF Cleanup, NoConnection, slotVars, serverVars
<1>24. ASSUME NEW s \in Shares, OfferStray(s) PROVE FreshInv'
  <2>1. \A x : Sharing(x)' => Sharing(x) \/ x = NewOffer
    BY <1>24 DEF OfferStray, At, Sharing, ShapeInv, TypeOK
  <2> QED
    BY <1>2, <2>1, <1>24 DEF OfferStray, ClientTrip, ServerTrip, slotVars, serverVars
<1> QED
  BY NextCases, <1>4, <1>5, <1>6, <1>7, <1>8, <1>9, <1>10, <1>11, <1>12, <1>13, <1>14,
     <1>15, <1>16, <1>17, <1>18, <1>19, <1>20, <1>21, <1>22, <1>23, <1>24

(* A new offer is in none of the places.                                   *)
LEMMA NewIsNowhere ==
    ASSUME ShapeInv, FreshInv, MakeOffer
    PROVE  NewOffer \in Ids /\ ~ClientTrip(NewOffer) /\ ~ServerTrip(NewOffer)
<1>1. NewOffer \in Ids
  BY NewOfferIsNew DEF ShapeInv
<1>2. next \in Nat /\ NewOffer = next + 1
  BY DEF ShapeInv, TypeOK, NewOffer
<1> QED
  BY <1>1, <1>2 DEF FreshInv

-----------------------------------------------------------------------------
(* It is in one place.                                                     *)
ClientOnce ==
    /\ Once(c2s, "offer") /\ Once(s2c, "answer")
    /\ \A s, r \in Shares : share[s] = "sending" /\ share[r] = "sending"
                            /\ share_offer[s] = share_offer[r] => s = r
    /\ \A x \in Ids :
          /\ Sharing(x) => ~Has(c2s, "offer", x) /\ taking # x /\ ~Has(s2c, "answer", x) /\ sfu_answer # x
          /\ Has(c2s, "offer", x) => taking # x /\ ~Has(s2c, "answer", x) /\ sfu_answer # x
          /\ taking = x => ~Has(s2c, "answer", x) /\ sfu_answer # x
          /\ Has(s2c, "answer", x) => sfu_answer # x

(* Until it arrives it is the client's offer, or superseded.               *)
ClientLive == \A x \in Ids : ClientTrip(x) => x \in superseded \/ x = client_offer

ClientInv == ClientOnce /\ ClientLive

(* Every action keeps it: an offer moves from place to place, and when it  *)
(* stops being the client's it is superseded or has just arrived.          *)
LEMMA ClientStep == ASSUME ShapeInv, FreshInv, ClientInv, Next PROVE ClientInv'
<1>0. NoOffer \notin Ids /\ superseded \subseteq superseded'
  BY HistoryGrows DEF Ids, NoOffer
<1>1. ASSUME ShareSame, UNCHANGED <<taking, sfu_answer>>,
             client_offer' = client_offer \/ client_offer \in superseded' \/ client_offer = NoOffer,
             \A x : Has(c2s', "offer", x) <=> Has(c2s, "offer", x),
             \A x : Has(s2c', "answer", x) <=> Has(s2c, "answer", x),
             Once(c2s', "offer"), Once(s2c', "answer")
      PROVE  ClientInv'
  <2>1. \A x : Sharing(x)' <=> Sharing(x)
    BY <1>1, SharingSame
  <2>2. ClientOnce'
    BY <1>1, <2>1 DEF ClientInv, ClientOnce, ShareSame
  <2>3. ClientLive'
    BY <1>0, <1>1, <2>1 DEF ClientInv, ClientLive, ClientTrip
  <2> QED
    BY <2>2, <2>3 DEF ClientInv
<1>2. Once(c2s, "offer") /\ Once(s2c, "answer")
  BY DEF ClientInv, ClientOnce
<1>3. ASSUME UNCHANGED <<share, share_offer, taking, sfu_answer, client_offer, c2s, s2c>> PROVE ClientInv'
  BY <1>1, <1>2, <1>3 DEF ShareSame
<1>4. ASSUME NEW c \in Channels, Connect(c) PROVE ClientInv'
  <2>1. ShareSame
    BY <1>4 DEF Connect, ShareSame
  <2>2. NewOffer \in Ids /\ ~ClientTrip(NewOffer)
    BY NewIsNowhere, <1>4 DEF Connect
  <2>3. [type |-> "offer", channel |-> c, id |-> NewOffer] \in FromClient
    BY <2>2, <1>4 DEF Connect, FromClient
  <2>4. /\ \A x : Has(c2s', "offer", x) <=> Has(c2s, "offer", x) \/ x = NewOffer
        /\ Once(c2s', "offer")
    BY <1>2, <2>2, <2>3, SentByClient, <1>4 DEF Connect, ClientTrip
  <2>5. \A x : Sharing(x)' <=> Sharing(x)
    BY <2>1, SharingSame
  <2>6. UNCHANGED <<taking, sfu_answer, s2c>> /\ client_offer' = NewOffer
        /\ (client_offer = NoOffer \/ client_offer \in superseded')
    BY <1>4 DEF Connect, Outstanding, slotVars, serverVars
  <2>7. ClientOnce'
    BY <2>1, <2>2, <2>4, <2>5, <2>6 DEF ClientInv, ClientOnce, ClientTrip, ShareSame
  <2>8. ClientLive'
    BY <1>0, <2>4, <2>5, <2>6 DEF ClientInv, ClientLive, ClientTrip
  <2> QED
    BY <2>7, <2>8 DEF ClientInv
<1>5. ASSUME NEW c \in Channels, Push(c) PROVE ClientInv'
  <2>1. [type |-> "renegotiate", id |-> NewOffer] \in FromServer
    BY NewOfferIsNew, <1>5 DEF Push, FromServer, ShapeInv
  <2>2. /\ \A x : Has(s2c', "answer", x) <=> Has(s2c, "answer", x)
        /\ Once(s2c', "answer")
    BY <1>2, <2>1, SentByServer, <1>5 DEF Push
  <2> QED
    BY <1>1, <1>2, <2>2, <1>5 DEF Push, ShareSame, clientVars, slotVars, shareVars
<1>6. ASSUME Disconnect PROVE ClientInv'
  <2>1. ShareSame
    BY <1>6 DEF Disconnect, NoConnection, ShareSame, ShapeInv, TypeOK
  <2>2. client_offer = NoOffer \/ client_offer \in superseded'
    BY <1>6 DEF Disconnect, NoConnection, Outstanding
  <2> QED
    BY <1>1, <1>2, <2>1, <2>2, <1>6 DEF Disconnect, NoConnection, slotVars, serverVars
<1>7. ASSUME GatheringEnds PROVE ClientInv'
  BY <1>3, <1>7 DEF GatheringEnds, slotVars, shareVars, serverVars
<1>8. ASSUME TakeAnswer PROVE ClientInv'
  <2>1. UNCHANGED <<share, share_offer, c2s, s2c, taking>> /\ sfu_answer' = NoOffer /\ sfu_answer # NoOffer
    BY <1>8 DEF TakeAnswer, AnswerTaken, shareVars, serverVars
  <2>2. \/ client_offer' = client_offer
        \/ client_offer = sfu_answer
        \/ client_offer \in superseded'
    BY <1>8 DEF TakeAnswer, Settle
  <2>3. \A x : Sharing(x)' <=> Sharing(x)
    BY <2>1 DEF Sharing
  <2>4. ClientOnce'
    BY <1>0, <2>1, <2>3 DEF ClientInv, ClientOnce
  <2>5. ASSUME NEW x \in Ids, ClientTrip(x)' PROVE x \in superseded' \/ x = client_offer'
    <3>1. ClientTrip(x) /\ x # sfu_answer
      BY <1>0, <2>1, <2>3, <2>5 DEF ClientInv, ClientOnce, ClientTrip
    <3> QED
      BY <1>0, <2>2, <3>1 DEF ClientInv, ClientLive
  <2> QED
    BY <2>4, <2>5 DEF ClientInv, ClientLive
<1>9. ASSUME TakeRenegotiate PROVE ClientInv'
  BY <1>3, <1>9 DEF TakeRenegotiate, shareVars, serverVars
<1>10. ASSUME PutBack PROVE ClientInv'
  BY <1>3, <1>10 DEF PutBack, shareVars, serverVars
<1>11. ASSUME Renegotiate PROVE ClientInv'
  BY <1>3, <1>11 DEF Renegotiate, slotVars, shareVars, serverVars
<1>12. ASSUME AnswerBack PROVE ClientInv'
  <2>1. [type |-> "answer", id |-> hand] \in FromClient
    BY <1>12 DEF AnswerBack, FromClient, ShapeInv, TypeOK
  <2>2. /\ \A x : Has(c2s', "offer", x) <=> Has(c2s, "offer", x)
        /\ Once(c2s', "offer")
    BY <1>2, <2>1, SentByClient, <1>12 DEF AnswerBack
  <2> QED
    BY <1>1, <1>2, <2>2, <1>12 DEF AnswerBack, ShareSame, shareVars, serverVars
<1>13. ASSUME Read PROVE ClientInv'
  <2> DEFINE id == Head(s2c).id
  <2>1. UNCHANGED <<share, share_offer, c2s, taking, client_offer>>
    BY <1>13 DEF Read, shareVars, serverVars
  <2>2. /\ \A x : Has(s2c, "answer", x) <=> Has(s2c', "answer", x) \/ (Head(s2c).type = "answer" /\ x = id)
        /\ Once(s2c', "answer") /\ id \in Ids
        /\ Head(s2c).type = "answer" => ~Has(s2c', "answer", id)
    BY <1>2, TakenByClient, <1>13 DEF Read
  <2>3. \A x : Sharing(x)' <=> Sharing(x)
    BY <2>1 DEF Sharing
  <2>4. CASE Head(s2c).type = "answer"
    <3>1. sfu_answer' = id
      BY <2>4, <1>13 DEF Read
    <3>2. ClientOnce'
      BY <1>2, <2>1, <2>2, <2>3, <2>4, <3>1 DEF ClientInv, ClientOnce
    <3>3. ClientLive'
      BY <1>0, <2>1, <2>2, <2>3, <2>4, <3>1 DEF ClientInv, ClientLive, ClientTrip
    <3> QED
      BY <3>2, <3>3 DEF ClientInv
  <2>5. CASE Head(s2c).type # "answer"
    BY <1>1, <1>2, <2>1, <2>2, <2>5, <1>13 DEF Read, ShareSame
  <2> QED
    BY <2>4, <2>5
<1>14. ASSUME TakeOffer PROVE ClientInv'
  <2> DEFINE id == Head(c2s).id
  <2>1. UNCHANGED <<share, share_offer, s2c, sfu_answer, client_offer>> /\ taking = NoOffer
    BY <1>14 DEF TakeOffer, clientVars, slotVars, shareVars
  <2>2. /\ \A x : Has(c2s, "offer", x) <=> Has(c2s', "offer", x) \/ x = id
        /\ Once(c2s', "offer") /\ id \in Ids /\ ~Has(c2s', "offer", id)
    BY <1>2, TakenByServer, <1>14 DEF TakeOffer
  <2>3. \A x : Sharing(x)' <=> Sharing(x)
    BY <2>1 DEF Sharing
  <2>4. taking' \in {NoOffer, id}
    BY <2>1, <1>14 DEF TakeOffer
  <2>5. ClientOnce'
    BY <1>0, <2>1, <2>2, <2>3, <2>4 DEF ClientInv, ClientOnce
  <2>6. ClientLive'
    BY <1>0, <2>1, <2>2, <2>3, <2>4 DEF ClientInv, ClientLive, ClientTrip
  <2> QED
    BY <2>5, <2>6 DEF ClientInv
<1>15. ASSUME SendAnswer PROVE ClientInv'
  <2>1. [type |-> "answer", id |-> taking] \in FromServer /\ s2c \in Seq(FromServer) /\ taking \in Ids
    BY <1>15 DEF SendAnswer, FromServer, ShapeInv, TypeOK
  <2>2. s2c' = Append(s2c, [type |-> "answer", id |-> taking])
    BY <2>1, <1>15 DEF SendAnswer, AnswerTo
  <2>3. ~Has(s2c, "answer", taking)
    BY <2>1 DEF ClientInv, ClientOnce
  <2>4. /\ \A x : Has(s2c', "answer", x) <=> Has(s2c, "answer", x) \/ x = taking
        /\ Once(s2c', "answer")
    BY <1>2, <2>1, <2>2, <2>3, SentByServer
  <2>5. UNCHANGED <<share, share_offer, c2s, sfu_answer, client_offer>> /\ taking' = NoOffer
    BY <1>15 DEF SendAnswer, clientVars, slotVars, shareVars
  <2>6. \A x : Sharing(x)' <=> Sharing(x)
    BY <2>5 DEF Sharing
  <2>7. ClientOnce'
    BY <1>0, <2>1, <2>4, <2>5, <2>6 DEF ClientInv, ClientOnce
  <2>8. ClientLive'
    BY <1>0, <2>1, <2>4, <2>5, <2>6 DEF ClientInv, ClientLive, ClientTrip
  <2> QED
    BY <2>7, <2>8 DEF ClientInv
<1>16. ASSUME TakeSfuAnswer PROVE ClientInv'
  <2>1. /\ \A x : Has(c2s', "offer", x) <=> Has(c2s, "offer", x)
        /\ Once(c2s', "offer")
    BY <1>2, TakenByServer, <1>16 DEF TakeSfuAnswer
  <2> QED
    BY <1>1, <1>2, <2>1, <1>16 DEF TakeSfuAnswer, ShareSame, clientVars, slotVars, shareVars
<1>17. ASSUME NEW s \in Shares, StartShare(s) PROVE ClientInv'
  <2>1. ShareSame
    BY <1>17 DEF StartShare, At, ShareSame, ShapeInv, TypeOK
  <2> QED
    BY <1>1, <1>2, <2>1, <1>17 DEF StartShare, slotVars, serverVars
<1>18. ASSUME NEW s \in Shares, CheckScreen(s) PROVE ClientInv'
  <2>1. ShareSame
    BY <1>18 DEF CheckScreen, At, ShareSame, ShapeInv, TypeOK
  <2> QED
    BY <1>1, <1>2, <2>1, <1>18 DEF CheckScreen, slotVars, serverVars
<1>19. ASSUME NEW s \in Shares, AddScreen(s) PROVE ClientInv'
  <2>1. ShareSame
    BY <1>19 DEF AddScreen, At, ShareSame, ShapeInv, TypeOK
  <2> QED
    BY <1>1, <1>2, <2>1, <1>19 DEF AddScreen, slotVars, serverVars
<1>20. ASSUME NEW s \in Shares, OfferScreen(s) PROVE ClientInv'
  <2>1. NewOffer \in Ids /\ ~ClientTrip(NewOffer)
    BY NewIsNowhere, <1>20 DEF OfferScreen
  <2>2. /\ share'[s] = "sending" /\ share_offer'[s] = NewOffer /\ share[s] # "sending"
        /\ \A r \in Shares \ {s} : share'[r] = share[r] /\ share_offer'[r] = share_offer[r]
    BY <1>20 DEF OfferScreen, At, ShapeInv, TypeOK
  <2>3. \A x : Sharing(x)' <=> Sharing(x) \/ x = NewOffer
    BY <2>2 DEF Sharing
  <2>4. UNCHANGED <<c2s, s2c, taking, sfu_answer>> /\ client_offer' = NewOffer
        /\ (client_offer = NoOffer \/ client_offer \in superseded')
    BY <1>20 DEF OfferScreen, Outstanding, slotVars, serverVars
  <2>5. \A q, r \in Shares : share'[q] = "sending" /\ share'[r] = "sending" /\ share_offer'[q] = share_offer'[r] => q = r
    BY <2>1, <2>2 DEF ClientInv, ClientOnce, ClientTrip, Sharing
  <2>6. ClientOnce'
    BY <2>1, <2>3, <2>4, <2>5 DEF ClientInv, ClientOnce, ClientTrip
  <2>7. ClientLive'
    BY <1>0, <2>3, <2>4 DEF ClientInv, ClientLive, ClientTrip
  <2> QED
    BY <2>6, <2>7 DEF ClientInv
<1>21. ASSUME NEW s \in Shares, ShareFails(s) PROVE ClientInv'
  <2>1. ShareSame
    BY <1>21 DEF ShareFails, At, ShareSame, ShapeInv, TypeOK
  <2> QED
    BY <1>1, <1>2, <2>1, <1>21 DEF ShareFails, slotVars, serverVars
<1>22. ASSUME NEW s \in Shares, SendShare(s) PROVE ClientInv'
  <2> DEFINE id == share_offer[s]
  <2>1. share[s] = "sending" /\ id \in Ids /\ Sharing(id)
    BY <1>22 DEF SendShare, At, ShapeInv, TypeOK, StateInv, Sharing
  <2>2. /\ share'[s] = "over"
        /\ \A r \in Shares \ {s} : share'[r] = share[r] /\ share_offer'[r] = share_offer[r]
    BY <1>22 DEF SendShare, At, ShapeInv, TypeOK
  <2>3. \A x \in Ids : Sharing(x)' <=> Sharing(x) /\ x # id
    BY <2>1, <2>2 DEF Sharing, ClientInv, ClientOnce
  <2>4. /\ \A x : Has(c2s', "offer", x) => Has(c2s, "offer", x) \/ x = id
        /\ Once(c2s', "offer")
    <3>1. CASE c2s' = c2s
      BY <1>2, <3>1
    <3>2. ASSUME NEW c \in Channels,
                 c2s' = Append(c2s, [type |-> "offer", channel |-> c, id |-> share_offer[s]])
          PROVE  /\ \A x : Has(c2s', "offer", x) => Has(c2s, "offer", x) \/ x = id
                 /\ Once(c2s', "offer")
      <4>1. [type |-> "offer", channel |-> c, id |-> share_offer[s]] \in FromClient
        BY <2>1 DEF FromClient
      <4>2. ~Has(c2s, "offer", id)
        BY <2>1 DEF ClientInv, ClientOnce
      <4> QED
        BY <1>2, <3>2, <4>1, <4>2, SentByClient
    <3> QED
      BY <3>1, <3>2, <1>22 DEF SendShare
  <2>5. UNCHANGED <<s2c, taking, sfu_answer, client_offer>>
    BY <1>22 DEF SendShare, slotVars, serverVars
  <2>6. ClientOnce'
    BY <2>1, <2>2, <2>3, <2>4, <2>5 DEF ClientInv, ClientOnce
  <2>7. ClientLive'
    BY <1>0, <2>1, <2>3, <2>4, <2>5 DEF ClientInv, ClientLive, ClientTrip
  <2> QED
    BY <2>6, <2>7 DEF ClientInv
<1>23. ASSUME Cleanup PROVE ClientInv'
  <2>1. client_offer = NoOffer \/ client_offer \in superseded'
    BY <1>23 DEF Cleanup, NoConnection, Outstanding
  <2> QED
    BY <1>1, <1>2, <2>1, <1>23 DEF Cleanup, NoConnection, ShareSame, slotVars, serverVars
<1>24. ASSUME NEW s \in Shares, OfferStray(s) PROVE ClientInv'
  <2>1. NewOffer \in Ids /\ ~ClientTrip(NewOffer)
    BY NewIsNowhere, <1>24 DEF OfferStray
  <2>2. /\ share'[s] = "sending" /\ share_offer'[s] = NewOffer /\ share[s] # "sending"
        /\ \A r \in Shares \ {s} : share'[r] = share[r] /\ share_offer'[r] = share_offer[r]
    BY <1>24 DEF OfferStray, At, ShapeInv, TypeOK
  <2>3. \A x : Sharing(x)' <=> Sharing(x) \/ x = NewOffer
    BY <2>2 DEF Sharing
  <2>4. UNCHANGED <<c2s, s2c, taking, sfu_answer, client_offer>> /\ NewOffer \in superseded'
    BY <1>24 DEF OfferStray, slotVars, serverVars
  <2>5. \A q, r \in Shares : share'[q] = "sending" /\ share'[r] = "sending" /\ share_offer'[q] = share_offer'[r] => q = r
    BY <2>1, <2>2 DEF ClientInv, ClientOnce, ClientTrip, Sharing
  <2>6. ClientOnce'
    BY <2>1, <2>3, <2>4, <2>5 DEF ClientInv, ClientOnce, ClientTrip
  <2>7. ClientLive'
    BY <1>0, <2>3, <2>4 DEF ClientInv, ClientLive, ClientTrip
  <2> QED
    BY <2>6, <2>7 DEF ClientInv
<1> QED
  BY NextCases, <1>4, <1>5, <1>6, <1>7, <1>8, <1>9, <1>10, <1>11, <1>12, <1>13, <1>14,
     <1>15, <1>16, <1>17, <1>18, <1>19, <1>20, <1>21, <1>22, <1>23, <1>24

-----------------------------------------------------------------------------
(* The server's offers, on their way through the other slot.               *)
ServerOnce ==
    /\ Once(s2c, "renegotiate") /\ Once(c2s, "answer")
    /\ \A x \in Ids :
          /\ Has(s2c, "renegotiate", x) => sfu_renegotiate # x /\ hand # x /\ ~Has(c2s, "answer", x)
          /\ sfu_renegotiate = x => hand # x /\ ~Has(c2s, "answer", x)
          /\ hand = x => ~Has(c2s, "answer", x)

Offered(x) == \E c \in Channels : server_offer[c] = x
ServerLive == \A x \in Ids : ServerTrip(x) => x \in superseded \/ Offered(x)

ServerInv == ServerOnce /\ ServerLive

(* Every action keeps it.                                                  *)
LEMMA ServerStep == ASSUME ShapeInv, FreshInv, ServerInv, Next PROVE ServerInv'
<1>0. NoOffer \notin Ids /\ superseded \subseteq superseded'
  BY HistoryGrows DEF Ids, NoOffer
<1>1. ASSUME UNCHANGED <<sfu_renegotiate, hand, server_offer>>,
             \A x : Has(c2s', "answer", x) <=> Has(c2s, "answer", x),
             \A x : Has(s2c', "renegotiate", x) <=> Has(s2c, "renegotiate", x),
             Once(c2s', "answer"), Once(s2c', "renegotiate")
      PROVE  ServerInv'
  BY <1>0, <1>1 DEF ServerInv, ServerOnce, ServerLive, ServerTrip, Offered
<1>2. Once(c2s, "answer") /\ Once(s2c, "renegotiate")
  BY DEF ServerInv, ServerOnce
<1>3. ASSUME UNCHANGED <<sfu_renegotiate, hand, server_offer, c2s, s2c>> PROVE ServerInv'
  BY <1>1, <1>2, <1>3
<1>4. ASSUME NEW c \in Channels, Connect(c) PROVE ServerInv'
  <2>1. [type |-> "offer", channel |-> c, id |-> NewOffer] \in FromClient
    BY NewOfferIsNew, <1>4 DEF Connect, FromClient, ShapeInv
  <2>2. /\ \A x : Has(c2s', "answer", x) <=> Has(c2s, "answer", x)
        /\ Once(c2s', "answer")
    BY <1>2, <2>1, SentByClient, <1>4 DEF Connect
  <2> QED
    BY <1>1, <1>2, <2>2, <1>4 DEF Connect, slotVars, serverVars
<1>5. ASSUME NEW c \in Channels, Push(c) PROVE ServerInv'
  <2> DEFINE new == next + 1
  <2>0. new \in Ids /\ ~ServerTrip(new) /\ new = NewOffer
    BY NewIsNowhere, <1>5 DEF Push, NewOffer
  <2>1. \E x \in Ids : /\ ~ServerTrip(x) /\ s2c' = Append(s2c, [type |-> "renegotiate", id |-> x])
                     /\ server_offer' = [server_offer EXCEPT ![c] = x]
    BY <2>0, <1>5 DEF Push
  <2>2. PICK x \in Ids : /\ ~ServerTrip(x) /\ s2c' = Append(s2c, [type |-> "renegotiate", id |-> x])
                       /\ server_offer' = [server_offer EXCEPT ![c] = x]
    BY <2>1
  <2>3. [type |-> "renegotiate", id |-> x] \in FromServer /\ s2c \in Seq(FromServer)
    BY <2>2 DEF FromServer, ShapeInv, TypeOK
  <2>4. /\ \A y : Has(s2c', "renegotiate", y) <=> Has(s2c, "renegotiate", y) \/ x = y
        /\ Once(s2c', "renegotiate")
    BY <1>2, <2>2, <2>3, SentByServer DEF ServerTrip
  <2>5. UNCHANGED <<sfu_renegotiate, hand, c2s>>
    BY <1>5 DEF Push, clientVars, slotVars
  <2>6. \A y \in Ids : Offered(y) => y \in superseded' \/ Offered(y)'
    <3>1. superseded' = superseded \cup ({server_offer[c]} \ {NoOffer}) /\ server_offer \in [Channels -> Ids \cup {NoOffer}]
      BY <1>5 DEF Push, ShapeInv, TypeOK
    <3> QED
      BY <1>0, <2>2, <3>1 DEF Offered
  <2>7. Offered(x)'
    BY <2>2 DEF Offered, ShapeInv, TypeOK
  <2>8. ServerOnce'
    BY <2>2, <2>4, <2>5 DEF ServerInv, ServerOnce, ServerTrip
  <2>9. ServerLive'
    BY <1>0, <2>4, <2>5, <2>6, <2>7 DEF ServerInv, ServerLive, ServerTrip
  <2> QED
    BY <2>8, <2>9 DEF ServerInv
<1>6. ASSUME Disconnect PROVE ServerInv'
  BY <1>3, <1>6 DEF Disconnect, NoConnection, slotVars, serverVars
<1>7. ASSUME GatheringEnds PROVE ServerInv'
  BY <1>3, <1>7 DEF GatheringEnds, slotVars, serverVars
<1>8. ASSUME TakeAnswer PROVE ServerInv'
  BY <1>3, <1>8 DEF TakeAnswer, serverVars
<1>9. ASSUME TakeRenegotiate PROVE ServerInv'
  <2>1. UNCHANGED <<c2s, s2c, server_offer>> /\ hand' = sfu_renegotiate /\ sfu_renegotiate' = NoOffer /\ hand = NoOffer
    BY <1>9 DEF TakeRenegotiate, serverVars
  <2>2. ServerOnce'
    BY <1>0, <2>1 DEF ServerInv, ServerOnce
  <2>3. ServerLive'
    BY <1>0, <2>1 DEF ServerInv, ServerLive, ServerTrip, Offered
  <2> QED
    BY <2>2, <2>3 DEF ServerInv
<1>10. ASSUME PutBack PROVE ServerInv'
  <2>1. UNCHANGED <<c2s, s2c, server_offer>> /\ hand' = NoOffer /\ sfu_renegotiate' = hand
    BY <1>10 DEF PutBack, PutBackValue, serverVars
  <2>2. ServerOnce'
    BY <1>0, <2>1 DEF ServerInv, ServerOnce
  <2>3. ServerLive'
    BY <1>0, <2>1 DEF ServerInv, ServerLive, ServerTrip, Offered
  <2> QED
    BY <2>2, <2>3 DEF ServerInv
<1>11. ASSUME Renegotiate PROVE ServerInv'
  BY <1>3, <1>11 DEF Renegotiate, slotVars, serverVars
<1>12. ASSUME AnswerBack PROVE ServerInv'
  <2>1. [type |-> "answer", id |-> hand] \in FromClient /\ hand \in Ids
    BY <1>12 DEF AnswerBack, FromClient, ShapeInv, TypeOK
  <2>2. ~Has(c2s, "answer", hand)
    BY <2>1 DEF ServerInv, ServerOnce
  <2>3. /\ \A x : Has(c2s', "answer", x) <=> Has(c2s, "answer", x) \/ x = hand
        /\ Once(c2s', "answer")
    BY <1>2, <2>1, <2>2, SentByClient, <1>12 DEF AnswerBack
  <2>4. UNCHANGED <<s2c, sfu_renegotiate, server_offer>> /\ hand' = NoOffer
    BY <1>12 DEF AnswerBack, serverVars
  <2>5. ServerOnce'
    BY <1>0, <2>1, <2>3, <2>4 DEF ServerInv, ServerOnce
  <2>6. ServerLive'
    BY <1>0, <2>1, <2>3, <2>4 DEF ServerInv, ServerLive, ServerTrip, Offered
  <2> QED
    BY <2>5, <2>6 DEF ServerInv
<1>13. ASSUME Read PROVE ServerInv'
  <2> DEFINE id == Head(s2c).id
  <2>1. UNCHANGED <<c2s, hand, server_offer>>
    BY <1>13 DEF Read, serverVars
  <2>2. /\ \A x : Has(s2c, "renegotiate", x) <=> Has(s2c', "renegotiate", x) \/ (Head(s2c).type = "renegotiate" /\ x = id)
        /\ Once(s2c', "renegotiate") /\ id \in Ids
        /\ Head(s2c).type = "renegotiate" => ~Has(s2c', "renegotiate", id)
    BY <1>2, TakenByClient, <1>13 DEF Read
  <2>3. CASE Head(s2c).type = "answer"
    BY <1>1, <1>2, <2>1, <2>2, <2>3, <1>13 DEF Read
  <2>4. CASE Head(s2c).type = "renegotiate"
    <3>1. sfu_renegotiate' = id
      BY <2>4, <1>13 DEF Read
    <3>2. ServerOnce'
      BY <1>2, <2>1, <2>2, <2>4, <3>1 DEF ServerInv, ServerOnce
    <3>3. ServerLive'
      BY <1>0, <2>1, <2>2, <2>4, <3>1 DEF ServerInv, ServerLive, ServerTrip, Offered
    <3> QED
      BY <3>2, <3>3 DEF ServerInv
  <2>5. Head(s2c).type \in {"answer", "renegotiate"}
    BY TakenByClient, <1>13 DEF Read, FromServer
  <2> QED
    BY <2>3, <2>4, <2>5
<1>14. ASSUME TakeOffer PROVE ServerInv'
  <2>1. /\ \A x : Has(c2s', "answer", x) <=> Has(c2s, "answer", x)
        /\ Once(c2s', "answer")
    BY <1>2, TakenByServer, <1>14 DEF TakeOffer
  <2> QED
    BY <1>1, <1>2, <2>1, <1>14 DEF TakeOffer, clientVars, slotVars
<1>15. ASSUME SendAnswer PROVE ServerInv'
  <2>1. [type |-> "answer", id |-> taking] \in FromServer /\ s2c \in Seq(FromServer)
    BY <1>15 DEF SendAnswer, FromServer, ShapeInv, TypeOK
  <2>2. s2c' = Append(s2c, [type |-> "answer", id |-> taking])
    BY <2>1, <1>15 DEF SendAnswer, AnswerTo
  <2>3. /\ \A x : Has(s2c', "renegotiate", x) <=> Has(s2c, "renegotiate", x)
        /\ Once(s2c', "renegotiate")
    BY <1>2, <2>1, <2>2, SentByServer
  <2> QED
    BY <1>1, <1>2, <2>3, <1>15 DEF SendAnswer, clientVars, slotVars
<1>16. ASSUME TakeSfuAnswer PROVE ServerInv'
  <2> DEFINE id == Head(c2s).id
  <2>1. UNCHANGED <<s2c, sfu_renegotiate, hand>>
    BY <1>16 DEF TakeSfuAnswer, clientVars, slotVars
  <2>2. /\ \A x : Has(c2s, "answer", x) <=> Has(c2s', "answer", x) \/ x = id
        /\ Once(c2s', "answer") /\ id \in Ids /\ ~Has(c2s', "answer", id)
    BY <1>2, TakenByServer, <1>16 DEF TakeSfuAnswer
  <2>3. PICK c \in Sessions :
           \/ server_offer' = server_offer
           \/ /\ server_offer' = [server_offer EXCEPT ![c] = NoOffer]
              /\ server_offer[c] = id \/ server_offer[c] \in superseded'
    BY <1>16 DEF TakeSfuAnswer, Settle
  <2>4. \A x \in Ids : Offered(x) => x = id \/ x \in superseded' \/ Offered(x)'
    <3>1. c \in Channels /\ server_offer \in [Channels -> Ids \cup {NoOffer}]
      BY <2>3 DEF Sessions, ShapeInv, TypeOK
    <3> QED
      BY <2>3, <3>1 DEF Offered
  <2>5. ServerOnce'
    BY <2>1, <2>2 DEF ServerInv, ServerOnce
  <2>6. ASSUME NEW x \in Ids, ServerTrip(x)' PROVE x \in superseded' \/ Offered(x)'
    <3>1. ServerTrip(x) /\ x # id
      BY <2>1, <2>2, <2>6 DEF ServerInv, ServerOnce, ServerTrip
    <3> QED
      BY <1>0, <2>4, <3>1 DEF ServerInv, ServerLive
  <2> QED
    BY <2>5, <2>6 DEF ServerInv, ServerLive
<1>17. ASSUME NEW s \in Shares, StartShare(s) PROVE ServerInv'
  BY <1>3, <1>17 DEF StartShare, slotVars, serverVars
<1>18. ASSUME NEW s \in Shares, CheckScreen(s) PROVE ServerInv'
  BY <1>3, <1>18 DEF CheckScreen, slotVars, serverVars
<1>19. ASSUME NEW s \in Shares, AddScreen(s) PROVE ServerInv'
  BY <1>3, <1>19 DEF AddScreen, slotVars, serverVars
<1>20. ASSUME NEW s \in Shares, OfferScreen(s) PROVE ServerInv'
  BY <1>3, <1>20 DEF OfferScreen, slotVars, serverVars
<1>21. ASSUME NEW s \in Shares, ShareFails(s) PROVE ServerInv'
  BY <1>3, <1>21 DEF ShareFails, slotVars, serverVars
<1>22. ASSUME NEW s \in Shares, SendShare(s) PROVE ServerInv'
  <2>1. CASE c2s' = c2s
    BY <1>3, <2>1, <1>22 DEF SendShare, slotVars, serverVars
  <2>2. ASSUME NEW c \in Channels,
               c2s' = Append(c2s, [type |-> "offer", channel |-> c, id |-> share_offer[s]])
        PROVE  ServerInv'
    <3>1. [type |-> "offer", channel |-> c, id |-> share_offer[s]] \in FromClient
      BY <1>22 DEF SendShare, At, FromClient, ShapeInv, TypeOK, StateInv
    <3>2. /\ \A x : Has(c2s', "answer", x) <=> Has(c2s, "answer", x)
          /\ Once(c2s', "answer")
      BY <1>2, <2>2, <3>1, SentByClient
    <3> QED
      BY <1>1, <1>2, <3>2, <1>22 DEF SendShare, slotVars, serverVars
  <2> QED
    BY <2>1, <2>2, <1>22 DEF SendShare
<1>23. ASSUME Cleanup PROVE ServerInv'
  BY <1>3, <1>23 DEF Cleanup, NoConnection, slotVars, serverVars
<1>24. ASSUME NEW s \in Shares, OfferStray(s) PROVE ServerInv'
  BY <1>3, <1>24 DEF OfferStray, slotVars, serverVars
<1> QED
  BY NextCases, <1>4, <1>5, <1>6, <1>7, <1>8, <1>9, <1>10, <1>11, <1>12, <1>13, <1>14,
     <1>15, <1>16, <1>17, <1>18, <1>19, <1>20, <1>21, <1>22, <1>23, <1>24

-----------------------------------------------------------------------------
(* Answers and offers.                                                     *)
TwoSessions == \E c, d \in Sessions : c # d
MatchInv ==
    \A m \in mismatched : m.answer \in superseded \/ (m.by = "server" /\ TwoSessions)

(* Every action keeps it.                                                  *)
LEMMA MatchStep == ASSUME ShapeInv, ClientInv, ServerInv, MatchInv, Next PROVE MatchInv'
<1>0. superseded \subseteq superseded' /\ (TwoSessions => TwoSessions')
  BY HistoryGrows DEF TwoSessions
<1>1. ASSUME UNCHANGED mismatched PROVE MatchInv'
  BY <1>0, <1>1 DEF MatchInv
<1>2. ASSUME NEW c \in Channels, Connect(c) PROVE MatchInv'
  BY <1>1, <1>2 DEF Connect, history
<1>3. ASSUME NEW c \in Channels, Push(c) PROVE MatchInv'
  BY <1>1, <1>3 DEF Push, history
<1>4. ASSUME Disconnect PROVE MatchInv'
  BY <1>1, <1>4 DEF Disconnect, NoConnection
<1>5. ASSUME GatheringEnds PROVE MatchInv'
  BY <1>1, <1>5 DEF GatheringEnds, history
<1>6. ASSUME TakeAnswer PROVE MatchInv'
  <2>1. sfu_answer \in Ids /\ ClientTrip(sfu_answer)
    BY <1>6 DEF TakeAnswer, ClientTrip, ShapeInv, TypeOK
  <2>2. \/ mismatched' = mismatched
        \/ mismatched' = mismatched \cup {[by |-> "client", answer |-> sfu_answer]} /\ client_offer # sfu_answer
    BY <1>6 DEF TakeAnswer, Settle
  <2> QED
    BY <1>0, <2>1, <2>2 DEF MatchInv, ClientInv, ClientLive
<1>7. ASSUME TakeRenegotiate PROVE MatchInv'
  BY <1>1, <1>7 DEF TakeRenegotiate, history
<1>8. ASSUME PutBack PROVE MatchInv'
  BY <1>1, <1>8 DEF PutBack, history
<1>9. ASSUME Renegotiate PROVE MatchInv'
  BY <1>1, <1>9 DEF Renegotiate, history
<1>10. ASSUME AnswerBack PROVE MatchInv'
  BY <1>1, <1>10 DEF AnswerBack, history
<1>11. ASSUME Read PROVE MatchInv'
  BY <1>1, <1>11 DEF Read, history
<1>12. ASSUME TakeOffer PROVE MatchInv'
  BY <1>1, <1>12 DEF TakeOffer, history
<1>13. ASSUME SendAnswer PROVE MatchInv'
  BY <1>1, <1>13 DEF SendAnswer, history
<1>14. ASSUME TakeSfuAnswer PROVE MatchInv'
  <2> DEFINE id == Head(c2s).id
  <2>1. id \in Ids /\ Has(c2s, "answer", id)
    BY TakenByServer, <1>14 DEF TakeSfuAnswer
  <2>2. PICK c \in Sessions :
           \/ mismatched' = mismatched
           \/ /\ mismatched' = mismatched \cup {[by |-> "server", answer |-> id]}
              /\ server_offer[c] # id
    BY <1>14 DEF TakeSfuAnswer, Settle
  <2>3. \A d \in Channels : server_offer[d] = id => d \in Sessions
    BY <2>1 DEF Sessions, ShapeInv, StateInv, Ids, NoOffer
  <2>4. id \in superseded \/ Offered(id)
    BY <2>1 DEF ServerInv, ServerLive, ServerTrip
  <2>5. server_offer[c] # id => id \in superseded \/ TwoSessions
    BY <2>3, <2>4 DEF Offered, TwoSessions
  <2> QED
    BY <1>0, <2>2, <2>5 DEF MatchInv
<1>15. ASSUME NEW s \in Shares, StartShare(s) PROVE MatchInv'
  BY <1>1, <1>15 DEF StartShare, history
<1>16. ASSUME NEW s \in Shares, CheckScreen(s) PROVE MatchInv'
  BY <1>1, <1>16 DEF CheckScreen, history
<1>17. ASSUME NEW s \in Shares, AddScreen(s) PROVE MatchInv'
  BY <1>1, <1>17 DEF AddScreen, history
<1>18. ASSUME NEW s \in Shares, OfferScreen(s) PROVE MatchInv'
  BY <1>1, <1>18 DEF OfferScreen, history
<1>19. ASSUME NEW s \in Shares, ShareFails(s) PROVE MatchInv'
  BY <1>1, <1>19 DEF ShareFails, history
<1>20. ASSUME NEW s \in Shares, SendShare(s) PROVE MatchInv'
  BY <1>1, <1>20 DEF SendShare, history
<1>21. ASSUME Cleanup PROVE MatchInv'
  BY <1>1, <1>21 DEF Cleanup, NoConnection
<1>22. ASSUME NEW s \in Shares, OfferStray(s) PROVE MatchInv'
  BY <1>1, <1>22 DEF OfferStray
<1> QED
  BY NextCases, <1>2, <1>3, <1>4, <1>5, <1>6, <1>7, <1>8, <1>9, <1>10, <1>11, <1>12,
     <1>13, <1>14, <1>15, <1>16, <1>17, <1>18, <1>19, <1>20, <1>21, <1>22

(* A user is in finitely many sessions.                                    *)
FiniteInv == IsFiniteSet(Sessions)

(* Every action keeps it: at most one session comes with a step.           *)
LEMMA FiniteStep == ASSUME ShapeInv, FiniteInv, Next PROVE FiniteInv'
<1>1. ASSUME Sessions' \subseteq Sessions PROVE FiniteInv'
  BY <1>1, FS_Subset DEF FiniteInv
<1>2. ASSUME NEW c \in Channels, Connect(c) PROVE FiniteInv'
  BY <1>1, <1>2 DEF Connect, Sessions, serverVars
<1>3. ASSUME NEW c \in Channels, Push(c) PROVE FiniteInv'
  BY <1>1, <1>3 DEF Push, Sessions, ShapeInv, TypeOK
<1>4. ASSUME Disconnect PROVE FiniteInv'
  BY <1>1, <1>4 DEF Disconnect, NoConnection, Sessions, serverVars
<1>5. ASSUME GatheringEnds PROVE FiniteInv'
  BY <1>1, <1>5 DEF GatheringEnds, Sessions, serverVars
<1>6. ASSUME TakeAnswer PROVE FiniteInv'
  BY <1>1, <1>6 DEF TakeAnswer, Sessions, serverVars
<1>7. ASSUME TakeRenegotiate PROVE FiniteInv'
  BY <1>1, <1>7 DEF TakeRenegotiate, Sessions, serverVars
<1>8. ASSUME PutBack PROVE FiniteInv'
  BY <1>1, <1>8 DEF PutBack, Sessions, serverVars
<1>9. ASSUME Renegotiate PROVE FiniteInv'
  BY <1>1, <1>9 DEF Renegotiate, Sessions, serverVars
<1>10. ASSUME AnswerBack PROVE FiniteInv'
  BY <1>1, <1>10 DEF AnswerBack, Sessions, serverVars
<1>11. ASSUME Read PROVE FiniteInv'
  BY <1>1, <1>11 DEF Read, Sessions, serverVars
<1>12. ASSUME TakeOffer PROVE FiniteInv'
  <2>1. Sessions' \subseteq Sessions \cup {Head(c2s).channel}
    BY <1>12 DEF TakeOffer, Sessions, ShapeInv, TypeOK
  <2> QED
    BY <2>1, FS_AddElement, FS_Subset DEF FiniteInv
<1>13. ASSUME SendAnswer PROVE FiniteInv'
  BY <1>1, <1>13 DEF SendAnswer, Sessions, ShapeInv, TypeOK
<1>14. ASSUME TakeSfuAnswer PROVE FiniteInv'
  BY <1>1, <1>14 DEF TakeSfuAnswer, Sessions, ShapeInv, TypeOK
<1>15. ASSUME NEW s \in Shares, StartShare(s) PROVE FiniteInv'
  BY <1>1, <1>15 DEF StartShare, Sessions, serverVars
<1>16. ASSUME NEW s \in Shares, CheckScreen(s) PROVE FiniteInv'
  BY <1>1, <1>16 DEF CheckScreen, Sessions, serverVars
<1>17. ASSUME NEW s \in Shares, AddScreen(s) PROVE FiniteInv'
  BY <1>1, <1>17 DEF AddScreen, Sessions, serverVars
<1>18. ASSUME NEW s \in Shares, OfferScreen(s) PROVE FiniteInv'
  BY <1>1, <1>18 DEF OfferScreen, Sessions, serverVars
<1>19. ASSUME NEW s \in Shares, ShareFails(s) PROVE FiniteInv'
  BY <1>1, <1>19 DEF ShareFails, Sessions, serverVars
<1>20. ASSUME NEW s \in Shares, SendShare(s) PROVE FiniteInv'
  BY <1>1, <1>20 DEF SendShare, Sessions, serverVars
<1>21. ASSUME Cleanup PROVE FiniteInv'
  BY <1>1, <1>21 DEF Cleanup, NoConnection, Sessions, serverVars
<1>22. ASSUME NEW s \in Shares, OfferStray(s) PROVE FiniteInv'
  BY <1>1, <1>22 DEF OfferStray, Sessions, serverVars
<1> QED
  BY NextCases, <1>2, <1>3, <1>4, <1>5, <1>6, <1>7, <1>8, <1>9, <1>10, <1>11, <1>12,
     <1>13, <1>14, <1>15, <1>16, <1>17, <1>18, <1>19, <1>20, <1>21, <1>22

AnswerInv == FreshInv /\ ClientInv /\ ServerInv /\ MatchInv /\ FiniteInv

(* It holds initially.                                                     *)
LEMMA AnswerInitially == Init => AnswerInv
<1> SUFFICES ASSUME Init PROVE AnswerInv
  OBVIOUS
<1>1. \A q, type, x : q = <<>> => ~Has(q, type, x) /\ Once(q, type)
  BY DEF Has, Once
<1>2. \A x \in Ids : ~ClientTrip(x) /\ ~ServerTrip(x)
  BY <1>1 DEF Init, ClientTrip, ServerTrip, Sharing, Ids, NoOffer
<1>3. Sessions = {} /\ mismatched = {}
  BY DEF Init, Sessions
<1>4. ClientOnce /\ ServerOnce
  BY <1>1, <1>2 DEF Init, ClientOnce, ServerOnce, ClientTrip, ServerTrip
<1> QED
  BY <1>2, <1>3, <1>4, FS_EmptySet
     DEF AnswerInv, FreshInv, ClientInv, ClientLive, ServerInv, ServerLive, MatchInv, FiniteInv

(* An answer meets its own offer, for any number of channels, tasks and    *)
(* offers, unless the offer was superseded before, or the user is in two   *)
(* sessions.  That each offer is in one place of its way, and until it     *)
(* arrives the outstanding one or superseded, is what makes it inductive.  *)
THEOREM AnswersMeetTheirOffers == Spec => []AnswersMatch
<1>1. ShapeInv /\ AnswerInv /\ [Next]_vars => AnswerInv'
  <2>1. ASSUME AnswerInv, UNCHANGED vars PROVE AnswerInv'
    BY <2>1 DEF AnswerInv, FreshInv, ClientInv, ClientOnce, ClientLive, ClientTrip, Sharing,
                ServerInv, ServerOnce, ServerLive, ServerTrip, Offered, MatchInv, TwoSessions,
                FiniteInv, Sessions, vars, clientVars, slotVars, shareVars, serverVars, history
  <2> QED
    BY <2>1, FreshStep, ClientStep, ServerStep, MatchStep, FiniteStep DEF AnswerInv
<1>2. AnswerInv => AnswersMatch
  <2> SUFFICES ASSUME AnswerInv PROVE TwoSessions => Cardinality(Sessions) > 1
    BY DEF AnswerInv, MatchInv, AnswersMatch
  <2> SUFFICES ASSUME NEW c \in Sessions, NEW d \in Sessions, c # d PROVE Cardinality(Sessions) > 1
    BY DEF TwoSessions
  <2>1. IsFiniteSet(Sessions)
    BY DEF AnswerInv, FiniteInv
  <2>2. IsFiniteSet({c}) /\ Cardinality({c}) = 1
    BY FS_Singleton
  <2>3. Cardinality({c} \cup {d}) = 2
    BY <2>2, FS_AddElement
  <2>4. Cardinality({c} \cup {d}) <= Cardinality(Sessions) /\ Cardinality(Sessions) \in Nat
    BY <2>1, FS_Subset, FS_CardinalityType
  <2> QED
    BY <2>3, <2>4
<1> QED
  BY AnswerInitially, <1>1, <1>2, ShapeInvariance, PTL DEF Spec
=============================================================================
