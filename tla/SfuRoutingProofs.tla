-------------------------- MODULE SfuRoutingProofs --------------------------
(***************************************************************************)
(* Proofs about SfuRouting, for any number of users, track handlers, polls *)
(* and rounds: types, that routers are unique but for handlers at work at  *)
(* once, that a screen goes to those who subscribed, that everybody is     *)
(* reached, and that polls find what has arrived.                          *)
(***************************************************************************)
EXTENDS SfuRouting, TLAPS

(* The actions of Next, one by one.                                        *)
LEMMA NextCases ==
    ASSUME Next, NEW G,
           ASSUME NEW u \in Users, Offer(u) PROVE G,
           ASSUME NEW u \in Users, RejectOffer(u) PROVE G,
           ASSUME NEW u \in Users, AcceptNew(u) PROVE G,
           ASSUME NEW u \in Users, NEW p \in Polls, AcceptAgain(u, p) PROVE G,
           ASSUME NEW u \in Users, ReadPublishers(u) PROVE G,
           ASSUME NEW u \in Users, NEW p \in Users, TakeRouters(u, p) PROVE G,
           ASSUME NEW u \in Users, FinishJoin(u) PROVE G,
           ASSUME NEW u \in Users, NEW p \in Users, SubscribeTrack(u, p) PROVE G,
           ASSUME NEW u \in Users, NEW p \in Users, UnsubscribeTrack(u, p) PROVE G,
           ASSUME NEW u \in Users, NEW t \in TrackType, Appear(u, t) PROVE G,
           ASSUME NEW h \in Handlers, ListUsers(h) PROVE G,
           ASSUME NEW h \in Handlers, NEW x \in Users, Serve(h, x) PROVE G,
           ASSUME NEW h \in Handlers, Store(h) PROVE G,
           ASSUME NEW h \in Handlers, NEW u \in Users, NEW t \in TrackType, OnTrack(h, u, t) PROVE G,
           ASSUME NEW p \in Polls, StartRound(p) PROVE G,
           ASSUME NEW p \in Polls, EndRound(p) PROVE G,
           ASSUME NEW p \in Polls, NEW t \in TrackType, SkipTrack(p, t) PROVE G,
           ASSUME NEW p \in Polls, NEW t \in TrackType, NEW h \in Handlers, FindTrack(p, t, h) PROVE G
    PROVE  G
  BY DEF Next, SessionStep, HandlerStep, PollStep

-----------------------------------------------------------------------------
(* Types and shape.                                                        *)

(* Handlers, and the polls that wait for them.  A poll with rounds left    *)
(* has one at most, for its user, and waits as long as it works.           *)
InWork(h) == step[h] \in {"checked", "serving"}

WaitInv ==
    /\ \A h \in Handlers : step[h] # "unborn" => publisher[h] \in Users
    /\ \A h \in Handlers : InWork(h) /\ caller[h] \in Polls =>
          doing[caller[h]] = "waiting" /\ polled[caller[h]] = publisher[h]
    /\ \A g, h \in Handlers :
          InWork(g) /\ InWork(h) /\ caller[g] = caller[h] /\ caller[h] \in Polls => g = h

PollInv ==
    \A p \in Polls :
        /\ doing[p] # "unborn" => polled[p] \in Users
        /\ doing[p] \in {"asleep", "sweeping", "waiting"} => rounds[p] > 0
        /\ doing[p] \in {"unborn", "asleep", "over"} => sweep[p] = {}
        /\ doing[p] = "unborn" => looked[p] = {}

ShapeInv == TypeOK /\ WaitInv /\ PollInv

(* It holds initially.                                                     *)
LEMMA ShapeInitially == Init => ShapeInv
  BY SfuAssumption DEF Init, ShapeInv, TypeOK, WaitInv, PollInv, InWork, TrackType

(* Every action keeps the types.                                           *)
LEMMA TypeStep == ASSUME ShapeInv, Next PROVE TypeOK'
<1> USE DEF TypeOK, TrackType, sessionVars, handlerVars, pollVars
<1>0. TypeOK
  BY DEF ShapeInv
<1>1. ASSUME NEW u \in Users, Offer(u) PROVE TypeOK'
  BY SfuAssumption, <1>0, <1>1 DEF Offer, Goto
<1>2. ASSUME NEW u \in Users, RejectOffer(u) PROVE TypeOK'
  BY <1>0, <1>2 DEF RejectOffer, Goto
<1>3. ASSUME NEW u \in Users, AcceptNew(u) PROVE TypeOK'
  BY <1>0, <1>3 DEF AcceptNew, Goto
<1>4. ASSUME NEW u \in Users, NEW p \in Polls, AcceptAgain(u, p) PROVE TypeOK'
  BY SfuAssumption, <1>0, <1>4 DEF AcceptAgain, Goto
<1>5. ASSUME NEW u \in Users, ReadPublishers(u) PROVE TypeOK'
  <2>1. missed' \subseteq Users \X Handlers
    BY <1>0, <1>5 DEF ReadPublishers
  <2>2. owed' \in [Users -> SUBSET Users] /\ task' \in [Users -> {"idle", "new", "again", "publishers", "routers"}]
    BY <1>0, <1>5 DEF ReadPublishers, Goto, Publishers
  <2> QED
    BY <1>0, <1>5, <2>1, <2>2 DEF ReadPublishers
<1>6. ASSUME NEW u \in Users, NEW p \in Users, TakeRouters(u, p) PROVE TypeOK'
  <2>1. missed' \subseteq Users \X Handlers
    BY <1>0, <1>6 DEF TakeRouters
  <2>2. subscriber_tracks' \in [Handlers -> SUBSET Users]
    BY <1>0, <1>6 DEF TakeRouters
  <2>3. told' \in [Users -> SUBSET Handlers] /\ owed' \in [Users -> SUBSET Users]
    BY <1>0, <1>6 DEF TakeRouters, Routers
  <2> QED
    BY <1>0, <1>6, <2>1, <2>2, <2>3 DEF TakeRouters
<1>7. ASSUME NEW u \in Users, FinishJoin(u) PROVE TypeOK'
  BY <1>0, <1>7 DEF FinishJoin, Goto
<1>8. ASSUME NEW u \in Users, NEW p \in Users, SubscribeTrack(u, p) PROVE TypeOK'
  BY <1>0, <1>8 DEF SubscribeTrack
<1>9. ASSUME NEW u \in Users, NEW p \in Users, UnsubscribeTrack(u, p) PROVE TypeOK'
  BY <1>0, <1>9 DEF UnsubscribeTrack
<1>10. ASSUME NEW u \in Users, NEW t \in TrackType, Appear(u, t) PROVE TypeOK'
  BY <1>0, <1>10 DEF Appear
<1>11. ASSUME NEW h \in Handlers, ListUsers(h) PROVE TypeOK'
  BY <1>0, <1>11 DEF ListUsers
<1>12. ASSUME NEW h \in Handlers, NEW x \in Users, Serve(h, x) PROVE TypeOK'
  <2>1. todo' \in [Handlers -> SUBSET Users]
    BY <1>0, <1>12 DEF Serve
  <2>2. \/ subscriber_tracks' = subscriber_tracks
        \/ subscriber_tracks' = [subscriber_tracks EXCEPT ![h] = subscriber_tracks[h] \cup {x}]
    BY <1>12 DEF Serve
  <2>3. \/ told' = told
        \/ told' = [told EXCEPT ![x] = told[x] \cup {h}]
    BY <1>12 DEF Serve
  <2>4. subscriber_tracks' \in [Handlers -> SUBSET Users]
    BY <1>0, <2>2
  <2>5. told' \in [Users -> SUBSET Handlers]
    BY <1>0, <2>3
  <2> QED
    BY <1>0, <1>12, <2>1, <2>4, <2>5 DEF Serve
<1>13. ASSUME NEW h \in Handlers, Store(h) PROVE TypeOK'
  <2>0. /\ doing \in [Polls -> {"unborn", "asleep", "sweeping", "waiting", "over"}]
        /\ sweep \in [Polls -> SUBSET TrackType]
    BY <1>0
  <2>4. \/ doing' = doing /\ sweep' = sweep
        \/ /\ doing' = [doing EXCEPT ![caller[h]] = "sweeping"]
           /\ sweep' = [sweep EXCEPT ![caller[h]] = sweep[caller[h]] \ {track_type[h]}]
    BY <1>13 DEF Store
  <2>1. doing' \in [Polls -> {"unborn", "asleep", "sweeping", "waiting", "over"}]
    BY <2>0, <2>4
  <2>2. sweep' \in [Polls -> SUBSET TrackType]
    <3> HIDE DEF TypeOK, TrackType
    <3> QED
      BY <2>0, <2>4
  <2>3. step' \in [Handlers -> {"unborn", "checked", "serving", "stored"}]
    BY <1>0, <1>13 DEF Store
  <2> QED
    BY <1>0, <1>13, <2>1, <2>2, <2>3 DEF Store
<1>14. ASSUME NEW h \in Handlers, NEW u \in Users, NEW t \in TrackType, OnTrack(h, u, t) PROVE TypeOK'
  BY <1>0, <1>14 DEF OnTrack, Check
<1>15. ASSUME NEW p \in Polls, StartRound(p) PROVE TypeOK'
  <2>1. polled[p] \in Users
    BY <1>15 DEF StartRound, ShapeInv, PollInv
  <2> QED
    BY <1>0, <1>15, <2>1 DEF StartRound
<1>16. ASSUME NEW p \in Polls, EndRound(p) PROVE TypeOK'
  <2>1. rounds[p] \in Nat /\ rounds[p] > 0 /\ rounds[p] <= MaxRounds
    BY SfuAssumption, <1>0, <1>16 DEF EndRound, ShapeInv, PollInv
  <2>2. rounds' \in [Polls -> 0..MaxRounds]
    BY SfuAssumption, <1>0, <1>16, <2>1 DEF EndRound
  <2> QED
    BY <1>0, <1>16, <2>2 DEF EndRound
<1>17. ASSUME NEW p \in Polls, NEW t \in TrackType, SkipTrack(p, t) PROVE TypeOK'
  BY <1>0, <1>17 DEF SkipTrack
<1>18. ASSUME NEW p \in Polls, NEW t \in TrackType, NEW h \in Handlers, FindTrack(p, t, h) PROVE TypeOK'
  BY <1>0, <1>18 DEF FindTrack, Check
<1> QED
  BY NextCases, <1>1, <1>2, <1>3, <1>4, <1>5, <1>6, <1>7, <1>8, <1>9, <1>10, <1>11,
     <1>12, <1>13, <1>14, <1>15, <1>16, <1>17, <1>18

(* Every action keeps handlers and their callers together.                 *)
LEMMA WaitStep == ASSUME ShapeInv, Next PROVE WaitInv'
<1>1. ASSUME UNCHANGED <<step, publisher, caller, doing, polled>> PROVE WaitInv'
  BY <1>1 DEF ShapeInv, WaitInv, InWork
<1>2. ASSUME NEW u \in Users, Offer(u) PROVE WaitInv'
  BY <1>1, <1>2 DEF Offer, handlerVars, pollVars
<1>3. ASSUME NEW u \in Users, RejectOffer(u) PROVE WaitInv'
  BY <1>1, <1>3 DEF RejectOffer, handlerVars, pollVars
<1>4. ASSUME NEW u \in Users, AcceptNew(u) PROVE WaitInv'
  BY <1>1, <1>4 DEF AcceptNew, handlerVars, pollVars
<1>5. ASSUME NEW u \in Users, NEW p \in Polls, AcceptAgain(u, p) PROVE WaitInv'
  BY <1>5 DEF AcceptAgain, ShapeInv, TypeOK, WaitInv, PollInv, InWork, handlerVars
<1>6. ASSUME NEW u \in Users, ReadPublishers(u) PROVE WaitInv'
  BY <1>1, <1>6 DEF ReadPublishers, handlerVars, pollVars
<1>7. ASSUME NEW u \in Users, NEW p \in Users, TakeRouters(u, p) PROVE WaitInv'
  BY <1>1, <1>7 DEF TakeRouters, handlerVars, pollVars
<1>8. ASSUME NEW u \in Users, FinishJoin(u) PROVE WaitInv'
  BY <1>1, <1>8 DEF FinishJoin, handlerVars, pollVars
<1>9. ASSUME NEW u \in Users, NEW p \in Users, SubscribeTrack(u, p) PROVE WaitInv'
  BY <1>1, <1>9 DEF SubscribeTrack, handlerVars, pollVars
<1>10. ASSUME NEW u \in Users, NEW p \in Users, UnsubscribeTrack(u, p) PROVE WaitInv'
  BY <1>1, <1>10 DEF UnsubscribeTrack, handlerVars, pollVars
<1>11. ASSUME NEW u \in Users, NEW t \in TrackType, Appear(u, t) PROVE WaitInv'
  BY <1>1, <1>11 DEF Appear, handlerVars, pollVars
<1>12. ASSUME NEW h \in Handlers, ListUsers(h) PROVE WaitInv'
  BY <1>12 DEF ListUsers, ShapeInv, TypeOK, WaitInv, PollInv, InWork, pollVars
<1>13. ASSUME NEW h \in Handlers, NEW x \in Users, Serve(h, x) PROVE WaitInv'
  BY <1>1, <1>13 DEF Serve, handlerVars, pollVars
<1>14. ASSUME NEW h \in Handlers, Store(h) PROVE WaitInv'
  <2>1. InWork(h) /\ step'[h] = "stored" /\ \A g \in Handlers \ {h} : step'[g] = step[g]
    BY <1>14 DEF Store, InFlight, InWork, ShapeInv, TypeOK
  <2>2. \A g \in Handlers : InWork(g)' => InWork(g) /\ g # h
    BY <2>1 DEF InWork
  <2>3. \A g \in Handlers : InWork(g)' /\ caller[g] \in Polls => doing'[caller[g]] = doing[caller[g]]
    BY <1>14, <2>1, <2>2 DEF Store, ShapeInv, WaitInv, TypeOK
  <2> QED
    BY <1>14, <2>1, <2>2, <2>3 DEF Store, ShapeInv, WaitInv, InFlight
<1>15. ASSUME NEW h \in Handlers, NEW u \in Users, NEW t \in TrackType, OnTrack(h, u, t) PROVE WaitInv'
  BY SfuAssumption, <1>15
     DEF OnTrack, Check, ShapeInv, TypeOK, WaitInv, PollInv, InWork, pollVars
<1>16. ASSUME NEW p \in Polls, StartRound(p) PROVE WaitInv'
  BY <1>16 DEF StartRound, ShapeInv, TypeOK, WaitInv, PollInv, InWork, handlerVars
<1>17. ASSUME NEW p \in Polls, EndRound(p) PROVE WaitInv'
  BY <1>17 DEF EndRound, ShapeInv, TypeOK, WaitInv, PollInv, InWork, handlerVars
<1>18. ASSUME NEW p \in Polls, NEW t \in TrackType, SkipTrack(p, t) PROVE WaitInv'
  BY <1>1, <1>18 DEF SkipTrack, handlerVars, pollVars
<1>19. ASSUME NEW p \in Polls, NEW t \in TrackType, NEW h \in Handlers, FindTrack(p, t, h) PROVE WaitInv'
  BY <1>19 DEF FindTrack, Check, ShapeInv, TypeOK, WaitInv, PollInv, InWork
<1> QED
  BY NextCases, <1>2, <1>3, <1>4, <1>5, <1>6, <1>7, <1>8, <1>9, <1>10, <1>11, <1>12,
     <1>13, <1>14, <1>15, <1>16, <1>17, <1>18, <1>19

(* Every action keeps the polls' phases, rounds and sweeps in step.        *)
LEMMA PollsStep == ASSUME ShapeInv, Next PROVE PollInv'
<1>1. ASSUME UNCHANGED <<rounds, sweep, doing, polled, looked>> PROVE PollInv'
  BY <1>1 DEF ShapeInv, PollInv
<1>2. ASSUME NEW u \in Users, Offer(u) PROVE PollInv'
  BY <1>1, <1>2 DEF Offer, pollVars
<1>3. ASSUME NEW u \in Users, RejectOffer(u) PROVE PollInv'
  BY <1>1, <1>3 DEF RejectOffer, pollVars
<1>4. ASSUME NEW u \in Users, AcceptNew(u) PROVE PollInv'
  BY <1>1, <1>4 DEF AcceptNew, pollVars
<1>5. ASSUME NEW u \in Users, NEW p \in Polls, AcceptAgain(u, p) PROVE PollInv'
  BY SfuAssumption, <1>5 DEF AcceptAgain, ShapeInv, TypeOK, PollInv
<1>6. ASSUME NEW u \in Users, ReadPublishers(u) PROVE PollInv'
  BY <1>1, <1>6 DEF ReadPublishers, pollVars
<1>7. ASSUME NEW u \in Users, NEW p \in Users, TakeRouters(u, p) PROVE PollInv'
  BY <1>1, <1>7 DEF TakeRouters, pollVars
<1>8. ASSUME NEW u \in Users, FinishJoin(u) PROVE PollInv'
  BY <1>1, <1>8 DEF FinishJoin, pollVars
<1>9. ASSUME NEW u \in Users, NEW p \in Users, SubscribeTrack(u, p) PROVE PollInv'
  BY <1>1, <1>9 DEF SubscribeTrack, pollVars
<1>10. ASSUME NEW u \in Users, NEW p \in Users, UnsubscribeTrack(u, p) PROVE PollInv'
  BY <1>1, <1>10 DEF UnsubscribeTrack, pollVars
<1>11. ASSUME NEW u \in Users, NEW t \in TrackType, Appear(u, t) PROVE PollInv'
  BY <1>1, <1>11 DEF Appear, pollVars
<1>12. ASSUME NEW h \in Handlers, ListUsers(h) PROVE PollInv'
  BY <1>1, <1>12 DEF ListUsers, pollVars
<1>13. ASSUME NEW h \in Handlers, NEW x \in Users, Serve(h, x) PROVE PollInv'
  BY <1>1, <1>13 DEF Serve, pollVars
<1>14. ASSUME NEW h \in Handlers, Store(h) PROVE PollInv'
  <2>1. CASE caller[h] \in Polls
    <3>1. doing[caller[h]] = "waiting"
      BY <1>14, <2>1 DEF Store, InFlight, ShapeInv, WaitInv, InWork
    <3> QED
      BY <1>14, <2>1, <3>1 DEF Store, ShapeInv, TypeOK, PollInv
  <2>2. CASE caller[h] \notin Polls
    BY <1>14, <2>2, <1>1 DEF Store
  <2> QED
    BY <2>1, <2>2
<1>15. ASSUME NEW h \in Handlers, NEW u \in Users, NEW t \in TrackType, OnTrack(h, u, t) PROVE PollInv'
  BY <1>1, <1>15 DEF OnTrack, pollVars
<1>16. ASSUME NEW p \in Polls, StartRound(p) PROVE PollInv'
  BY <1>16 DEF StartRound, ShapeInv, TypeOK, PollInv
<1>17. ASSUME NEW p \in Polls, EndRound(p) PROVE PollInv'
  <2>1. rounds[p] \in Nat /\ rounds[p] > 0 /\ sweep[p] = {} /\ doing[p] = "sweeping"
    BY SfuAssumption, <1>17 DEF EndRound, ShapeInv, TypeOK, PollInv
  <2>2. \/ doing'[p] = "over"
        \/ doing'[p] = "asleep" /\ rounds[p] # 1
    BY <1>17 DEF EndRound, LastRound, ShapeInv, TypeOK
  <2>3. rounds'[p] = rounds[p] - 1
    BY <1>17 DEF EndRound, ShapeInv, TypeOK
  <2>4. doing'[p] \in {"asleep", "sweeping", "waiting"} => rounds'[p] > 0
    BY <2>1, <2>2, <2>3
  <2>5. \A q \in Polls \ {p} : doing'[q] = doing[q] /\ rounds'[q] = rounds[q]
    BY <1>17 DEF EndRound, ShapeInv, TypeOK
  <2> QED
    BY <1>17, <2>1, <2>2, <2>4, <2>5 DEF EndRound, ShapeInv, PollInv
<1>18. ASSUME NEW p \in Polls, NEW t \in TrackType, SkipTrack(p, t) PROVE PollInv'
  BY <1>18 DEF SkipTrack, ShapeInv, TypeOK, PollInv
<1>19. ASSUME NEW p \in Polls, NEW t \in TrackType, NEW h \in Handlers, FindTrack(p, t, h) PROVE PollInv'
  BY <1>19 DEF FindTrack, ShapeInv, TypeOK, PollInv
<1> QED
  BY NextCases, <1>2, <1>3, <1>4, <1>5, <1>6, <1>7, <1>8, <1>9, <1>10, <1>11, <1>12,
     <1>13, <1>14, <1>15, <1>16, <1>17, <1>18, <1>19

(* Together, and for steps that stutter.                                   *)
LEMMA StutterShape == ASSUME ShapeInv, UNCHANGED vars PROVE ShapeInv'
  BY DEF ShapeInv, TypeOK, WaitInv, PollInv, InWork, vars, sessionVars, handlerVars, pollVars

(* Every action keeps types and shape.                                     *)
LEMMA ShapeStep == ASSUME ShapeInv, [Next]_vars PROVE ShapeInv'
  BY TypeStep, WaitStep, PollsStep, StutterShape DEF ShapeInv

(* Types and shape hold throughout; the other proofs build on them.        *)
THEOREM ShapeInvariance == Spec => []ShapeInv
<1>1. ShapeInv /\ [Next]_vars => ShapeInv'
  BY ShapeStep
<1> QED
  BY ShapeInitially, <1>1, PTL DEF Spec

(* The variables keep their types: a poll is always somebody's, counts its *)
(* rounds down and never below zero, and waits for one handler at a time.  *)
THEOREM TypeCorrect == Spec => []TypeOK
<1>1. ShapeInv => TypeOK
  BY DEF ShapeInv
<1> QED
  BY ShapeInvariance, <1>1, PTL

-----------------------------------------------------------------------------
(* A handler keeps its track, and a router stays.                          *)
LEMMA HandlerMoves ==
    ASSUME ShapeInv, Next, NEW h \in Handlers
    PROVE  /\ step[h] # "unborn" => publisher'[h] = publisher[h] /\ track_type'[h] = track_type[h]
           /\ step[h] = "stored" => step'[h] = "stored"
<1> DEFINE Moves == /\ step[h] # "unborn" => publisher'[h] = publisher[h] /\ track_type'[h] = track_type[h]
                    /\ step[h] = "stored" => step'[h] = "stored"
<1>1. ASSUME UNCHANGED <<step, publisher, track_type>> PROVE Moves
  BY <1>1
<1>2. ASSUME NEW u \in Users, Offer(u) PROVE Moves
  BY <1>1, <1>2 DEF Offer, handlerVars
<1>3. ASSUME NEW u \in Users, RejectOffer(u) PROVE Moves
  BY <1>1, <1>3 DEF RejectOffer, handlerVars
<1>4. ASSUME NEW u \in Users, AcceptNew(u) PROVE Moves
  BY <1>1, <1>4 DEF AcceptNew, handlerVars
<1>5. ASSUME NEW u \in Users, NEW p \in Polls, AcceptAgain(u, p) PROVE Moves
  BY <1>1, <1>5 DEF AcceptAgain, handlerVars
<1>6. ASSUME NEW u \in Users, ReadPublishers(u) PROVE Moves
  BY <1>1, <1>6 DEF ReadPublishers, handlerVars
<1>7. ASSUME NEW u \in Users, NEW p \in Users, TakeRouters(u, p) PROVE Moves
  BY <1>1, <1>7 DEF TakeRouters, handlerVars
<1>8. ASSUME NEW u \in Users, FinishJoin(u) PROVE Moves
  BY <1>1, <1>8 DEF FinishJoin, handlerVars
<1>9. ASSUME NEW u \in Users, NEW p \in Users, SubscribeTrack(u, p) PROVE Moves
  BY <1>1, <1>9 DEF SubscribeTrack, handlerVars
<1>10. ASSUME NEW u \in Users, NEW p \in Users, UnsubscribeTrack(u, p) PROVE Moves
  BY <1>1, <1>10 DEF UnsubscribeTrack, handlerVars
<1>11. ASSUME NEW u \in Users, NEW t \in TrackType, Appear(u, t) PROVE Moves
  BY <1>1, <1>11 DEF Appear, handlerVars
<1>12. ASSUME NEW g \in Handlers, ListUsers(g) PROVE Moves
  BY <1>12 DEF ListUsers, InFlight, ShapeInv, TypeOK
<1>13. ASSUME NEW g \in Handlers, NEW x \in Users, Serve(g, x) PROVE Moves
  BY <1>1, <1>13 DEF Serve, handlerVars
<1>14. ASSUME NEW g \in Handlers, Store(g) PROVE Moves
  BY <1>14 DEF Store, InFlight, ShapeInv, TypeOK
<1>15. ASSUME NEW g \in Handlers, NEW u \in Users, NEW t \in TrackType, OnTrack(g, u, t) PROVE Moves
  BY <1>15 DEF OnTrack, Check, ShapeInv, TypeOK
<1>16. ASSUME NEW p \in Polls, StartRound(p) PROVE Moves
  BY <1>1, <1>16 DEF StartRound, handlerVars
<1>17. ASSUME NEW p \in Polls, EndRound(p) PROVE Moves
  BY <1>1, <1>17 DEF EndRound, handlerVars
<1>18. ASSUME NEW p \in Polls, NEW t \in TrackType, SkipTrack(p, t) PROVE Moves
  BY <1>1, <1>18 DEF SkipTrack, handlerVars
<1>19. ASSUME NEW p \in Polls, NEW t \in TrackType, NEW g \in Handlers, FindTrack(p, t, g) PROVE Moves
  BY <1>19 DEF FindTrack, Check, ShapeInv, TypeOK
<1> QED
  BY NextCases, <1>2, <1>3, <1>4, <1>5, <1>6, <1>7, <1>8, <1>9, <1>10, <1>11, <1>12,
     <1>13, <1>14, <1>15, <1>16, <1>17, <1>18, <1>19

(* has_router stays true.                                                 *)
LEMMA RoutersStay ==
    ASSUME ShapeInv, Next
    PROVE  \A u, t : HasRouter(u, t) => HasRouter(u, t)'
<1> SUFFICES ASSUME NEW u, NEW t, HasRouter(u, t) PROVE HasRouter(u, t)'
  OBVIOUS
<1>1. PICK h \in Handlers : step[h] = "stored" /\ publisher[h] = u /\ track_type[h] = t
  BY DEF HasRouter, RoutersByType, Routers
<1>2. step'[h] = "stored" /\ publisher'[h] = u /\ track_type'[h] = t
  BY <1>1, HandlerMoves
<1> QED
  BY <1>2 DEF HasRouter, RoutersByType, Routers

-----------------------------------------------------------------------------
(* Two handlers of one track, wherever they stand, are rivals.             *)
UniqueInv ==
    \A g, h \in Handlers :
        /\ g # h /\ step[g] # "unborn" /\ step[h] # "unborn"
        /\ publisher[g] = publisher[h] /\ track_type[g] = track_type[h]
        => <<g, h>> \in rivals \/ <<h, g>> \in rivals

(* A handler that starts is a rival of those at work on its track, and     *)
(* there is none that has stored a router.                                 *)
LEMMA CheckUnique ==
    ASSUME ShapeInv, UniqueInv, NEW h \in Handlers, NEW u, NEW t, NEW p, Check(h, u, t, p)
    PROVE  UniqueInv'
<1>1. \A g \in Handlers : step[g] # "stored" \/ publisher[g] # u \/ track_type[g] # t
  BY DEF Check, MayStart, AlreadyHandled, HasRouter, RoutersByType, Routers
<1>2. \A g \in Handlers : step[g] \in {"unborn", "checked", "serving", "stored"}
  BY DEF ShapeInv, TypeOK
<1>3. \A g \in Handlers : step[g] # "unborn" /\ publisher[g] = u /\ track_type[g] = t => <<g, h>> \in rivals'
  BY <1>1, <1>2 DEF Check
<1>4. rivals \subseteq rivals'
  BY DEF Check
<1>5. \A g \in Handlers \ {h} : step'[g] = step[g] /\ publisher'[g] = publisher[g] /\ track_type'[g] = track_type[g]
  BY DEF Check, ShapeInv, TypeOK
<1>6. publisher'[h] = u /\ track_type'[h] = t
  BY DEF Check, ShapeInv, TypeOK
<1> QED
  BY <1>3, <1>4, <1>5, <1>6 DEF UniqueInv

(* Every action keeps it.                                                  *)
LEMMA UniqueStep == ASSUME ShapeInv, UniqueInv, Next PROVE UniqueInv'
<1>1. ASSUME UNCHANGED <<step, publisher, track_type, rivals>> PROVE UniqueInv'
  BY <1>1 DEF UniqueInv
<1>2. ASSUME NEW u \in Users, Offer(u) PROVE UniqueInv'
  BY <1>1, <1>2 DEF Offer, handlerVars
<1>3. ASSUME NEW u \in Users, RejectOffer(u) PROVE UniqueInv'
  BY <1>1, <1>3 DEF RejectOffer, handlerVars
<1>4. ASSUME NEW u \in Users, AcceptNew(u) PROVE UniqueInv'
  BY <1>1, <1>4 DEF AcceptNew, handlerVars
<1>5. ASSUME NEW u \in Users, NEW p \in Polls, AcceptAgain(u, p) PROVE UniqueInv'
  BY <1>1, <1>5 DEF AcceptAgain, handlerVars
<1>6. ASSUME NEW u \in Users, ReadPublishers(u) PROVE UniqueInv'
  BY <1>1, <1>6 DEF ReadPublishers, handlerVars
<1>7. ASSUME NEW u \in Users, NEW p \in Users, TakeRouters(u, p) PROVE UniqueInv'
  BY <1>1, <1>7 DEF TakeRouters, handlerVars
<1>8. ASSUME NEW u \in Users, FinishJoin(u) PROVE UniqueInv'
  BY <1>1, <1>8 DEF FinishJoin, handlerVars
<1>9. ASSUME NEW u \in Users, NEW p \in Users, SubscribeTrack(u, p) PROVE UniqueInv'
  BY <1>1, <1>9 DEF SubscribeTrack, handlerVars
<1>10. ASSUME NEW u \in Users, NEW p \in Users, UnsubscribeTrack(u, p) PROVE UniqueInv'
  BY <1>1, <1>10 DEF UnsubscribeTrack, handlerVars
<1>11. ASSUME NEW u \in Users, NEW t \in TrackType, Appear(u, t) PROVE UniqueInv'
  BY <1>1, <1>11 DEF Appear, handlerVars
<1>12. ASSUME NEW h \in Handlers, ListUsers(h) PROVE UniqueInv'
  BY <1>12 DEF ListUsers, ShapeInv, TypeOK, UniqueInv
<1>13. ASSUME NEW h \in Handlers, NEW x \in Users, Serve(h, x) PROVE UniqueInv'
  BY <1>1, <1>13 DEF Serve, handlerVars
<1>14. ASSUME NEW h \in Handlers, Store(h) PROVE UniqueInv'
  BY <1>14 DEF Store, InFlight, ShapeInv, TypeOK, UniqueInv
<1>15. ASSUME NEW h \in Handlers, NEW u \in Users, NEW t \in TrackType, OnTrack(h, u, t) PROVE UniqueInv'
  BY <1>15, CheckUnique DEF OnTrack
<1>16. ASSUME NEW p \in Polls, StartRound(p) PROVE UniqueInv'
  BY <1>1, <1>16 DEF StartRound, handlerVars
<1>17. ASSUME NEW p \in Polls, EndRound(p) PROVE UniqueInv'
  BY <1>1, <1>17 DEF EndRound, handlerVars
<1>18. ASSUME NEW p \in Polls, NEW t \in TrackType, SkipTrack(p, t) PROVE UniqueInv'
  BY <1>1, <1>18 DEF SkipTrack, handlerVars
<1>19. ASSUME NEW p \in Polls, NEW t \in TrackType, NEW h \in Handlers, FindTrack(p, t, h) PROVE UniqueInv'
  BY <1>19, CheckUnique DEF FindTrack
<1> QED
  BY NextCases, <1>2, <1>3, <1>4, <1>5, <1>6, <1>7, <1>8, <1>9, <1>10, <1>11, <1>12,
     <1>13, <1>14, <1>15, <1>16, <1>17, <1>18, <1>19

(* No track has two routers but those of handlers at work at once: the     *)
(* statement for two stored routers is not inductive, that for two         *)
(* handlers wherever they stand is.                                        *)
THEOREM NoDoubleRouters == Spec => []RoutersUnique
<1>1. Init => UniqueInv
  BY DEF Init, UniqueInv
<1>2. ShapeInv /\ UniqueInv /\ [Next]_vars => UniqueInv'
  <2>1. ASSUME UniqueInv, UNCHANGED vars PROVE UniqueInv'
    BY <2>1 DEF UniqueInv, vars, handlerVars
  <2> QED
    BY <2>1, UniqueStep
<1>3. UniqueInv => RoutersUnique
  BY DEF UniqueInv, RoutersUnique
<1> QED
  BY <1>1, <1>2, <1>3, ShapeInvariance, PTL DEF Spec

-----------------------------------------------------------------------------
(* A screen has no subscribers before its router is stored.                *)
SilentInv ==
    \A h \in Handlers :
        step[h] = "unborn" \/ (track_type[h] = "Screen" /\ step[h] # "stored")
            => subscriber_tracks[h] = {}

(* Every action keeps it.                                                  *)
LEMMA SilentStep == ASSUME ShapeInv, SilentInv, Next PROVE SilentInv'
<1>1. ASSUME UNCHANGED <<step, track_type, subscriber_tracks>> PROVE SilentInv'
  BY <1>1 DEF SilentInv
<1>2. ASSUME NEW u \in Users, Offer(u) PROVE SilentInv'
  BY <1>1, <1>2 DEF Offer, handlerVars
<1>3. ASSUME NEW u \in Users, RejectOffer(u) PROVE SilentInv'
  BY <1>1, <1>3 DEF RejectOffer, handlerVars
<1>4. ASSUME NEW u \in Users, AcceptNew(u) PROVE SilentInv'
  BY <1>1, <1>4 DEF AcceptNew, handlerVars
<1>5. ASSUME NEW u \in Users, NEW p \in Polls, AcceptAgain(u, p) PROVE SilentInv'
  BY <1>1, <1>5 DEF AcceptAgain, handlerVars
<1>6. ASSUME NEW u \in Users, ReadPublishers(u) PROVE SilentInv'
  BY <1>1, <1>6 DEF ReadPublishers, handlerVars
<1>7. ASSUME NEW u \in Users, NEW p \in Users, TakeRouters(u, p) PROVE SilentInv'
  BY <1>7
     DEF TakeRouters, WebcamsOf, RoutersByType, Routers, ShapeInv, TypeOK, SilentInv,
         handlerVars
<1>8. ASSUME NEW u \in Users, FinishJoin(u) PROVE SilentInv'
  BY <1>1, <1>8 DEF FinishJoin, handlerVars
<1>9. ASSUME NEW u \in Users, NEW p \in Users, SubscribeTrack(u, p) PROVE SilentInv'
  BY <1>9
     DEF SubscribeTrack, RoutersByType, Routers, ShapeInv, TypeOK, SilentInv,
         handlerVars
<1>10. ASSUME NEW u \in Users, NEW p \in Users, UnsubscribeTrack(u, p) PROVE SilentInv'
  BY <1>10 DEF UnsubscribeTrack, ShapeInv, TypeOK, SilentInv, handlerVars
<1>11. ASSUME NEW u \in Users, NEW t \in TrackType, Appear(u, t) PROVE SilentInv'
  BY <1>1, <1>11 DEF Appear, handlerVars
<1>12. ASSUME NEW h \in Handlers, ListUsers(h) PROVE SilentInv'
  BY <1>12 DEF ListUsers, ShapeInv, TypeOK, SilentInv
<1>13. ASSUME NEW h \in Handlers, NEW x \in Users, Serve(h, x) PROVE SilentInv'
  BY <1>13 DEF Serve, InFlight, ShapeInv, TypeOK, SilentInv
<1>14. ASSUME NEW h \in Handlers, Store(h) PROVE SilentInv'
  BY <1>14 DEF Store, ShapeInv, TypeOK, SilentInv
<1>15. ASSUME NEW h \in Handlers, NEW u \in Users, NEW t \in TrackType, OnTrack(h, u, t) PROVE SilentInv'
  BY <1>15 DEF OnTrack, Check, ShapeInv, TypeOK, SilentInv
<1>16. ASSUME NEW p \in Polls, StartRound(p) PROVE SilentInv'
  BY <1>1, <1>16 DEF StartRound, handlerVars
<1>17. ASSUME NEW p \in Polls, EndRound(p) PROVE SilentInv'
  BY <1>1, <1>17 DEF EndRound, handlerVars
<1>18. ASSUME NEW p \in Polls, NEW t \in TrackType, SkipTrack(p, t) PROVE SilentInv'
  BY <1>1, <1>18 DEF SkipTrack, handlerVars
<1>19. ASSUME NEW p \in Polls, NEW t \in TrackType, NEW h \in Handlers, FindTrack(p, t, h) PROVE SilentInv'
  BY <1>19 DEF FindTrack, Check, ShapeInv, TypeOK, SilentInv
<1> QED
  BY NextCases, <1>2, <1>3, <1>4, <1>5, <1>6, <1>7, <1>8, <1>9, <1>10, <1>11, <1>12,
     <1>13, <1>14, <1>15, <1>16, <1>17, <1>18, <1>19

(* A step that leaves the routers and their subscribers as they are.       *)
LEMMA WatchersKept ==
    ASSUME WatchersAgree, UNCHANGED screen_subscriptions,
           \A h \in Handlers, p \in Users :
              /\ h \in RoutersByType(p, "Screen") =>
                    h \in RoutersByType(p, "Screen")' /\ subscriber_tracks'[h] = subscriber_tracks[h]
              /\ h \in RoutersByType(p, "Screen")' =>
                    h \in RoutersByType(p, "Screen") \/ subscriber_tracks'[h] = {}
    PROVE  WatchersAgree'
<1>1. \A p \in Users : RoutersByType(p, "Screen") \subseteq Handlers /\ RoutersByType(p, "Screen")' \subseteq Handlers
  BY DEF RoutersByType, Routers
<1>2. \A u, p \in Users :
         (\E h \in RoutersByType(p, "Screen") : u \in subscriber_tracks[h])
         <=> \E h \in RoutersByType(p, "Screen")' : u \in subscriber_tracks'[h]
  BY <1>1
<1> QED
  BY <1>2 DEF WatchersAgree

(* Every action keeps subscriptions and subscribers together.              *)
LEMMA WatchersStep == ASSUME ShapeInv, SilentInv, WatchersAgree, Next PROVE WatchersAgree'
<1>1. ASSUME UNCHANGED <<step, publisher, track_type, subscriber_tracks, screen_subscriptions>> PROVE WatchersAgree'
  BY <1>1 DEF WatchersAgree, RoutersByType, Routers
<1>2. ASSUME NEW u \in Users, Offer(u) PROVE WatchersAgree'
  BY <1>1, <1>2 DEF Offer, sessionVars, handlerVars
<1>3. ASSUME NEW u \in Users, RejectOffer(u) PROVE WatchersAgree'
  BY <1>1, <1>3 DEF RejectOffer, sessionVars, handlerVars
<1>4. ASSUME NEW u \in Users, AcceptNew(u) PROVE WatchersAgree'
  BY <1>1, <1>4 DEF AcceptNew, sessionVars, handlerVars
<1>5. ASSUME NEW u \in Users, NEW p \in Polls, AcceptAgain(u, p) PROVE WatchersAgree'
  BY <1>1, <1>5 DEF AcceptAgain, sessionVars, handlerVars
<1>6. ASSUME NEW u \in Users, ReadPublishers(u) PROVE WatchersAgree'
  BY <1>1, <1>6 DEF ReadPublishers, sessionVars, handlerVars
<1>7. ASSUME NEW u \in Users, NEW p \in Users, TakeRouters(u, p) PROVE WatchersAgree'
  <2>1. \A h \in Handlers : track_type[h] = "Screen" => subscriber_tracks'[h] = subscriber_tracks[h]
    BY <1>7 DEF TakeRouters, WebcamsOf, RoutersByType
  <2> QED
    BY <1>7, <2>1, WatchersKept DEF TakeRouters, RoutersByType, Routers, handlerVars
<1>8. ASSUME NEW u \in Users, FinishJoin(u) PROVE WatchersAgree'
  BY <1>1, <1>8 DEF FinishJoin, sessionVars, handlerVars
<1>9. ASSUME NEW u \in Users, NEW p \in Users, SubscribeTrack(u, p) PROVE WatchersAgree'
  <2>1. PICK g \in Handlers : g \in RoutersByType(p, "Screen")
    BY <1>9 DEF SubscribeTrack, HasRouter, RoutersByType, Routers
  <2>2. \A q \in Users : RoutersByType(q, "Screen")' = RoutersByType(q, "Screen")
    BY <1>9 DEF SubscribeTrack, RoutersByType, Routers, handlerVars
  <2>3. \A h \in Handlers :
           /\ h \in RoutersByType(p, "Screen") => subscriber_tracks'[h] = subscriber_tracks[h] \cup {u}
           /\ h \notin RoutersByType(p, "Screen") => subscriber_tracks'[h] = subscriber_tracks[h]
    BY <1>9 DEF SubscribeTrack
  <2>4. \A q \in Users \ {p} : RoutersByType(q, "Screen") \cap RoutersByType(p, "Screen") = {}
    BY DEF RoutersByType, Routers
  <2>5. \A q \in Users \ {p} : screen_subscriptions'[q] = screen_subscriptions[q]
    BY <1>9 DEF SubscribeTrack, ShapeInv, TypeOK
  <2>6. screen_subscriptions'[p] = screen_subscriptions[p] \cup {u}
    BY <1>9 DEF SubscribeTrack, ShapeInv, TypeOK
  <2>7. \A q \in Users : RoutersByType(q, "Screen") \subseteq Handlers
    BY DEF RoutersByType, Routers
  <2>8. \A w \in Users : w \in screen_subscriptions'[p] <=>
           \E h \in RoutersByType(p, "Screen") : w \in subscriber_tracks'[h]
    BY <2>1, <2>3, <2>6, <2>7 DEF WatchersAgree
  <2>9. \A w \in Users, q \in Users \ {p} : w \in screen_subscriptions'[q] <=>
           \E h \in RoutersByType(q, "Screen") : w \in subscriber_tracks'[h]
    BY <2>3, <2>4, <2>5, <2>7 DEF WatchersAgree
  <2> QED
    BY <2>2, <2>8, <2>9 DEF WatchersAgree
<1>10. ASSUME NEW u \in Users, NEW p \in Users, UnsubscribeTrack(u, p) PROVE WatchersAgree'
  <2>2. \A q \in Users : RoutersByType(q, "Screen")' = RoutersByType(q, "Screen")
    BY <1>10 DEF UnsubscribeTrack, RoutersByType, Routers, handlerVars
  <2>3. \A h \in Handlers :
           /\ h \in RoutersByType(p, "Screen") => subscriber_tracks'[h] = subscriber_tracks[h] \ {u}
           /\ h \notin RoutersByType(p, "Screen") => subscriber_tracks'[h] = subscriber_tracks[h]
    BY <1>10 DEF UnsubscribeTrack, UnsubscribedFrom
  <2>4. \A q \in Users \ {p} : RoutersByType(q, "Screen") \cap RoutersByType(p, "Screen") = {}
    BY DEF RoutersByType, Routers
  <2>5. \A q \in Users \ {p} : screen_subscriptions'[q] = screen_subscriptions[q]
    BY <1>10 DEF UnsubscribeTrack, ShapeInv, TypeOK
  <2>6. screen_subscriptions'[p] = screen_subscriptions[p] \ {u}
    BY <1>10 DEF UnsubscribeTrack, ShapeInv, TypeOK
  <2>7. \A q \in Users : RoutersByType(q, "Screen") \subseteq Handlers
    BY DEF RoutersByType, Routers
  <2>8. \A w \in Users : w \in screen_subscriptions'[p] <=>
           \E h \in RoutersByType(p, "Screen") : w \in subscriber_tracks'[h]
    BY <2>3, <2>6, <2>7 DEF WatchersAgree
  <2>9. \A w \in Users, q \in Users \ {p} : w \in screen_subscriptions'[q] <=>
           \E h \in RoutersByType(q, "Screen") : w \in subscriber_tracks'[h]
    BY <2>3, <2>4, <2>5, <2>7 DEF WatchersAgree
  <2> QED
    BY <2>2, <2>8, <2>9 DEF WatchersAgree
<1>11. ASSUME NEW u \in Users, NEW t \in TrackType, Appear(u, t) PROVE WatchersAgree'
  BY <1>1, <1>11 DEF Appear, sessionVars, handlerVars
<1>12. ASSUME NEW h \in Handlers, ListUsers(h) PROVE WatchersAgree'
  BY <1>12, WatchersKept
     DEF ListUsers, RoutersByType, Routers, ShapeInv, TypeOK, sessionVars
<1>13. ASSUME NEW h \in Handlers, NEW x \in Users, Serve(h, x) PROVE WatchersAgree'
  <2>1. step[h] = "serving"
    BY <1>13 DEF Serve, InFlight
  <2>2. \A g \in Handlers \ {h} : subscriber_tracks'[g] = subscriber_tracks[g]
    BY <1>13 DEF Serve, ShapeInv, TypeOK
  <2> QED
    BY <1>13, <2>1, <2>2, WatchersKept DEF Serve, RoutersByType, Routers, sessionVars
<1>14. ASSUME NEW h \in Handlers, Store(h) PROVE WatchersAgree'
  BY <1>14, WatchersKept
     DEF Store, InFlight, ShapeInv, TypeOK, SilentInv, RoutersByType, Routers,
         sessionVars
<1>15. ASSUME NEW h \in Handlers, NEW u \in Users, NEW t \in TrackType, OnTrack(h, u, t) PROVE WatchersAgree'
  BY <1>15, WatchersKept
     DEF OnTrack, Check, ShapeInv, TypeOK, RoutersByType, Routers, sessionVars
<1>16. ASSUME NEW p \in Polls, StartRound(p) PROVE WatchersAgree'
  BY <1>1, <1>16 DEF StartRound, sessionVars, handlerVars
<1>17. ASSUME NEW p \in Polls, EndRound(p) PROVE WatchersAgree'
  BY <1>1, <1>17 DEF EndRound, sessionVars, handlerVars
<1>18. ASSUME NEW p \in Polls, NEW t \in TrackType, SkipTrack(p, t) PROVE WatchersAgree'
  BY <1>1, <1>18 DEF SkipTrack, sessionVars, handlerVars
<1>19. ASSUME NEW p \in Polls, NEW t \in TrackType, NEW h \in Handlers, FindTrack(p, t, h) PROVE WatchersAgree'
  BY <1>19, WatchersKept
     DEF FindTrack, Check, ShapeInv, TypeOK, RoutersByType, Routers, sessionVars
<1> QED
  BY NextCases, <1>2, <1>3, <1>4, <1>5, <1>6, <1>7, <1>8, <1>9, <1>10, <1>11, <1>12,
     <1>13, <1>14, <1>15, <1>16, <1>17, <1>18, <1>19

(* Whose screen a user gets is what the session has noted, in every        *)
(* interleaving of handlers, subscriptions and newcomers.                  *)
THEOREM ScreensGoToWatchers == Spec => []WatchersAgree
<1>1. Init => SilentInv /\ WatchersAgree
  BY DEF Init, SilentInv, WatchersAgree, RoutersByType, Routers
<1>2. ShapeInv /\ SilentInv /\ WatchersAgree /\ [Next]_vars => SilentInv' /\ WatchersAgree'
  <2>1. ASSUME SilentInv, WatchersAgree, UNCHANGED vars PROVE SilentInv' /\ WatchersAgree'
    BY <2>1 DEF SilentInv, WatchersAgree, RoutersByType, Routers, vars, sessionVars, handlerVars
  <2> QED
    BY <2>1, SilentStep, WatchersStep
<1> QED
  BY <1>1, <1>2, ShapeInvariance, PTL DEF Spec

-----------------------------------------------------------------------------
(* What a poll's round began with is still to be swept, or has a router.   *)
FoundInv ==
    \A p \in Polls :
        /\ \A t \in looked[p] \ sweep[p] : HasRouter(polled[p], t)
        /\ doing[p] = "over" => rounds[p] = 0 \/ HasRouter(polled[p], "Screen")

(* Every action keeps it.                                                  *)
LEMMA FoundStep == ASSUME ShapeInv, FoundInv, Next PROVE FoundInv'
<1>0. \A u, t : HasRouter(u, t) => HasRouter(u, t)'
  BY RoutersStay
<1>1. ASSUME UNCHANGED <<doing, rounds, sweep, polled, looked>> PROVE FoundInv'
  BY <1>0, <1>1 DEF FoundInv
<1>2. ASSUME NEW u \in Users, Offer(u) PROVE FoundInv'
  BY <1>1, <1>2 DEF Offer, pollVars
<1>3. ASSUME NEW u \in Users, RejectOffer(u) PROVE FoundInv'
  BY <1>1, <1>3 DEF RejectOffer, pollVars
<1>4. ASSUME NEW u \in Users, AcceptNew(u) PROVE FoundInv'
  BY <1>1, <1>4 DEF AcceptNew, pollVars
<1>5. ASSUME NEW u \in Users, NEW p \in Polls, AcceptAgain(u, p) PROVE FoundInv'
  <2>1. looked[p] = {} /\ looked' = looked /\ sweep' = sweep /\ doing'[p] = "asleep"
    BY <1>5 DEF AcceptAgain, ShapeInv, TypeOK, PollInv
  <2>2. \A q \in Polls \ {p} : polled'[q] = polled[q] /\ doing'[q] = doing[q] /\ rounds'[q] = rounds[q]
    BY <1>5 DEF AcceptAgain, ShapeInv, TypeOK
  <2> QED
    BY <1>0, <2>1, <2>2 DEF FoundInv
<1>6. ASSUME NEW u \in Users, ReadPublishers(u) PROVE FoundInv'
  BY <1>1, <1>6 DEF ReadPublishers, pollVars
<1>7. ASSUME NEW u \in Users, NEW p \in Users, TakeRouters(u, p) PROVE FoundInv'
  BY <1>1, <1>7 DEF TakeRouters, pollVars
<1>8. ASSUME NEW u \in Users, FinishJoin(u) PROVE FoundInv'
  BY <1>1, <1>8 DEF FinishJoin, pollVars
<1>9. ASSUME NEW u \in Users, NEW p \in Users, SubscribeTrack(u, p) PROVE FoundInv'
  BY <1>1, <1>9 DEF SubscribeTrack, pollVars
<1>10. ASSUME NEW u \in Users, NEW p \in Users, UnsubscribeTrack(u, p) PROVE FoundInv'
  BY <1>1, <1>10 DEF UnsubscribeTrack, pollVars
<1>11. ASSUME NEW u \in Users, NEW t \in TrackType, Appear(u, t) PROVE FoundInv'
  BY <1>1, <1>11 DEF Appear, pollVars
<1>12. ASSUME NEW h \in Handlers, ListUsers(h) PROVE FoundInv'
  BY <1>1, <1>12 DEF ListUsers, pollVars
<1>13. ASSUME NEW h \in Handlers, NEW x \in Users, Serve(h, x) PROVE FoundInv'
  BY <1>1, <1>13 DEF Serve, pollVars
<1>14. ASSUME NEW h \in Handlers, Store(h) PROVE FoundInv'
  <2>1. CASE caller[h] \in Polls
    <3> DEFINE q == caller[h]
    <3>1. doing[q] = "waiting" /\ polled[q] = publisher[h]
      BY <1>14, <2>1 DEF Store, InFlight, ShapeInv, WaitInv, InWork
    <3>2. HasRouter(publisher[h], track_type[h])'
      BY <1>14 DEF Store, ShapeInv, TypeOK, HasRouter, RoutersByType, Routers
    <3>3. /\ sweep'[q] = sweep[q] \ {track_type[h]} /\ doing'[q] = "sweeping"
          /\ \A p \in Polls \ {q} : sweep'[p] = sweep[p] /\ doing'[p] = doing[p]
      BY <1>14, <2>1 DEF Store, ShapeInv, TypeOK
    <3>4. UNCHANGED <<polled, looked, rounds, publisher, track_type, caller>>
      BY <1>14 DEF Store
    <3>5. HasRouter(polled[q], track_type[h])'
      BY <3>1, <3>2, <3>4
    <3> QED
      BY <1>0, <2>1, <3>1, <3>3, <3>4, <3>5 DEF FoundInv
  <2>2. CASE caller[h] \notin Polls
    BY <1>14, <1>1, <2>2 DEF Store
  <2> QED
    BY <2>1, <2>2
<1>15. ASSUME NEW h \in Handlers, NEW u \in Users, NEW t \in TrackType, OnTrack(h, u, t) PROVE FoundInv'
  BY <1>1, <1>15 DEF OnTrack, pollVars
<1>16. ASSUME NEW p \in Polls, StartRound(p) PROVE FoundInv'
  <2>1. /\ looked'[p] = sweep'[p] /\ doing'[p] = "sweeping"
        /\ \A q \in Polls \ {p} : looked'[q] = looked[q] /\ sweep'[q] = sweep[q] /\ doing'[q] = doing[q]
        /\ UNCHANGED <<polled, rounds>>
    BY <1>16 DEF StartRound, ShapeInv, TypeOK
  <2> QED
    BY <1>0, <2>1 DEF FoundInv
<1>17. ASSUME NEW p \in Polls, EndRound(p) PROVE FoundInv'
  <2>1. /\ UNCHANGED <<sweep, polled, looked>>
        /\ \A q \in Polls \ {p} : doing'[q] = doing[q] /\ rounds'[q] = rounds[q]
        /\ rounds'[p] = rounds[p] - 1
    BY <1>17 DEF EndRound, ShapeInv, TypeOK
  <2>2. doing'[p] = "over" => HasRouter(polled[p], "Screen") \/ rounds[p] = 1
    BY <1>17 DEF EndRound, PollDone, LastRound, ShapeInv, TypeOK
  <2> QED
    BY <1>0, <2>1, <2>2 DEF FoundInv
<1>18. ASSUME NEW p \in Polls, NEW t \in TrackType, SkipTrack(p, t) PROVE FoundInv'
  <2>1. /\ sweep'[p] = sweep[p] \ {t} /\ HasRouter(polled[p], t)
        /\ \A q \in Polls \ {p} : sweep'[q] = sweep[q]
        /\ UNCHANGED <<doing, polled, looked, rounds>>
    BY <1>18 DEF SkipTrack, AlreadyHandled, ShapeInv, TypeOK
  <2> QED
    BY <1>0, <2>1 DEF FoundInv
<1>19. ASSUME NEW p \in Polls, NEW t \in TrackType, NEW h \in Handlers, FindTrack(p, t, h) PROVE FoundInv'
  <2>1. /\ doing'[p] = "waiting" /\ \A q \in Polls \ {p} : doing'[q] = doing[q]
        /\ UNCHANGED <<sweep, polled, looked, rounds>>
    BY <1>19 DEF FindTrack, ShapeInv, TypeOK
  <2> QED
    BY <1>0, <2>1 DEF FoundInv
<1> QED
  BY NextCases, <1>2, <1>3, <1>4, <1>5, <1>6, <1>7, <1>8, <1>9, <1>10, <1>11, <1>12,
     <1>13, <1>14, <1>15, <1>16, <1>17, <1>18, <1>19

(* Polls do what on_track may not: when a round is over, what it began     *)
(* with has routers, and no poll gives up early without a screen.          *)
THEOREM PollsFind == Spec => []PollsFindTracks
<1>1. Init => FoundInv
  BY DEF Init, FoundInv
<1>2. ShapeInv /\ FoundInv /\ [Next]_vars => FoundInv'
  <2>1. ASSUME FoundInv, UNCHANGED vars PROVE FoundInv'
    BY <2>1 DEF FoundInv, HasRouter, RoutersByType, Routers, vars, handlerVars, pollVars
  <2> QED
    BY <2>1, FoundStep
<1>3. ShapeInv /\ FoundInv => PollsFindTracks
  BY DEF ShapeInv, PollInv, FoundInv, PollsFindTracks
<1> QED
  BY <1>1, <1>2, <1>3, ShapeInvariance, PTL DEF Spec

-----------------------------------------------------------------------------
Fed(u, h) == IF track_type[h] = "Webcam" THEN u \in subscriber_tracks[h] ELSE h \in told[u]

(* A task that joins for the first time is in the session, and not joined. *)
TaskInv ==
    /\ joined \subseteq peer_connections
    /\ \A u \in Users :
          /\ task[u] # "idle" => u \in peer_connections
          /\ task[u] \in {"new", "publishers", "routers"} => u \notin joined
          /\ task[u] # "routers" => owed[u] = {}

(* Every action keeps it.                                                  *)
LEMMA TaskStep == ASSUME ShapeInv, TaskInv, Next PROVE TaskInv'
<1>1. ASSUME UNCHANGED <<peer_connections, task, owed, joined>> PROVE TaskInv'
  BY <1>1 DEF TaskInv
<1>2. ASSUME NEW u \in Users, Offer(u) PROVE TaskInv'
  BY <1>2 DEF Offer, Goto, ShapeInv, TypeOK, TaskInv
<1>3. ASSUME NEW u \in Users, RejectOffer(u) PROVE TaskInv'
  BY <1>3 DEF RejectOffer, Goto, ShapeInv, TypeOK, TaskInv
<1>4. ASSUME NEW u \in Users, AcceptNew(u) PROVE TaskInv'
  BY <1>4 DEF AcceptNew, Goto, ShapeInv, TypeOK, TaskInv
<1>5. ASSUME NEW u \in Users, NEW p \in Polls, AcceptAgain(u, p) PROVE TaskInv'
  BY <1>5 DEF AcceptAgain, Goto, ShapeInv, TypeOK, TaskInv
<1>6. ASSUME NEW u \in Users, ReadPublishers(u) PROVE TaskInv'
  BY <1>6 DEF ReadPublishers, Goto, ShapeInv, TypeOK, TaskInv
<1>7. ASSUME NEW u \in Users, NEW p \in Users, TakeRouters(u, p) PROVE TaskInv'
  BY <1>7 DEF TakeRouters, ShapeInv, TypeOK, TaskInv
<1>8. ASSUME NEW u \in Users, FinishJoin(u) PROVE TaskInv'
  BY <1>8 DEF FinishJoin, Goto, ShapeInv, TypeOK, TaskInv
<1>9. ASSUME NEW u \in Users, NEW p \in Users, SubscribeTrack(u, p) PROVE TaskInv'
  BY <1>1, <1>9 DEF SubscribeTrack, sessionVars
<1>10. ASSUME NEW u \in Users, NEW p \in Users, UnsubscribeTrack(u, p) PROVE TaskInv'
  BY <1>1, <1>10 DEF UnsubscribeTrack, sessionVars
<1>11. ASSUME NEW u \in Users, NEW t \in TrackType, Appear(u, t) PROVE TaskInv'
  BY <1>1, <1>11 DEF Appear, sessionVars
<1>12. ASSUME NEW h \in Handlers, ListUsers(h) PROVE TaskInv'
  BY <1>1, <1>12 DEF ListUsers, sessionVars
<1>13. ASSUME NEW h \in Handlers, NEW x \in Users, Serve(h, x) PROVE TaskInv'
  BY <1>1, <1>13 DEF Serve, sessionVars
<1>14. ASSUME NEW h \in Handlers, Store(h) PROVE TaskInv'
  BY <1>1, <1>14 DEF Store, sessionVars
<1>15. ASSUME NEW h \in Handlers, NEW u \in Users, NEW t \in TrackType, OnTrack(h, u, t) PROVE TaskInv'
  BY <1>1, <1>15 DEF OnTrack, sessionVars
<1>16. ASSUME NEW p \in Polls, StartRound(p) PROVE TaskInv'
  BY <1>1, <1>16 DEF StartRound, sessionVars
<1>17. ASSUME NEW p \in Polls, EndRound(p) PROVE TaskInv'
  BY <1>1, <1>17 DEF EndRound, sessionVars
<1>18. ASSUME NEW p \in Polls, NEW t \in TrackType, SkipTrack(p, t) PROVE TaskInv'
  BY <1>1, <1>18 DEF SkipTrack, sessionVars
<1>19. ASSUME NEW p \in Polls, NEW t \in TrackType, NEW h \in Handlers, FindTrack(p, t, h) PROVE TaskInv'
  BY <1>1, <1>19 DEF FindTrack, sessionVars
<1> QED
  BY NextCases, <1>2, <1>3, <1>4, <1>5, <1>6, <1>7, <1>8, <1>9, <1>10, <1>11, <1>12,
     <1>13, <1>14, <1>15, <1>16, <1>17, <1>18, <1>19

(* The handler's loop reaches its audience.                                *)
ServedInv ==
    \A h \in Handlers :
        /\ step[h] = "stored" => todo[h] = {}
        /\ step[h] \in {"serving", "stored"} =>
              \A u \in audience[h] : u \in todo[h] \/ Fed(u, h)

(* Nothing that was fed stops being fed: webcam subscriptions stay, as     *)
(* does what was told.                                                     *)
LEMMA FedStays ==
    ASSUME ShapeInv, Next, NEW u \in Users, NEW h \in Handlers, step[h] # "unborn", Fed(u, h)
    PROVE  Fed(u, h)'
<1>0. track_type'[h] = track_type[h]
  BY HandlerMoves
<1>1. ASSUME track_type[h] = "Webcam" => subscriber_tracks[h] \subseteq subscriber_tracks'[h],
             told[u] \subseteq told'[u]
      PROVE  Fed(u, h)'
  BY <1>0, <1>1 DEF Fed
<1>2. ASSUME NEW v \in Users, Offer(v) PROVE Fed(u, h)'
  BY <1>1, <1>2 DEF Offer
<1>3. ASSUME NEW v \in Users, RejectOffer(v) PROVE Fed(u, h)'
  BY <1>1, <1>3 DEF RejectOffer
<1>4. ASSUME NEW v \in Users, AcceptNew(v) PROVE Fed(u, h)'
  BY <1>1, <1>4 DEF AcceptNew
<1>5. ASSUME NEW v \in Users, NEW p \in Polls, AcceptAgain(v, p) PROVE Fed(u, h)'
  BY <1>1, <1>5 DEF AcceptAgain
<1>6. ASSUME NEW v \in Users, ReadPublishers(v) PROVE Fed(u, h)'
  BY <1>1, <1>6 DEF ReadPublishers
<1>7. ASSUME NEW v \in Users, NEW p \in Users, TakeRouters(v, p) PROVE Fed(u, h)'
  BY <1>1, <1>7 DEF TakeRouters, ShapeInv, TypeOK
<1>8. ASSUME NEW v \in Users, FinishJoin(v) PROVE Fed(u, h)'
  BY <1>1, <1>8 DEF FinishJoin
<1>9. ASSUME NEW v \in Users, NEW p \in Users, SubscribeTrack(v, p) PROVE Fed(u, h)'
  BY <1>1, <1>9 DEF SubscribeTrack
<1>10. ASSUME NEW v \in Users, NEW p \in Users, UnsubscribeTrack(v, p) PROVE Fed(u, h)'
  BY <1>1, <1>10 DEF UnsubscribeTrack, UnsubscribedFrom, RoutersByType
<1>11. ASSUME NEW v \in Users, NEW t \in TrackType, Appear(v, t) PROVE Fed(u, h)'
  BY <1>1, <1>11 DEF Appear
<1>12. ASSUME NEW g \in Handlers, ListUsers(g) PROVE Fed(u, h)'
  BY <1>1, <1>12 DEF ListUsers
<1>13. ASSUME NEW g \in Handlers, NEW x \in Users, Serve(g, x) PROVE Fed(u, h)'
  <2>1. subscriber_tracks[h] \subseteq subscriber_tracks'[h]
    BY <1>13 DEF Serve, ShapeInv, TypeOK
  <2>2. told' = told \/ told' = [told EXCEPT ![x] = told[x] \cup {g}]
    BY <1>13 DEF Serve
  <2>3. told[u] \subseteq told'[u]
    <3>1. told \in [Users -> SUBSET Handlers]
      BY DEF ShapeInv, TypeOK
    <3> QED
      BY <2>2, <3>1
  <2> QED
    BY <1>1, <2>1, <2>3
<1>14. ASSUME NEW g \in Handlers, Store(g) PROVE Fed(u, h)'
  BY <1>1, <1>14 DEF Store
<1>15. ASSUME NEW g \in Handlers, NEW v \in Users, NEW t \in TrackType, OnTrack(g, v, t) PROVE Fed(u, h)'
  BY <1>1, <1>15 DEF OnTrack
<1>16. ASSUME NEW p \in Polls, StartRound(p) PROVE Fed(u, h)'
  BY <1>1, <1>16 DEF StartRound
<1>17. ASSUME NEW p \in Polls, EndRound(p) PROVE Fed(u, h)'
  BY <1>1, <1>17 DEF EndRound
<1>18. ASSUME NEW p \in Polls, NEW t \in TrackType, SkipTrack(p, t) PROVE Fed(u, h)'
  BY <1>1, <1>18 DEF SkipTrack
<1>19. ASSUME NEW p \in Polls, NEW t \in TrackType, NEW g \in Handlers, FindTrack(p, t, g) PROVE Fed(u, h)'
  BY <1>1, <1>19 DEF FindTrack
<1> QED
  BY NextCases, <1>2, <1>3, <1>4, <1>5, <1>6, <1>7, <1>8, <1>9, <1>10, <1>11, <1>12,
     <1>13, <1>14, <1>15, <1>16, <1>17, <1>18, <1>19

(* Every action keeps it.                                                  *)
LEMMA ServedStep == ASSUME ShapeInv, ServedInv, Next PROVE ServedInv'
<1>0. \A h \in Handlers, u \in Users : step[h] # "unborn" /\ Fed(u, h) => Fed(u, h)'
  BY FedStays
<1>1. ASSUME UNCHANGED <<step, audience, todo>> PROVE ServedInv'
  BY <1>0, <1>1 DEF ServedInv, ShapeInv, TypeOK
<1>2. ASSUME NEW u \in Users, Offer(u) PROVE ServedInv'
  BY <1>1, <1>2 DEF Offer, handlerVars
<1>3. ASSUME NEW u \in Users, RejectOffer(u) PROVE ServedInv'
  BY <1>1, <1>3 DEF RejectOffer, handlerVars
<1>4. ASSUME NEW u \in Users, AcceptNew(u) PROVE ServedInv'
  BY <1>1, <1>4 DEF AcceptNew, handlerVars
<1>5. ASSUME NEW u \in Users, NEW p \in Polls, AcceptAgain(u, p) PROVE ServedInv'
  BY <1>1, <1>5 DEF AcceptAgain, handlerVars
<1>6. ASSUME NEW u \in Users, ReadPublishers(u) PROVE ServedInv'
  BY <1>1, <1>6 DEF ReadPublishers, handlerVars
<1>7. ASSUME NEW u \in Users, NEW p \in Users, TakeRouters(u, p) PROVE ServedInv'
  BY <1>1, <1>7 DEF TakeRouters, handlerVars
<1>8. ASSUME NEW u \in Users, FinishJoin(u) PROVE ServedInv'
  BY <1>1, <1>8 DEF FinishJoin, handlerVars
<1>9. ASSUME NEW u \in Users, NEW p \in Users, SubscribeTrack(u, p) PROVE ServedInv'
  BY <1>1, <1>9 DEF SubscribeTrack, handlerVars
<1>10. ASSUME NEW u \in Users, NEW p \in Users, UnsubscribeTrack(u, p) PROVE ServedInv'
  BY <1>1, <1>10 DEF UnsubscribeTrack, handlerVars
<1>11. ASSUME NEW u \in Users, NEW t \in TrackType, Appear(u, t) PROVE ServedInv'
  BY <1>1, <1>11 DEF Appear, handlerVars
<1>12. ASSUME NEW h \in Handlers, ListUsers(h) PROVE ServedInv'
  <2>1. audience'[h] = todo'[h] /\ step'[h] = "serving"
    BY <1>12 DEF ListUsers, ShapeInv, TypeOK
  <2>2. \A g \in Handlers \ {h} : step'[g] = step[g] /\ audience'[g] = audience[g] /\ todo'[g] = todo[g]
    BY <1>12 DEF ListUsers, ShapeInv, TypeOK
  <2> QED
    BY <1>0, <2>1, <2>2 DEF ServedInv, ShapeInv, TypeOK
<1>13. ASSUME NEW h \in Handlers, NEW x \in Users, Serve(h, x) PROVE ServedInv'
  <2>1. Fed(x, h)'
    BY <1>13 DEF Serve, Fed, ShapeInv, TypeOK, TrackType
  <2>2. /\ todo'[h] = todo[h] \ {x} /\ UNCHANGED <<step, audience>> /\ step[h] = "serving"
        /\ \A g \in Handlers \ {h} : todo'[g] = todo[g]
    BY <1>13 DEF Serve, InFlight, ShapeInv, TypeOK
  <2> QED
    BY <1>0, <2>1, <2>2 DEF ServedInv, ShapeInv, TypeOK
<1>14. ASSUME NEW h \in Handlers, Store(h) PROVE ServedInv'
  <2>1. /\ todo[h] = {} /\ step[h] = "serving" /\ UNCHANGED <<audience, todo>>
        /\ \A g \in Handlers \ {h} : step'[g] = step[g]
    BY <1>14 DEF Store, InFlight, ShapeInv, TypeOK
  <2> QED
    BY <1>0, <2>1 DEF ServedInv, ShapeInv, TypeOK
<1>15. ASSUME NEW h \in Handlers, NEW u \in Users, NEW t \in TrackType, OnTrack(h, u, t) PROVE ServedInv'
  <2>1. /\ step'[h] = "checked" /\ UNCHANGED <<audience, todo>>
        /\ \A g \in Handlers \ {h} : step'[g] = step[g]
    BY <1>15 DEF OnTrack, Check, ShapeInv, TypeOK
  <2> QED
    BY <1>0, <2>1 DEF ServedInv, ShapeInv, TypeOK
<1>16. ASSUME NEW p \in Polls, StartRound(p) PROVE ServedInv'
  BY <1>1, <1>16 DEF StartRound, handlerVars
<1>17. ASSUME NEW p \in Polls, EndRound(p) PROVE ServedInv'
  BY <1>1, <1>17 DEF EndRound, handlerVars
<1>18. ASSUME NEW p \in Polls, NEW t \in TrackType, SkipTrack(p, t) PROVE ServedInv'
  BY <1>1, <1>18 DEF SkipTrack, handlerVars
<1>19. ASSUME NEW p \in Polls, NEW t \in TrackType, NEW h \in Handlers, FindTrack(p, t, h) PROVE ServedInv'
  <2>1. /\ step'[h] = "checked" /\ UNCHANGED <<audience, todo>>
        /\ \A g \in Handlers \ {h} : step'[g] = step[g]
    BY <1>19 DEF FindTrack, Check, ShapeInv, TypeOK
  <2> QED
    BY <1>0, <2>1 DEF ServedInv, ShapeInv, TypeOK
<1> QED
  BY NextCases, <1>2, <1>3, <1>4, <1>5, <1>6, <1>7, <1>8, <1>9, <1>10, <1>11, <1>12,
     <1>13, <1>14, <1>15, <1>16, <1>17, <1>18, <1>19

(* The newcomer's loop reaches the rest.                                   *)
JoinInv ==
    \A u \in Users, h \in Handlers :
        /\ u \in joined \/ task[u] = "routers"
        /\ step[h] \in {"serving", "stored"} /\ publisher[h] # u
        /\ u \notin audience[h] /\ <<u, h>> \notin missed
        => publisher[h] \in owed[u] \/ (step[h] = "stored" /\ Fed(u, h))

(* Every action keeps it: the two loops meet.                              *)
LEMMA JoinStep == ASSUME ShapeInv, TaskInv, ServedInv, JoinInv, Next PROVE JoinInv'
<1> DEFINE Past(h) == step[h] \in {"serving", "stored"}
<1> DEFINE Joins(u) == u \in joined \/ task[u] = "routers"
<1> DEFINE Done(u, h) == publisher[h] \in owed[u] \/ (step[h] = "stored" /\ Fed(u, h))
<1>0. \A h \in Handlers, u \in Users : step[h] # "unborn" /\ Fed(u, h) => Fed(u, h)'
  BY FedStays
<1>1. ASSUME \A u \in Users : Joins(u)' => Joins(u),
             \A u \in Users : owed[u] \subseteq owed'[u],
             UNCHANGED <<step, publisher, audience>>, missed \subseteq missed'
      PROVE  JoinInv'
  BY <1>0, <1>1 DEF JoinInv
<1>2. ASSUME NEW u \in Users, Offer(u) PROVE JoinInv'
  BY <1>1, <1>2 DEF Offer, Goto, ShapeInv, TypeOK, handlerVars
<1>3. ASSUME NEW u \in Users, RejectOffer(u) PROVE JoinInv'
  BY <1>1, <1>3 DEF RejectOffer, Goto, ShapeInv, TypeOK, handlerVars
<1>4. ASSUME NEW u \in Users, AcceptNew(u) PROVE JoinInv'
  BY <1>1, <1>4 DEF AcceptNew, Goto, ShapeInv, TypeOK, handlerVars
<1>5. ASSUME NEW u \in Users, NEW p \in Polls, AcceptAgain(u, p) PROVE JoinInv'
  BY <1>1, <1>5 DEF AcceptAgain, Goto, ShapeInv, TypeOK, handlerVars
<1>6. ASSUME NEW u \in Users, ReadPublishers(u) PROVE JoinInv'
  <2>1. /\ owed'[u] = Publishers \ {u} /\ task'[u] = "routers"
        /\ \A v \in Users \ {u} : owed'[v] = owed[v] /\ task'[v] = task[v]
        /\ UNCHANGED <<step, publisher, audience, joined>> /\ missed \subseteq missed'
    BY <1>6 DEF ReadPublishers, Goto, ShapeInv, TypeOK, handlerVars
  <2>2. ASSUME NEW h \in Handlers, Past(h), publisher[h] # u, u \notin audience[h], <<u, h>> \notin missed'
        PROVE  publisher[h] \in owed'[u]
    <3>1. CASE step[h] = "serving"
      BY <1>6, <2>1, <2>2, <3>1 DEF ReadPublishers, InFlight
    <3>2. CASE step[h] = "stored"
      BY <2>1, <2>2, <3>2 DEF Publishers, Routers, ShapeInv, WaitInv
    <3> QED
      BY <2>2, <3>1, <3>2
  <2>3. ASSUME NEW v \in Users \ {u}, NEW h \in Handlers, Joins(v)', Past(h)', publisher'[h] # v,
               v \notin audience'[h], <<v, h>> \notin missed'
        PROVE  Done(v, h)'
    BY <1>0, <2>1, <2>3 DEF JoinInv
  <2> QED
    BY <2>1, <2>2, <2>3 DEF JoinInv
<1>7. ASSUME NEW u \in Users, NEW p \in Users, TakeRouters(u, p) PROVE JoinInv'
  <2>1. /\ owed'[u] = owed[u] \ {p} /\ task[u] = "routers"
        /\ \A v \in Users \ {u} : owed'[v] = owed[v]
        /\ UNCHANGED <<step, publisher, track_type, audience, joined, task>> /\ missed \subseteq missed'
    BY <1>7 DEF TakeRouters, ShapeInv, TypeOK, handlerVars
  <2>2. ASSUME NEW h \in Handlers, step[h] = "stored", publisher[h] = p PROVE Fed(u, h)'
    BY <1>7, <2>1, <2>2 DEF TakeRouters, WebcamsOf, RoutersByType, Routers, Fed, ShapeInv, TypeOK
  <2>3. ASSUME NEW h \in Handlers, step[h] = "serving", publisher[h] = p, u \notin audience[h]
        PROVE  <<u, h>> \in missed'
    BY <1>7, <2>3 DEF TakeRouters, InFlight
  <2>4. ASSUME NEW v \in Users, NEW h \in Handlers, Joins(v)', Past(h)', publisher'[h] # v,
               v \notin audience'[h], <<v, h>> \notin missed'
        PROVE  Done(v, h)'
    <3>1. Done(v, h)
      BY <2>1, <2>4 DEF JoinInv
    <3>2. CASE v = u /\ publisher[h] = p
      BY <2>1, <2>2, <2>3, <2>4, <3>2
    <3>3. CASE v # u \/ publisher[h] # p
      BY <1>0, <2>1, <3>1, <3>3
    <3> QED
      BY <3>2, <3>3
  <2> QED
    BY <2>4 DEF JoinInv
<1>8. ASSUME NEW u \in Users, FinishJoin(u) PROVE JoinInv'
  <2>1. \A v \in Users : Joins(v)' => Joins(v)
    BY <1>8 DEF FinishJoin, Goto, ShapeInv, TypeOK
  <2> QED
    BY <1>1, <1>8, <2>1 DEF FinishJoin, handlerVars
<1>9. ASSUME NEW u \in Users, NEW p \in Users, SubscribeTrack(u, p) PROVE JoinInv'
  BY <1>1, <1>9 DEF SubscribeTrack, handlerVars
<1>10. ASSUME NEW u \in Users, NEW p \in Users, UnsubscribeTrack(u, p) PROVE JoinInv'
  BY <1>1, <1>10 DEF UnsubscribeTrack, handlerVars
<1>11. ASSUME NEW u \in Users, NEW t \in TrackType, Appear(u, t) PROVE JoinInv'
  BY <1>1, <1>11 DEF Appear, sessionVars, handlerVars
<1>12. ASSUME NEW h \in Handlers, ListUsers(h) PROVE JoinInv'
  <2>1. /\ audience'[h] = peer_connections \ {publisher[h]}
        /\ \A g \in Handlers \ {h} : step'[g] = step[g] /\ audience'[g] = audience[g]
        /\ UNCHANGED <<publisher, joined, task, owed, missed>>
    BY <1>12 DEF ListUsers, ShapeInv, TypeOK, sessionVars
  <2>2. \A u \in Users : Joins(u) => u \in peer_connections
    BY DEF TaskInv
  <2>3. ASSUME NEW v \in Users, NEW g \in Handlers \ {h}, Joins(v)', Past(g)', publisher'[g] # v,
               v \notin audience'[g], <<v, g>> \notin missed'
        PROVE  Done(v, g)'
    BY <1>0, <2>1, <2>3 DEF JoinInv
  <2> QED
    BY <2>1, <2>2, <2>3 DEF JoinInv
<1>13. ASSUME NEW h \in Handlers, NEW x \in Users, Serve(h, x) PROVE JoinInv'
  <2>1. UNCHANGED <<step, publisher, audience, joined, task, owed, missed>>
    BY <1>13 DEF Serve, sessionVars
  <2> QED
    BY <1>1, <2>1
<1>14. ASSUME NEW h \in Handlers, Store(h) PROVE JoinInv'
  <2>1. /\ step[h] = "serving" /\ step'[h] = "stored"
        /\ \A g \in Handlers \ {h} : step'[g] = step[g]
        /\ UNCHANGED <<publisher, audience, joined, task, owed, missed>>
    BY <1>14 DEF Store, InFlight, ShapeInv, TypeOK, sessionVars
  <2>2. ASSUME NEW v \in Users, NEW g \in Handlers, Joins(v)', Past(g)', publisher'[g] # v,
               v \notin audience'[g], <<v, g>> \notin missed'
        PROVE  Done(v, g)'
    <3>1. Done(v, g)
      BY <2>1, <2>2 DEF JoinInv
    <3> QED
      BY <1>0, <2>1, <3>1
  <2> QED
    BY <2>2 DEF JoinInv
<1>15. ASSUME NEW h \in Handlers, NEW u \in Users, NEW t \in TrackType, OnTrack(h, u, t) PROVE JoinInv'
  <2>1. /\ step'[h] = "checked"
        /\ \A g \in Handlers \ {h} : step'[g] = step[g] /\ publisher'[g] = publisher[g]
        /\ UNCHANGED <<audience, joined, task, owed, missed>>
    BY <1>15 DEF OnTrack, Check, ShapeInv, TypeOK, sessionVars
  <2>2. ASSUME NEW v \in Users, NEW g \in Handlers, Joins(v)', Past(g)', publisher'[g] # v,
               v \notin audience'[g], <<v, g>> \notin missed'
        PROVE  Done(v, g)'
    <3>1. g # h /\ Done(v, g)
      BY <2>1, <2>2 DEF JoinInv
    <3> QED
      BY <1>0, <2>1, <3>1
  <2> QED
    BY <2>2 DEF JoinInv
<1>16. ASSUME NEW p \in Polls, StartRound(p) PROVE JoinInv'
  BY <1>1, <1>16 DEF StartRound, sessionVars, handlerVars
<1>17. ASSUME NEW p \in Polls, EndRound(p) PROVE JoinInv'
  BY <1>1, <1>17 DEF EndRound, sessionVars, handlerVars
<1>18. ASSUME NEW p \in Polls, NEW t \in TrackType, SkipTrack(p, t) PROVE JoinInv'
  BY <1>1, <1>18 DEF SkipTrack, sessionVars, handlerVars
<1>19. ASSUME NEW p \in Polls, NEW t \in TrackType, NEW h \in Handlers, FindTrack(p, t, h) PROVE JoinInv'
  <2>1. /\ step'[h] = "checked"
        /\ \A g \in Handlers \ {h} : step'[g] = step[g] /\ publisher'[g] = publisher[g]
        /\ UNCHANGED <<audience, joined, task, owed, missed>>
    BY <1>19 DEF FindTrack, Check, ShapeInv, TypeOK, sessionVars
  <2>2. ASSUME NEW v \in Users, NEW g \in Handlers, Joins(v)', Past(g)', publisher'[g] # v,
               v \notin audience'[g], <<v, g>> \notin missed'
        PROVE  Done(v, g)'
    <3>1. g # h /\ Done(v, g)
      BY <2>1, <2>2 DEF JoinInv
    <3> QED
      BY <1>0, <2>1, <3>1
  <2> QED
    BY <2>2 DEF JoinInv
<1> QED
  BY NextCases, <1>2, <1>3, <1>4, <1>5, <1>6, <1>7, <1>8, <1>9, <1>10, <1>11, <1>12,
     <1>13, <1>14, <1>15, <1>16, <1>17, <1>18, <1>19

ReachInv == TaskInv /\ ServedInv /\ JoinInv

(* Every user whose join went through is fed by every webcam router of     *)
(* others, and told of every screen, but where the two overlapped: whoever *)
(* is not in a handler's list of users finds its publisher in the list of  *)
(* publishers.                                                             *)
THEOREM EverybodyIsReached == Spec => []Reached
<1>1. Init => ReachInv
  BY DEF Init, ReachInv, TaskInv, ServedInv, JoinInv
<1>2. ShapeInv /\ ReachInv /\ [Next]_vars => ReachInv'
  <2>1. ASSUME ReachInv, UNCHANGED vars PROVE ReachInv'
    BY <2>1 DEF ReachInv, TaskInv, ServedInv, JoinInv, Fed, vars, sessionVars, handlerVars
  <2> QED
    BY <2>1, TaskStep, ServedStep, JoinStep DEF ReachInv
<1>3. ShapeInv /\ ReachInv => Reached
  <2> SUFFICES ASSUME ShapeInv, ReachInv, NEW u \in joined, NEW h \in Handlers,
                      step[h] = "stored", publisher[h] # u, <<u, h>> \notin missed
               PROVE  Fed(u, h)
    BY DEF Reached, Fed
  <2>1. u \in Users /\ owed[u] \in SUBSET Users
    BY DEF ShapeInv, TypeOK
  <2>2. owed[u] = {} \/ task[u] = "routers"
    BY <2>1 DEF ReachInv, TaskInv
  <2>3. task[u] # "routers"
    BY <2>1 DEF ReachInv, TaskInv
  <2>4. CASE u \in audience[h]
    BY <2>4 DEF ReachInv, ServedInv
  <2>5. CASE u \notin audience[h]
    BY <2>1, <2>2, <2>3, <2>5 DEF ReachInv, JoinInv
  <2> QED
    BY <2>4, <2>5
<1> QED
  BY <1>1, <1>2, <1>3, ShapeInvariance, PTL DEF Spec
=============================================================================
