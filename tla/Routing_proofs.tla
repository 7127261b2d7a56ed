---------------------------- MODULE Routing_proofs ----------------------------
(***************************************************************************)
(* What TLC checks of Routing on the configurations of MCRouting, proved   *)
(* for every set of validated configurations, every gap and every cap.     *)
(*                                                                         *)
(* The inductive invariant is Routing's IInv.  Its preservation is split   *)
(* by action; the lemmas below say once what several actions share.        *)
(***************************************************************************)
EXTENDS Routing, TLAPS

USE DEF None

\* Ages are integers from None to the cap, and growing older keeps them so.
LEMMA OlderAge ==
    ASSUME NEW age \in Age
    PROVE  /\ Older(age) \in Age
           /\ Older(age) = None <=> age = None
           /\ Older(age) >= age
           /\ age < MaxAge /\ age # None => Older(age) = age + 1
  BY TimeAssumption DEF Age, Older

\* A route of a validated configuration has a DG-ID and a talkgroup.
LEMMA RouteTyped ==
    ASSUME NEW c \in Config, NEW d, HasRoute(c, d)
    PROVE  d \in DgId /\ TalkgroupOf(c, d) \in Talkgroup
  BY ConfigAssumption DEF HasRoute, Validated, TalkgroupOf

\* The thresholds of a configuration are numbers below the cap.
LEMMA ConfigTyped ==
    ASSUME NEW c \in Config
    PROVE  /\ c.returnAfter \in Nat /\ c.silence \in Nat
           /\ c.suppress \in BOOLEAN
           /\ c.returnAfter # 0 => c.returnAfter > SelectorGap
           /\ c.returnAfter <= MaxAge /\ c.silence <= MaxAge
  BY ConfigAssumption, TimeAssumption DEF Validated

\* While the process serves, the return to default leaves the transport on
\* the talkgroup of an enabled route.
LEMMA AfterReturn ==
    ASSUME IInv, status = "serving"
    PROVE  /\ HasRoute(config, CurrentDgid)
           /\ CurrentTg = TalkgroupOf(config, CurrentDgid)
           /\ CurrentDgid \in DgId
           /\ CurrentTg \in Talkgroup
           /\ CurrentDgid \in {activeDgid, config.defaultDgid}
  <1>1. /\ HasRoute(config, CurrentDgid)
        /\ CurrentTg = TalkgroupOf(config, CurrentDgid)
        /\ CurrentDgid \in {activeDgid, config.defaultDgid}
    BY DEF IInv, TransportFollowsRoute, CurrentDgid, CurrentTg
  <1>2. config \in Config
    BY DEF IInv, TypeOK
  <1>3. QED
    BY <1>1, <1>2, RouteTyped

LEMMA InitIInv == Init => IInv
  <1> SUFFICES ASSUME Init PROVE IInv
    OBVIOUS
  <1>1. TypeOK
    BY TimeAssumption DEF Init, TypeOK, Age, NoResult, PacketResult
  <1>2. QED
    BY <1>1, TimeAssumption DEF Init, IInv, TransportFollowsRoute, SuppressionMatchesRoute,
       VoiceClock, OneFate, DownIsBlank, NoResult

LEMMA StartIInv == IInv /\ Start => IInv'
  <1> SUFFICES ASSUME IInv, Start PROVE IInv'
    OBVIOUS
  <1>1. PICK c \in Config : /\ HasRoute(c, c.defaultDgid)
                            /\ config' = c
                            /\ activeDgid' = c.defaultDgid
                            /\ selectedTg' = TalkgroupOf(c, c.defaultDgid)
    BY DEF Start
  <1>2. /\ activeDgid' \in DgId
        /\ selectedTg' \in Talkgroup
    BY <1>1, RouteTyped
  <1>3. TypeOK'
    BY <1>1, <1>2 DEF Start, IInv, TypeOK, air
  <1>4. TransportFollowsRoute'
    BY <1>1 DEF Start, IInv, TransportFollowsRoute, DownIsBlank, NoResult, HasRoute, TalkgroupOf
  <1>5. QED
    BY <1>1, <1>3, <1>4 DEF Start, IInv, SuppressionMatchesRoute, VoiceClock, OneFate,
       DownIsBlank, HasRoute, air, TypeOK

LEMMA CrashIInv == IInv /\ Crash => IInv'
  <1> SUFFICES ASSUME IInv, Crash PROVE IInv'
    OBVIOUS
  <1>1. TypeOK'
    BY TimeAssumption DEF Crash, Forget, IInv, TypeOK, Age, NoResult, PacketResult
  <1>2. QED
    BY <1>1, TimeAssumption DEF Crash, Forget, IInv, TransportFollowsRoute,
       SuppressionMatchesRoute, VoiceClock, OneFate, DownIsBlank, NoResult

LEMMA TickIInv == IInv /\ Tick => IInv'
  <1> SUFFICES ASSUME IInv, Tick PROVE IInv'
    OBVIOUS
  <1>1. /\ sinceVoice \in Age
        /\ sinceSuppressed \in Age
        /\ sinceAir \in Age
        /\ config \in Config
    BY DEF IInv, TypeOK
  <1>2. TypeOK'
    BY <1>1, OlderAge DEF Tick, IInv, TypeOK
  <1>3. VoiceClock'
    BY <1>1, OlderAge, TimeAssumption DEF Tick, IInv, VoiceClock, Age, Older
  <1>4. OneFate'
    <2>1. Older(sinceAir) <= SelectorGap => sinceAir <= SelectorGap
      BY <1>1, OlderAge, TimeAssumption DEF Age
    <2>2. QED
      BY <2>1 DEF IInv, OneFate, Tick
  <1>5. QED
    BY <1>1, <1>2, <1>3, <1>4, OlderAge
       DEF Tick, IInv, TransportFollowsRoute, SuppressionMatchesRoute, DownIsBlank

\* A datagram that is no frame: only the return timer can change anything.
LEMMA PollIInv == IInv /\ (Poll \/ Ignored) => IInv'
  <1> SUFFICES ASSUME IInv, Poll \/ Ignored PROVE IInv'
    OBVIOUS
  <1>1. /\ status = "serving"
        /\ activeDgid' = CurrentDgid
        /\ selectedTg' = CurrentTg
        /\ UNCHANGED <<status, config, sinceVoice, suppressDgid, sinceSuppressed,
                       airDgid, sinceAir, airTg>>
    BY DEF Poll, Ignored, air
  <1>2. /\ result'.talkgroup \in {None, CurrentTg}
        /\ result' \in PacketResult
    <2>1. CASE Poll
      BY <1>1, <2>1, AfterReturn DEF Poll, Result, PacketResult
    <2>2. CASE Ignored
      BY <2>2 DEF Ignored, Result, PacketResult
    <2>3. QED
      BY <2>1, <2>2
  <1>3. TypeOK'
    BY <1>1, <1>2, AfterReturn DEF IInv, TypeOK
  <1>4. TransportFollowsRoute'
    BY <1>1, <1>2, AfterReturn DEF TransportFollowsRoute, HasRoute, TalkgroupOf
  <1>5. SuppressionMatchesRoute'
    BY <1>1, AfterReturn DEF IInv, SuppressionMatchesRoute, HasRoute
  <1>6. VoiceClock'
    BY <1>1 DEF IInv, VoiceClock
  <1>7. OneFate'
    \* Carried frames keep the timer from running out; a dropped burst does
    \* not depend on the route.
    <2>1. SUFFICES ASSUME airDgid # None
                   PROVE  OneFate'
      BY <1>1 DEF OneFate
    <2>2. CASE airTg = None \/ ~(sinceAir <= SelectorGap)
      BY <1>1, <2>1, <2>2 DEF IInv, OneFate
    <2>3. CASE airTg # None /\ sinceAir <= SelectorGap
      <3>1. sinceVoice = sinceAir
        BY <2>1, <2>3 DEF IInv, OneFate
      <3>2. ~ReturnDue
        BY <2>1, <2>3, <3>1, ConfigTyped, TimeAssumption DEF ReturnDue, IInv, TypeOK, Age
      <3>3. activeDgid' = activeDgid /\ selectedTg' = selectedTg
        BY <1>1, <3>2 DEF CurrentDgid, CurrentTg
      <3>4. QED
        BY <1>1, <2>1, <2>3, <3>3 DEF IInv, OneFate, HasRoute
    <2>4. QED
      BY <2>2, <2>3
  <1>8. QED
    BY <1>1, <1>3, <1>4, <1>5, <1>6, <1>7 DEF IInv, DownIsBlank, HasRoute

LEMMA SuppressedFrameIInv ==
    ASSUME IInv, NEW d \in DgId, SuppressedFrame(d)
    PROVE  IInv'
  <1>1. /\ status = "serving"
        /\ activeDgid' = CurrentDgid
        /\ selectedTg' = CurrentTg
        /\ sinceSuppressed' = 0
        /\ suppressDgid = d
        /\ airDgid' = d /\ sinceAir' = 0 /\ airTg' = None
        /\ UNCHANGED <<status, config, sinceVoice, suppressDgid>>
    BY DEF SuppressedFrame, Suppressing, OnAir
  <1>2. /\ result'.talkgroup = CurrentTg
        /\ result' \in PacketResult
    BY <1>1, AfterReturn DEF SuppressedFrame, Result, PacketResult
  <1>3. d # None
    BY IdAssumption
  <1>4. TypeOK'
    BY <1>1, <1>2, AfterReturn, TimeAssumption DEF IInv, TypeOK, Age
  <1>5. TransportFollowsRoute'
    BY <1>1, <1>2, AfterReturn DEF TransportFollowsRoute, HasRoute, TalkgroupOf
  <1>6. SuppressionMatchesRoute'
    BY <1>1, AfterReturn DEF IInv, SuppressionMatchesRoute, HasRoute
  <1>7. VoiceClock'
    \* A burst is only ever being dropped after a frame has been heard.
    <2>1. sinceVoice # None
      BY <1>1, <1>3 DEF IInv, VoiceClock
    <2>2. QED
      BY <1>1, <1>3, <2>1 DEF IInv, VoiceClock, SuppressionMatchesRoute, TypeOK, Age
  <1>8. OneFate'
    BY <1>1, <1>3 DEF OneFate
  <1>9. QED
    BY <1>1, <1>3, <1>4, <1>5, <1>6, <1>7, <1>8 DEF IInv, DownIsBlank, HasRoute

LEMMA ForwardedFrameIInv ==
    ASSUME IInv, NEW d \in DgId, ForwardedFrame(d)
    PROVE  IInv'
  <1>1. /\ status = "serving"
        /\ activeDgid' = CurrentDgid
        /\ selectedTg' = CurrentTg
        /\ sinceVoice' = 0
        /\ ~Suppressing(d)
        /\ ForgetBurst
        /\ airDgid' = d /\ sinceAir' = 0 /\ airTg' = CurrentTg
        /\ UNCHANGED <<status, config>>
    BY DEF ForwardedFrame, OnAir
  <1>2. /\ result'.talkgroup = CurrentTg
        /\ result' \in PacketResult
    BY <1>1, AfterReturn DEF ForwardedFrame, Result, PacketResult
  <1>3. d # None /\ CurrentTg # None
    BY <1>1, AfterReturn, IdAssumption
  <1>4. /\ suppressDgid' \in {suppressDgid, None}
        /\ suppressDgid' # d
        /\ \/ suppressDgid' = suppressDgid /\ sinceSuppressed' = sinceSuppressed
           \/ suppressDgid' = None /\ sinceSuppressed' = None
    BY <1>1, <1>3 DEF ForgetBurst, Suppressing
  <1>5. TypeOK'
    BY <1>1, <1>2, <1>4, AfterReturn, TimeAssumption DEF IInv, TypeOK, Age
  <1>6. TransportFollowsRoute'
    BY <1>1, <1>2, AfterReturn DEF TransportFollowsRoute, HasRoute, TalkgroupOf
  <1>7. SuppressionMatchesRoute'
    BY <1>1, <1>4, AfterReturn DEF IInv, SuppressionMatchesRoute, HasRoute
  <1>8. VoiceClock'
    BY <1>1, <1>3 DEF VoiceClock
  <1>9. OneFate'
    \* A frame of another enabled route is only forwarded when it is blocked,
    \* and a silence period of 0 blocks nothing.
    <2>1. HasRoute(config, d) /\ d # CurrentDgid => config.silence # 0
      <3>1. SUFFICES ASSUME HasRoute(config, d), d # CurrentDgid
                     PROVE  config.silence # 0
        OBVIOUS
      <3>2. ~SilencePassed
        BY <3>1 DEF ForwardedFrame
      <3>3. QED
        BY <3>2, ConfigTyped DEF SilencePassed, IInv, TypeOK, Age
    <2>2. QED
      BY <1>1, <1>3, <1>4, <2>1 DEF OneFate, HasRoute
  <1>10. QED
    BY <1>1, <1>3, <1>4, <1>5, <1>6, <1>7, <1>8, <1>9 DEF IInv, DownIsBlank, HasRoute

\* The two ways a frame changes the route: carried, or dropped.
LEMMA ChangesRouteIInv ==
    ASSUME IInv, NEW d \in DgId, SelectAndForward(d) \/ SuppressSelector(d)
    PROVE  IInv'
  <1>1. /\ status = "serving"
        /\ HasRoute(config, d)
        /\ activeDgid' = d
        /\ selectedTg' = TalkgroupOf(config, d)
        /\ sinceVoice' = 0
        /\ airDgid' = d /\ sinceAir' = 0
        /\ UNCHANGED <<status, config>>
    BY DEF SelectAndForward, SuppressSelector, ChangesRoute, OnAir
  <1>2. TalkgroupOf(config, d) \in Talkgroup
    BY <1>1, RouteTyped DEF IInv, TypeOK
  <1>3. /\ result'.talkgroup = TalkgroupOf(config, d)
        /\ result' \in PacketResult
    <2>1. CASE SelectAndForward(d)
      BY <1>2, <2>1 DEF SelectAndForward, Result, PacketResult
    <2>2. CASE SuppressSelector(d)
      BY <1>2, <2>2 DEF SuppressSelector, Result, PacketResult
    <2>3. QED
      BY <2>1, <2>2
  <1>4. d # None /\ TalkgroupOf(config, d) # None
    BY <1>2, IdAssumption
  <1>5. \/ /\ ~config.suppress
           /\ suppressDgid' = None /\ sinceSuppressed' = None
           /\ airTg' = TalkgroupOf(config, d)
        \/ /\ config.suppress
           /\ suppressDgid' = d /\ sinceSuppressed' = 0
           /\ airTg' = None
    BY <1>1 DEF SelectAndForward, SuppressSelector, OnAir, ForgetBurst, IInv,
       SuppressionMatchesRoute, BurstOver
  <1>6. TypeOK'
    BY <1>1, <1>2, <1>3, <1>5, TimeAssumption DEF IInv, TypeOK, Age
  <1>7. TransportFollowsRoute'
    BY <1>1, <1>3 DEF TransportFollowsRoute, HasRoute, TalkgroupOf
  <1>8. SuppressionMatchesRoute'
    BY <1>1, <1>5 DEF SuppressionMatchesRoute, HasRoute
  <1>9. VoiceClock'
    BY <1>1, <1>4 DEF VoiceClock
  <1>10. OneFate'
    BY <1>1, <1>4, <1>5 DEF OneFate, HasRoute
  <1>11. QED
    BY <1>1, <1>4, <1>5, <1>6, <1>7, <1>8, <1>9, <1>10 DEF IInv, DownIsBlank, HasRoute

LEMMA StutterIInv == IInv /\ UNCHANGED vars => IInv'
  BY DEF IInv, vars, routing, air, TypeOK, TransportFollowsRoute, SuppressionMatchesRoute,
     VoiceClock, OneFate, DownIsBlank, HasRoute, TalkgroupOf

LEMMA NextIInv == IInv /\ [Next]_vars => IInv'
  <1> SUFFICES ASSUME IInv, [Next]_vars PROVE IInv'
    OBVIOUS
  <1>1. CASE Start
    BY <1>1, StartIInv
  <1>2. CASE Crash
    BY <1>2, CrashIInv
  <1>3. CASE Tick
    BY <1>3, TickIInv
  <1>4. CASE Poll \/ Ignored
    BY <1>4, PollIInv
  <1>5. CASE \E d \in DgId : Frame(d)
    BY <1>5, SuppressedFrameIInv, ForwardedFrameIInv, ChangesRouteIInv DEF Frame
  <1>6. CASE UNCHANGED vars
    BY <1>6, StutterIInv
  <1>7. QED
    BY <1>1, <1>2, <1>3, <1>4, <1>5, <1>6 DEF Next

-----------------------------------------------------------------------------

\* The inductive invariant holds in every reachable state.
THEOREM Invariance == Spec => []IInv
  BY InitIInv, NextIInv, PTL DEF Spec

\* For every route table and every order of datagrams, the talkgroup selected
\* at BrandMeister is that of the active route, which is enabled.
THEOREM TransportAgrees == Spec => []TransportFollowsRoute
  <1>1. IInv => TransportFollowsRoute
    BY DEF IInv
  <1>2. QED
    BY <1>1, Invariance, PTL

\* Frames are only ever dropped for the route that is active, or after a
\* return to the default, and only when suppression is configured.
THEOREM SuppressionAgrees == Spec => []SuppressionMatchesRoute
  <1>1. IInv => SuppressionMatchesRoute
    BY DEF IInv
  <1>2. QED
    BY <1>1, Invariance, PTL

\* A step that carries the transmission on keeps its fate.
LEMMA SameFate ==
    ASSUME IInv, Next, SameTransmission, SilenceOutlastsGap(config)
    PROVE  airTg' = airTg
  <1>1. CASE UNCHANGED air
    BY <1>1 DEF air
  <1>2. CASE Crash
    BY <1>2 DEF Crash, Forget, SameTransmission
  <1>3. CASE Tick
    BY <1>3 DEF Tick
  <1>4. ASSUME NEW d \in DgId, Frame(d)
        PROVE  airTg' = airTg
    <2>1. airDgid = d /\ d # None /\ sinceAir <= SelectorGap
      BY <1>4, IdAssumption DEF Frame, SuppressedFrame, ForwardedFrame, SelectAndForward,
         SuppressSelector, OnAir, SameTransmission
    <2>2. sinceAir \in Age
      BY DEF IInv, TypeOK
    <2>3. CASE airTg = None
      \* The burst is still being dropped: its clock has not run out.
      <3>1. Suppressing(d)
        BY <2>1, <2>2, <2>3, TimeAssumption DEF IInv, OneFate, Suppressing, BurstOver, Age
      <3>2. airTg' = None
        BY <1>4, <3>1 DEF Frame, SuppressedFrame, ForwardedFrame, SelectAndForward,
           SuppressSelector, ChangesRoute, OnAir
      <3>3. QED
        BY <2>3, <3>2
    <2>4. CASE airTg # None
      <3>1. /\ airTg = selectedTg
            /\ sinceVoice = sinceAir
            /\ suppressDgid # d
            /\ HasRoute(config, d) /\ d # activeDgid => config.silence # 0
        BY <2>1, <2>4 DEF IInv, OneFate
      <3>2. ~ReturnDue
        BY <2>1, <2>2, <3>1, ConfigTyped, TimeAssumption DEF ReturnDue, IInv, TypeOK, Age
      <3>3. CurrentDgid = activeDgid /\ CurrentTg = selectedTg
        BY <3>2 DEF CurrentDgid, CurrentTg
      <3>4. ~(HasRoute(config, d) /\ d # CurrentDgid /\ SilencePassed)
        \* The silence period is longer than the gap, so it has not passed.
        <4>1. SUFFICES ASSUME HasRoute(config, d), d # CurrentDgid
                       PROVE  ~SilencePassed
          OBVIOUS
        <4>2. config.silence > SelectorGap
          BY <3>1, <3>3, <4>1 DEF SilenceOutlastsGap
        <4>3. sinceVoice # None
          BY <2>1, <3>1 DEF IInv, VoiceClock
        <4>4. QED
          BY <2>1, <2>2, <3>1, <4>2, <4>3, ConfigTyped, TimeAssumption
             DEF SilencePassed, IInv, TypeOK, Age
      <3>5. ForwardedFrame(d)
        BY <1>4, <3>1, <3>4 DEF Frame, SuppressedFrame, Suppressing, SelectAndForward,
           SuppressSelector, ChangesRoute
      <3>6. QED
        BY <3>1, <3>3, <3>5 DEF ForwardedFrame, OnAir
    <2>5. QED
      BY <2>3, <2>4
  <1>5. QED
    BY <1>1, <1>2, <1>3, <1>4 DEF Next, Start, Poll, Ignored

\* No transmission is ever split: for every route table, silence period that
\* is 0 or longer than the gap, and order of frames, polls and ticks, each
\* frame of a transmission meets the fate of the frame before it.
THEOREM TransmissionsStayWhole == Spec => WholeTransmission
  <1>1. IInv /\ [Next]_vars
          => [SameTransmission /\ SilenceOutlastsGap(config) => airTg' = airTg]_vars
    BY SameFate
  <1>2. QED
    BY <1>1, Invariance, PTL DEF Spec, WholeTransmission

\* The frame behind a dropped burst finds it over and is carried.
LEMMA BurstGivesWay ==
    ASSUME IInv, Next, AfterDroppedBurst
    PROVE  airTg' = TalkgroupOf(config, airDgid)
  <1>1. PICK d \in DgId : Frame(d)
    \* Nothing but a frame brings the age on the air back to 0.
    <2>1. sinceAir \in Age /\ sinceAir > SelectorGap /\ sinceAir' = 0
      BY DEF IInv, TypeOK, AfterDroppedBurst
    <2>2. ~Tick
      BY <2>1, OlderAge, TimeAssumption DEF Tick, Age
    <2>3. ~UNCHANGED sinceAir
      BY <2>1, TimeAssumption DEF Age
    <2>4. QED
      BY <2>2, <2>3 DEF Next, Start, Crash, Forget, Poll, Ignored, AfterDroppedBurst, air
  <1>2. airDgid = d /\ CurrentDgid = d
    BY <1>1 DEF Frame, SuppressedFrame, ForwardedFrame, SelectAndForward,
       SuppressSelector, OnAir, AfterDroppedBurst
  <1>3. ~Suppressing(d)
    \* The burst is that of the frame dropped last, and as old.
    BY DEF IInv, OneFate, AfterDroppedBurst, Suppressing, BurstOver
  <1>4. ForwardedFrame(d)
    BY <1>1, <1>2, <1>3 DEF Frame, SuppressedFrame, SelectAndForward, SuppressSelector,
       ChangesRoute
  <1>5. QED
    BY <1>2, <1>4, AfterReturn DEF ForwardedFrame, OnAir, AfterDroppedBurst

\* For every route table, gap and silence period only the selector
\* transmission is lost: behind a pause its DG-ID is carried on its talkgroup.
THEOREM SelectorIsDroppedOnce == Spec => SelectorDroppedOnce
  <1>1. IInv /\ [Next]_vars
          => [AfterDroppedBurst => airTg' = TalkgroupOf(config, airDgid)]_vars
    BY BurstGivesWay
  <1>2. QED
    BY <1>1, Invariance, PTL DEF Spec, SelectorDroppedOnce

\* A configuration that forwards the selector transmission never changes the
\* route before the silence period, or the return timer, has run out on the
\* air.
THEOREM RouteChangesAfterSilence == Spec => RouteChangeNeedsSilenceForwarding
  <1>1. ASSUME IInv, Next, RouteChange, ~config.suppress
        PROVE  QuietLongEnough
    <2>1. sinceVoice = sinceAir
      BY <1>1 DEF IInv, VoiceClock
    <2>2. CASE ReturnDue
      BY <2>1, <2>2 DEF ReturnDue, QuietLongEnough
    <2>3. CASE ~ReturnDue
      <3>1. PICK d \in DgId : SelectAndForward(d) \/ SuppressSelector(d)
        BY <1>1, <2>3 DEF Next, Start, Crash, Tick, Poll, Ignored, Frame, SuppressedFrame,
           ForwardedFrame, RouteChange, CurrentDgid
      <3>2. SilencePassed
        BY <3>1 DEF SelectAndForward, SuppressSelector, ChangesRoute
      <3>3. QED
        BY <2>1, <3>2 DEF SilencePassed, QuietLongEnough
    <2>4. QED
      BY <2>2, <2>3
  <1>2. IInv /\ [Next]_vars => [RouteChange /\ ~config.suppress => QuietLongEnough]_vars
    BY <1>1
  <1>3. QED
    BY <1>2, Invariance, PTL DEF Spec, RouteChangeNeedsSilenceForwarding
=============================================================================
