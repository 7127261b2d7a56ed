------------------------------- MODULE Routing -------------------------------
(***************************************************************************)
(* The outbound half of ysf-bm-router: RouterState (router/state.py) and   *)
(* RouterRuntime.handle_packet with its selector-burst suppression         *)
(* (runtime.py), from the datagram YSFGateway hands over to the talkgroup  *)
(* the BrandMeister transport has selected.                                *)
(*                                                                         *)
(* The handler runs to completion on the service's only thread and reads   *)
(* the clock once, so each datagram is one action.  What interleaves with  *)
(* it is the passage of time, the order in which polls and frames of       *)
(* different DG-IDs arrive, and crashes with the restart systemd performs. *)
(*                                                                         *)
(* The code keeps time stamps and only ever compares now - stamp with a    *)
(* threshold.  A stamp is modelled by its age, in ticks, which stops       *)
(* growing at MaxAge, above every threshold: the state space is finite     *)
(* with no bound on the length of a run.                                   *)
(***************************************************************************)
EXTENDS Integers

CONSTANTS
    DgId,        \* the DG-IDs a frame's FICH can carry
    Talkgroup,   \* the BrandMeister talkgroups
    Config,      \* the configurations the file on disk may hold, see Validated
    SelectorGap, \* _selector_gap_seconds, in ticks
    MaxAge       \* ages saturate here

None == -1

\* A configuration, cut down to what routing reads: the route table, the
\* default DG-ID, the two timers in ticks (returnAfter is
\* return_to_default_minutes * 60) and suppress_route_change_transmission.
Validated(c) ==
    /\ DOMAIN c.routes \subseteq DgId
    /\ \A d \in DOMAIN c.routes : /\ c.routes[d].talkgroup \in Talkgroup
                                  /\ c.routes[d].enabled \in BOOLEAN
    /\ c.defaultDgid \in DOMAIN c.routes
    /\ c.returnAfter \in Nat
    /\ c.silence \in Nat
    /\ c.suppress \in BOOLEAN

ASSUME IdAssumption ==
    /\ DgId \subseteq Nat
    /\ Talkgroup \subseteq Nat

\* A minute is longer than the 0.75 s selector gap, and the ages tell every
\* threshold apart.
ASSUME TimeAssumption ==
    /\ SelectorGap \in Nat
    /\ MaxAge \in Nat
    /\ SelectorGap < MaxAge
    /\ \A c \in Config : /\ c.silence <= MaxAge
                         /\ c.returnAfter <= MaxAge
                         /\ c.returnAfter # 0 => c.returnAfter > SelectorGap

ASSUME ConfigAssumption == \A c \in Config : Validated(c)

VARIABLES
    status,          \* "down", or "serving" inside serve_forever
    config,          \* the configuration the process runs with
    activeDgid,      \* RouterState.active_route
    sinceVoice,      \* age of RouterState.last_voice_activity
    suppressDgid,    \* RouterRuntime._suppress_dgid
    sinceSuppressed, \* age of RouterRuntime._last_suppressed_at
    selectedTg,      \* the talkgroup the transport last selected
    result           \* the last PacketResult

\* History: what the radio put on the air, which no code keeps.
VARIABLES
    airDgid,         \* DG-ID of the last frame
    sinceAir,        \* its age
    airTg            \* the talkgroup it was carried on, None when dropped

routing == <<status, config, activeDgid, sinceVoice, suppressDgid,
             sinceSuppressed, selectedTg, result>>
air     == <<airDgid, sinceAir, airTg>>
vars    == <<routing, air>>

Age == None .. MaxAge

PacketResult ==
    [kind : {"none", "ysfp", "ysfu", "unknown", "ysfd"}, forwarded : BOOLEAN,
     dgid : DgId \cup {None}, talkgroup : Talkgroup \cup {None}]

NoResult == [kind |-> "none", forwarded |-> FALSE, dgid |-> None, talkgroup |-> None]

Result(kind, forwarded, dgid, talkgroup) ==
    [kind |-> kind, forwarded |-> forwarded, dgid |-> dgid, talkgroup |-> talkgroup]

TypeOK ==
    /\ status \in {"down", "serving"}
    /\ config \in Config
    /\ activeDgid \in DgId \cup {None}
    /\ sinceVoice \in Age
    /\ suppressDgid \in DgId \cup {None}
    /\ sinceSuppressed \in Age
    /\ selectedTg \in Talkgroup \cup {None}
    /\ result \in PacketResult
    /\ airDgid \in DgId \cup {None}
    /\ sinceAir \in Age
    /\ airTg \in Talkgroup \cup {None}

-----------------------------------------------------------------------------

\* AppConfig.enabled_route_for_dgid finds a route.
HasRoute(c, d) == d \in DOMAIN c.routes /\ c.routes[d].enabled

TalkgroupOf(c, d) == c.routes[d].talkgroup

\* The process's volatile state before it serves: everything is lost.
Forget ==
    /\ activeDgid' = None
    /\ sinceVoice' = None
    /\ suppressDgid' = None
    /\ sinceSuppressed' = None
    /\ selectedTg' = None
    /\ result' = NoResult
    /\ airDgid' = None
    /\ sinceAir' = None
    /\ airTg' = None

Init ==
    /\ status = "down"
    /\ config \in Config
    /\ activeDgid = None
    /\ sinceVoice = None
    /\ suppressDgid = None
    /\ sinceSuppressed = None
    /\ selectedTg = None
    /\ result = NoResult
    /\ airDgid = None
    /\ sinceAir = None
    /\ airTg = None

\* The service starts on what the file holds now: RouterState.from_config,
\* then connect and the selection of the default talkgroup.  A disabled
\* default route raises in default_route and the process never serves; a
\* failed connect or selection leaves it down as well.
Start ==
    /\ status = "down"
    /\ \E c \in Config :
        /\ HasRoute(c, c.defaultDgid)
        /\ status' = "serving"
        /\ config' = c
        /\ activeDgid' = c.defaultDgid
        /\ selectedTg' = TalkgroupOf(c, c.defaultDgid)
    /\ UNCHANGED <<sinceVoice, suppressDgid, sinceSuppressed, result, air>>

\* An exception leaves serve_forever (a send that raises, in or between
\* handlers) or systemd stops the unit.  All the state is in memory.
Crash ==
    /\ status = "serving"
    /\ status' = "down"
    /\ Forget
    /\ UNCHANGED config

Older(age) == IF age = None \/ age = MaxAge THEN age ELSE age + 1

Tick ==
    /\ sinceVoice' = Older(sinceVoice)
    /\ sinceSuppressed' = Older(sinceSuppressed)
    /\ sinceAir' = Older(sinceAir)
    /\ UNCHANGED <<status, config, activeDgid, suppressDgid, selectedTg, result,
                   airDgid, airTg>>

-----------------------------------------------------------------------------

\* RouterState.maybe_return_to_default returns an event.
ReturnDue ==
    /\ config.returnAfter # 0
    /\ activeDgid # config.defaultDgid
    /\ sinceVoice # None
    /\ sinceVoice >= config.returnAfter

\* The route, and the transport's talkgroup, once the call at the top of
\* handle_packet has returned.  last_voice_activity is not touched.
CurrentDgid == IF ReturnDue THEN config.defaultDgid ELSE activeDgid

\* A wrong CurrentTg: the route returns, nobody tells the transport.
CurrentTgNotSelected == selectedTg

CurrentTg == IF ReturnDue THEN TalkgroupOf(config, config.defaultDgid) ELSE selectedTg

\* A wrong Poll: it is answered before the return timer is looked at.
PollWithoutTimer ==
    /\ status = "serving"
    /\ result' = Result("ysfp", TRUE, None, TalkgroupOf(config, activeDgid))
    /\ UNCHANGED <<status, config, activeDgid, selectedTg, sinceVoice, suppressDgid,
                   sinceSuppressed, air>>

\* A YSFP poll goes to BrandMeister.
Poll ==
    /\ status = "serving"
    /\ activeDgid' = CurrentDgid
    /\ selectedTg' = CurrentTg
    /\ result' = Result("ysfp", TRUE, None, TalkgroupOf(config, CurrentDgid))
    /\ UNCHANGED <<status, config, sinceVoice, suppressDgid, sinceSuppressed, air>>

\* A YSFU, a datagram of no known kind, or a YSFD that does not decode.
Ignored ==
    /\ status = "serving"
    /\ activeDgid' = CurrentDgid
    /\ selectedTg' = CurrentTg
    /\ \E kind \in {"ysfu", "unknown", "ysfd"} :
        result' = Result(kind, FALSE, None, None)
    /\ UNCHANGED <<status, config, sinceVoice, suppressDgid, sinceSuppressed, air>>

\* A wrong BurstOver: the gap itself already ends the burst.
BurstOverAtGap ==
    /\ suppressDgid # None
    /\ sinceSuppressed >= SelectorGap

\* A wrong BurstOver: the burst lasts until the silence period has passed.
BurstOverAfterSilence ==
    /\ suppressDgid # None
    /\ sinceSuppressed > config.silence

\* _is_currently_suppressing: the gap has run out, so the burst is forgotten.
BurstOver ==
    /\ suppressDgid # None
    /\ sinceSuppressed > SelectorGap

Suppressing(d) == suppressDgid = d /\ ~BurstOver

\* A wrong ForgetBurst: only half of the suppression is reset.
ForgetHalfBurst ==
    /\ suppressDgid' = IF BurstOver THEN None ELSE suppressDgid
    /\ UNCHANGED sinceSuppressed

ForgetBurst ==
    /\ suppressDgid' = IF BurstOver THEN None ELSE suppressDgid
    /\ sinceSuppressed' = IF BurstOver THEN None ELSE sinceSuppressed

\* A wrong SilencePassed: one tick early.
SilencePassedEarly == sinceVoice = None \/ sinceVoice + 1 >= config.silence

\* RouterState._silence_period_has_passed
SilencePassed == sinceVoice = None \/ sinceVoice >= config.silence

\* The history of a frame of DG-ID d carried on talkgroup tg.
OnAir(d, tg) == airDgid' = d /\ sinceAir' = 0 /\ airTg' = tg

\* A frame of the burst being suppressed returns before RouterState sees it.
SuppressedFrame(d) ==
    /\ status = "serving"
    /\ Suppressing(d)
    /\ activeDgid' = CurrentDgid
    /\ selectedTg' = CurrentTg
    /\ sinceSuppressed' = 0
    /\ result' = Result("ysfd", FALSE, d, TalkgroupOf(config, CurrentDgid))
    /\ OnAir(d, None)
    /\ UNCHANGED <<status, config, sinceVoice, suppressDgid>>

\* IGNORE_UNKNOWN_DGID, FORWARD and BLOCKED_BY_SILENCE_PERIOD: three
\* decisions that forward the frame on the route that is active.
ForwardedFrame(d) ==
    /\ status = "serving"
    /\ ~Suppressing(d)
    /\ \/ ~HasRoute(config, d)
       \/ d = CurrentDgid
       \/ ~SilencePassed
    /\ activeDgid' = CurrentDgid
    /\ selectedTg' = CurrentTg
    /\ sinceVoice' = 0
    /\ ForgetBurst
    /\ result' = Result("ysfd", TRUE, d, TalkgroupOf(config, CurrentDgid))
    /\ OnAir(d, selectedTg')
    /\ UNCHANGED <<status, config>>

\* The frame changes the route: what SELECT_AND_FORWARD and SUPPRESS_SELECTOR
\* have in common.
ChangesRoute(d) ==
    /\ status = "serving"
    /\ ~Suppressing(d)
    /\ HasRoute(config, d)
    /\ d # CurrentDgid
    /\ SilencePassed
    /\ activeDgid' = d
    /\ selectedTg' = TalkgroupOf(config, d)
    /\ sinceVoice' = 0
    /\ UNCHANGED <<status, config>>

SelectAndForward(d) ==
    /\ ~config.suppress
    /\ ChangesRoute(d)
    /\ ForgetBurst
    /\ result' = Result("ysfd", TRUE, d, TalkgroupOf(config, d))
    /\ OnAir(d, selectedTg')

\* A wrong SuppressSelector: it suppresses the route being left.
SuppressSelectorOfOldRoute(d) ==
    /\ config.suppress
    /\ ChangesRoute(d)
    /\ suppressDgid' = CurrentDgid
    /\ sinceSuppressed' = 0
    /\ result' = Result("ysfd", FALSE, d, TalkgroupOf(config, d))
    /\ OnAir(d, None)

\* The frame opens a selector burst and is dropped.
SuppressSelector(d) ==
    /\ config.suppress
    /\ ChangesRoute(d)
    /\ suppressDgid' = d
    /\ sinceSuppressed' = 0
    /\ result' = Result("ysfd", FALSE, d, TalkgroupOf(config, d))
    /\ OnAir(d, None)

Frame(d) ==
    \/ SuppressedFrame(d)
    \/ ForwardedFrame(d)
    \/ SelectAndForward(d)
    \/ SuppressSelector(d)

Next ==
    \/ Start
    \/ Crash
    \/ Tick
    \/ Poll
    \/ Ignored
    \/ \E d \in DgId : Frame(d)

Spec == Init /\ [][Next]_vars

\* YSFGateway polls a linked reflector every few seconds whatever the radio
\* does, so a poll is handled again and again while the service runs.
FairSpec == Spec /\ WF_vars(Poll)

-----------------------------------------------------------------------------

\* The transport and the route never come apart: the talkgroup selected at
\* BrandMeister is the one of the active route, the route is an enabled one,
\* and the talkgroup the handler reports is the one the datagram went to.
\* The YSF Direct transport ignores the talkgroup it is passed with a frame
\* and relies on the selection, the DMR master transport does the reverse: a
\* branch that moves one and not the other sends voice to the wrong group.
TransportFollowsRoute ==
    status = "serving" =>
        /\ HasRoute(config, activeDgid)
        /\ selectedTg = TalkgroupOf(config, activeDgid)
        /\ result.talkgroup # None => result.talkgroup = selectedTg

\* The selector suppression never outlives its reason: the DG-ID whose frames
\* are dropped is that of the active route, unless the router has returned to
\* the default meanwhile, and nothing is dropped unless suppression is on.
SuppressionMatchesRoute ==
    suppressDgid # None =>
        /\ config.suppress
        /\ HasRoute(config, suppressDgid)
        /\ activeDgid \in {suppressDgid, config.defaultDgid}

\* A transmission, frames of one DG-ID no further than the selector gap apart
\* with no other between them, has one fate: every frame goes to the same
\* talkgroup, or every frame is dropped.  handle_transmission_start runs on
\* each frame, so nothing but the timers keeps a transmission whole.  A
\* silence period that is neither 0 nor longer than the gap would break it:
\* a pause inside a blocked transmission would then count as silence.
SilenceOutlastsGap(c) == c.silence = 0 \/ c.silence > SelectorGap

SameTransmission ==
    /\ status = "serving"
    /\ airDgid # None
    /\ airDgid' = airDgid
    /\ sinceAir <= SelectorGap
    /\ sinceAir' = 0

WholeTransmission ==
    [][SameTransmission /\ SilenceOutlastsGap(config) => airTg' = airTg]_vars

\* Only the selector transmission itself is lost.  Behind a pause longer than
\* the gap the DG-ID it selected is heard: its next frame is carried on its
\* own talkgroup, unless the return timer has taken the route back meanwhile.
\* The burst has no timer of its own, only the frame that finds it over
\* forgets it, so this rests on the age of the last dropped frame however
\* many polls and ticks come in between.
AfterDroppedBurst ==
    /\ status = "serving"
    /\ airDgid # None
    /\ airTg = None
    /\ sinceAir > SelectorGap
    /\ CurrentDgid = airDgid
    /\ airDgid' = airDgid
    /\ sinceAir' = 0

SelectorDroppedOnce ==
    [][AfterDroppedBurst => airTg' = TalkgroupOf(config, airDgid)]_vars

\* The route changes while the service runs only when nothing has been on the
\* air for the silence period, or for the return timer, however the frames,
\* the polls and the ticks interleave.
QuietLongEnough ==
    \/ sinceAir = None
    \/ sinceAir >= config.silence
    \/ config.returnAfter # 0 /\ sinceAir >= config.returnAfter

RouteChange ==
    /\ status = "serving"
    /\ status' = "serving"
    /\ activeDgid' # activeDgid

RouteChangeNeedsSilence == [][RouteChange => QuietLongEnough]_vars

\* The same for configurations that forward the selector transmission.
RouteChangeNeedsSilenceForwarding ==
    [][RouteChange /\ ~config.suppress => QuietLongEnough]_vars

\* The age RouterState keeps is that of the last frame on the air when every
\* frame is forwarded, and never younger than it when bursts are dropped.
VoiceClock ==
    /\ (sinceVoice = None) <=> (sinceAir = None)
    /\ (airDgid = None) <=> (sinceAir = None)
    /\ sinceAir <= sinceVoice
    /\ ~config.suppress => sinceVoice = sinceAir

\* What decides the fate of the next frame.  After a dropped frame the burst
\* is that frame's, and as old, however long ago it was.  Within the gap of a
\* frame that was carried, its talkgroup is still the one selected, and the
\* silence a change of route needs has not passed unless the configuration
\* asks for none.
OneFate ==
    airDgid # None =>
        /\ airTg = None => /\ suppressDgid = airDgid
                           /\ sinceSuppressed = sinceAir
        /\ airTg # None /\ sinceAir <= SelectorGap =>
               /\ airTg = selectedTg
               /\ sinceVoice = sinceAir
               /\ suppressDgid # airDgid
               /\ HasRoute(config, airDgid) /\ airDgid # activeDgid => config.silence # 0

\* A process that does not serve remembers nothing.
DownIsBlank ==
    status = "down" =>
        /\ activeDgid = None
        /\ selectedTg = None
        /\ sinceVoice = None
        /\ suppressDgid = None
        /\ airDgid = None
        /\ result = NoResult

\* The inductive invariant the theorems of Routing_proofs rest on: everything
\* above, a default route that a running process can fall back to, and a
\* suppression that is wholly set, after a frame was heard, or wholly clear.
IInv ==
    /\ TypeOK
    /\ TransportFollowsRoute
    /\ SuppressionMatchesRoute
    /\ VoiceClock
    /\ OneFate
    /\ DownIsBlank
    /\ status = "serving" => HasRoute(config, config.defaultDgid)
    /\ (suppressDgid = None) <=> (sinceSuppressed = None)
    /\ suppressDgid # None => sinceVoice # None

\* Once the radio has been silent for the return timer the router is back on
\* the default talkgroup, or the radio speaks again, or the service stops:
\* the timer is looked at only when a datagram arrives, so this rests on the
\* polls.
Idle ==
    /\ status = "serving"
    /\ config.returnAfter # 0
    /\ sinceAir >= config.returnAfter

OnDefault == selectedTg = TalkgroupOf(config, config.defaultDgid)

SilentRadioReturns == Idle ~> (OnDefault \/ ~Idle)
=============================================================================
