# ysf-bm-router: formal models, checks and proofs

`ysf-bm-router` sits between WPSD's YSFGateway and BrandMeister.  A Yaesu
radio picks a BrandMeister talkgroup by changing the DG-ID it transmits; the
router reads the DG-ID from every YSF frame, keeps one active route, selects
that route's talkgroup, forwards the voice, and relays what BrandMeister sends
back.  This directory holds TLA+ models of it, TLC configurations and TLAPS
proofs.  Paths below are relative to the repository; `runtime.py` and friends
are in `src/ysf_bm_router/`.

## The system

| Component | State | Operations | Talks to |
|---|---|---|---|
| Routing (`router/state.py`, `RouterRuntime.handle_packet`) | `active_route`, `last_voice_activity`, `_suppress_dgid`, `_last_suppressed_at` | one handler per datagram of YSFGateway: default return, poll, suppression, route decision, selection, forwarding | calls the transport |
| Return path and loop (`runtime.py`) | `_return_queue`, `_next_return_send_at`, `_return_stream_active`, `_last_return_frame_at`, `_ysf_gateway_addr` | clock, flush, select, drain, header insertion, playout delay | reads the transport, writes to YSFGateway |
| YSF Direct transport (`brandmeister/direct.py`) | socket, `connected`, `selected_talkgroup` | login, select (fire and forget), forward, receive | BrandMeister |
| DMR master transport (`brandmeister/dmr_master.py`) | socket, keepalive stamp; transmit: stream id, sequence, voice count, paced queue; receive: stream id, chunks, YSF queue | login with 5 attempts, clock, forward, receive | BrandMeister master |
| Hybrid transport (same file) | the two above | audio over Direct, login at the master | both |
| Configuration (`config.py`, `models.py`) | the TOML file and its `.bak` | load, validate, atomic write | router, admin |
| Admin server (`admin.py`) | none of its own, one thread per request | read, save, restart | configuration, systemd |
| Voice codec (`bridge/modeconv.py`) | none | repack AMBE voice, build DMR payloads | DMR master transport |
| Frame labels (`ysf/fich.py`, `dmr/homebrew.py`, vendored decoder) | none | parse, rewrite, build frames | used by all of the above |
| Units, installer, detection, capture | files | start, restart whenever the process ends | systemd |

The service is single threaded: the loop of `serve_forever` runs the
transport's clock, flushes one return frame, selects, handles at most one
datagram of YSFGateway, drains the transport, flushes again.  What is hard is
therefore not locking but order and time: polls and frames of several DG-IDs,
timers that are looked at only when something arrives, frames lost or repeated
on the way from BrandMeister, two paths that move the same send-time stamp,
exceptions in the middle of a handler followed by a restart that has forgotten
everything.  The admin server is the one place with threads.

What makes each part correct:

- Routing: the talkgroup of the transport is always that of the active route;
  a transmission has one fate; the route changes only after silence;
  suppression ends when its burst ends; a silent radio comes back to the
  default.
- Return path: voice never reaches YSFGateway outside a stream; frames leave
  paced and none is stranded; `select` never sleeps past the next frame.
- DMR transmit: a call on the wire is header, whole superframes, terminator;
  sequence numbers follow each other; frames leave paced.
- DMR receive: the YSF frames it emits form streams, and no frame mixes the
  audio of two streams.
- Login: `connected` means the master accepted, as far as a login that takes any
  RPTACK for the one awaited can tell; whatever went wrong, the
  router gets connected again; the login is kept.
- Voice codec: what the radio says is what the master gets; signalling does not
  touch the voice, and receivers find their codes intact.
- Configuration: the file is always a whole, validated configuration the
  router can read; the backup of a save no other overlaps is the text it replaced.

## Modules and plan

Written, in this order, most important first:

| Module | Models | Runs | Proofs |
|---|---|---|---|
| `Routing` | outbound half of the runtime and `RouterState` | `Routing.cfg`, `RoutingSilence.cfg` (`MCRouting`) | `Routing_proofs` |
| `ReturnPath` | inbound half and the loop | `ReturnPath.cfg` (`MCReturnPath`) | `ReturnPath_proofs` |
| `DmrTransmit` | DMR master transport, sending, in the loop | `DmrTransmit.cfg` (`MCDmrTransmit`) | `DmrTransmit_proofs` |
| `ConfigStore` | the configuration file, the admin's threads, the installer, the router's start | `ConfigStore.cfg`, `ConfigStoreAccess.cfg`, `ConfigStoreStart.cfg` (`MCConfigStore`) | `ConfigStore_proofs` |
| `YsfStream` | abstract: what a receiver of YSF frames may rely on | through `DmrReceive` | through `DmrReceive_proofs` |
| `DmrReceive` | DMR master transport, receiving; implements `YsfStream` | `DmrReceive.cfg` (`MCDmrReceive`) | `DmrReceive_proofs` |
| `MasterLogin` | the logins of the three backends, the network, the master, the restarts | `MasterLogin.cfg`, `MasterLoginKept.cfg` (`MCMasterLogin`) | `MasterLogin_proofs` |
| `ModeConv` | the operators of `modeconv.py` on unknown bits | through `Bridge` | `ModeConv_proofs` |
| `Bridge` | voice through the DMR transport, bit by bit; composes the operators | `Bridge.cfg`, `BridgeArrives.cfg` (`MCBridge`) | `Bridge_proofs` |

What is left, in this order:

1. A composition of `Routing` and `ReturnPath` in one loop: which DG-ID the
   returned frames are labelled with around a route change.
2. `MasterLogin` with the datagrams a login ignores, which restart its wait.
3. The fields of the FICH, and the reading of WPSD's settings.

To prove next: that the refinements and invariants survive the composition.

## Routing

| Model | Code |
|---|---|
| `activeDgid`, `sinceVoice` | `RouterState.active_route`, age of `last_voice_activity` |
| `suppressDgid`, `sinceSuppressed` | `_suppress_dgid`, age of `_last_suppressed_at` |
| `selectedTg` | the transport's `selected_talkgroup` |
| `result` | the `PacketResult` returned last |
| `config` | the `AppConfig` the process runs with |
| `airDgid`, `sinceAir`, `airTg` | history: the last frame of the radio and what became of it |
| `Poll`, `Ignored`, `Frame(d)` | `handle_packet` on YSFP; on YSFU, unknown and undecodable; on YSFD |
| `SuppressedFrame`, `ForwardedFrame`, `SelectAndForward`, `SuppressSelector` | its four outcomes for a frame |
| `Start`, `Crash`, `Tick` | start of `serve_forever` on the file's content, any exception or stop, time |

The handler reads the clock once and runs to completion, so one datagram is
one action.  `maybe_return_to_default` runs at its top, which is why each
action uses `CurrentDgid` and `CurrentTg`.  A time stamp is modelled by its
age, which saturates at `MaxAge`: the code only compares ages with
thresholds, and `TimeAssumption` puts every threshold at or below `MaxAge`, so
the saturation loses nothing and runs of any length are covered.  A crash
inside a handler is modelled as a crash at its edge: the process's memory and
its session are gone either way.  `last_route_change` is written and never
read and is left out, as are log lines and the wording of the `reason`.

`Routing.cfg`: five DG-IDs (one unmapped, one disabled, two on the same
talkgroup) and thirteen configurations with silence 0, above and below the
selector gap, with and without return timer and suppression, one whose default
route is disabled.  `SelectorGap = 1` and `MaxAge = 5` leave every comparison
true and false in some state.

- `TransportFollowsRoute`: the selected talkgroup is that of the active route,
  which is enabled, and is the one reported.
- `SuppressionMatchesRoute`: the suppressed DG-ID is that of the active route
  unless the router has returned to the default.
- `WholeTransmission`: every frame of a transmission goes to one talkgroup, or
  every frame is dropped.  It needs `SilenceOutlastsGap`: a silence period of
  0, or longer than the 0.75 s gap.  With a shorter one a pause inside a
  blocked transmission counts as silence.
- `SelectorDroppedOnce`: what suppression drops is the selector transmission and
  no more.  Behind a dropped frame and a pause longer than the gap, the next frame
  of the same DG-ID is carried on its own talkgroup, unless the router has returned
  to the default meanwhile.
- `RouteChangeNeedsSilenceForwarding`: with suppression off, the route changes
  only after the silence period or the return timer.
- `SilentRadioReturns`: an idle radio is back on the default, given polls.
- `IInv`: the inductive invariant of the proofs.

`RoutingSilence.cfg` expects a violation: `RouteChangeNeedsSilence`, the same
statement for every configuration.  With suppression on, the frames of a
selector burst return before `RouterState` sees them, so the silence period
runs from the first frame of the burst: a burst that lasts the silence period
is followed at once by a change to a third DG-ID.

Fairness: `WF_vars(Poll)`.  YSFGateway polls a linked reflector every few
seconds, radio or no radio.  Nothing else is assumed, not even that time
passes.

## ReturnPath

| Model | Code |
|---|---|
| `pc` | the place in `serve_forever` |
| `inbox` | the transport's socket |
| `returnQueue`, `nextSend` | `_return_queue`, time until `_next_return_send_at` |
| `streamActive`, `sinceFrame` | `_return_stream_active`, age of `_last_return_frame_at` |
| `timeout` | what is left of the `select` call |
| `gateway`, `headless`, `sinceSend`, `clean`, `quiet` | history and environment |
| `Top`, `Bottom` | clock, flush and entering select; the second flush |
| `WakeReadable`, `WakeTimeout`, `WakeGateway` | what ends `select` |
| `DrainDone`, `RelayOther`, `RelayFrame`, `RelayFailed` | one round of `_enqueue_brandmeister_packets` |
| `Arrive`, `GoQuiet`, `Tick`, `Crash` | the environment |

A frame is its kind, whether it is whole, and whether its DG-ID is one a header
can be built for; loss, repetition and reordering need no actions of their own
because arrivals are arbitrary.  `_return_playout_active` is written and never
read; `_ysf_gateway_addr` (the last sender of any datagram) is not modelled.
Clock read, flush and entering select are one step: nothing else runs between
them.  A YSFGateway datagram handled in the same iteration shares no state with
this path.  The select timeout is that of a transport without one of its own
(YSF Direct); the DMR transport's belongs to `DmrTransmit`.

`ReturnPath.cfg`: eight kinds of datagram, four settings (seed, immediate,
long start delay without DG-ID rewriting, no header insertion), new arrivals
while fewer than two frames are in flight (`MaxPending`), to which an inserted
header comes on top.  Two let a frame arrive behind a terminator that still
waits, which is where a header is inserted or forgotten; the proofs are for any
bound.

- `HeaderBeforeVoice`: with header insertion on, no voice frame reaches
  YSFGateway outside a stream, as long as the frames are whole and carry a
  DG-ID a header can be made for (`clean`).
- `NoOversleep`: select's timeout never passes the next frame's time.
- `Paced`: frames leave the queue at least the interval apart, although each
  iteration flushes twice and a new stream moves the same stamp.
- `DrainsWhenQuiet`: once BrandMeister is quiet the socket and the queue empty,
  though a control datagram ends a drain early.

Fairness: `WF_vars(Loop)`, the loop is a running program, and `WF_vars(Tick)`,
time passes.  `WakeGateway` is not fair: YSFGateway may be silent.

## DmrTransmit

| Model | Code (`dmr_master.py` unless said otherwise) |
|---|---|
| `txQueue`, `nextSend` | `_dmr_tx_queue`, time until `_next_dmr_send_at` |
| `txActive`, `streamId`, `sequence`, `voiceCount` | `_dmr_tx_active`, `_dmr_stream_id`, `_dmr_sequence`, `_dmr_voice_count` modulo 6 |
| `sincePing` | age of `_last_ping_at` |
| `pc`, `timeout` | the place in `serve_forever` and what is left of its `select` (`runtime.py`) |
| `sent`, `sinceSend`, `tidy` | history: the last packet on the wire, its age, whether the call is one whose numbers can be right |
| `BeginCall`, `Speak`, `EndCall` | `forward_ysf_payload` on FI 0, 1, 2 |
| `Clock`, `FlushDmrTxQueue` | `clock`, `_flush_dmr_tx_queue` with `_send_dmrd_control` and `_send_dmrd_voice` |
| `WakeTimeout`, `WakeOther`, `Tick`, `Crash` | what ends `select` otherwise, time, a stop or an exception |

A packet is its kind, its place among the headers or in the superframe and its
talkgroup; audio is left out.  The stream id and the number are put on when a
packet leaves, as in the code, which is the hard part: a header resets both
under the packets that still wait.  `voiceCount` is kept modulo 6 because only
that remainder is read.

`DmrTransmit.cfg`: two talkgroups, two stream ids, at most three packets
waiting when the radio speaks (so up to nine, with the padded end of a
call behind them).  The sequence number wraps at 16 instead of 256: both leave 4 when
divided by 6, so the wrap disturbs the superframe in the same way.  Intervals of
one or two ticks put every comparison on both sides.

- `WholeCalls`: what the master receives is three headers, voice in whole
  superframes, a terminator; nothing else follows a terminator than a header,
  with headers and terminators of the radio lost or repeated.
- `InStep`: one stream id, one talkgroup, consecutive numbers and the right
  superframe position, for a call that is `tidy`: begun on an empty queue, kept
  to its talkgroup, not past the wrap of the number.  Without any one of these
  the code's packets are out of step.
- `DmrPaced`, `NoOversleep`: packets leave at least the interval apart, and
  `select` does not sleep past the next one.
- `QueueMoves`, `KeepsAlive`: waiting packets leave, and the master is pinged
  again and again, call or no call.

Fairness: `WF_vars(Clock)` and `WF_vars(WakeTimeout)`, the loop is a running
program and `select` returns when its time is up; `WF_vars(Tick)`, time passes.
The radio and the master are not fair.

## ConfigStore

| Model | Code |
|---|---|
| `pc[t]`, `job[t]`, `stat[t]`, `source[t]`, `temp[t]` | one request of the admin server, or one run of the installer, and its place in `atomic_write_config`: the configuration it saves and what follows, `existing_stat`, what `copy2` has read, its temporary file |
| `file`, `backup` | `ysf-bm-router.toml` (text, mode, owner), `.bak` |
| `running` | the version of the file the router runs with |
| `version`, `landed`, `answer`, `alone[t]`, `undisturbed` | history; `alone[t]`: no other save has overlapped the one `t` is at |
| `Request`, `Stat`, ..., `Chown`, `Answer` | `AdminHandler._save_config` and `atomic_write_config`, one system call each |
| `Prefill`, `Own` | `wpsd_detect.prefill_config` reads the file and merges what it detects; `install.sh` gives the result to `pi-star` |
| `Fail`, `Kill` | an `OSError` anywhere, the admin (which `install.sh` restarts) or the installer stopped anywhere |
| `StartRouter`, `StopRouter` | `load_config` and `RouterRuntime.__init__` under systemd |

`ThreadingHTTPServer` gives each request a thread and nothing locks the file,
so every system call is an action.  A text is a configuration, absent, empty or
torn; a configuration is what the router's start depends on: its routes with
their enabled flags, the default, and whether its TOML parses
(`config_to_toml` escapes quotes and backslashes only).  The admin runs as
root, the router as `pi-star`, so a file left to root is one the router cannot
read.

An installer that runs over an installed router is one more writer: the admin
server of the version before is up until `install.sh` restarts it.  The prefill
reads the file when it starts and writes all of it when it has detected what it
could, so a save in between is undone.  What it detects is no part of the routes
or the default, and is not validated; a value of several lines, which an INI file
may have, leaves a text that does not parse.

`ConfigStore.cfg`: two writers, which are symmetric and each time a thread of the
admin server or the installer, `MaxSaves = 2`
replacements before requests stop coming (so up to three, as both threads may
have one under way), any call failing, a kill anywhere, with and without a file
from the installer.  The requests are a configuration that starts the router,
the same with a text that does not parse, another that starts it, and one that
fails validation.

- `FileIsConfig`: the file is always one whole configuration that passed
  validation.
- `AnswerIsTrue`: a success that was answered reached the file, and after an
  Apply & Restart the router runs that version or a later one, or is down.
- `AccessKept`: as long as no saves have overlapped and none was cut short between
  `os.replace` and `chown`, the file has the access it was installed with.  A kill
  in that window really leaves it with root, and nothing repairs it.
- `BackupIsPrevious`: a save that no other overlaps has the text it replaces in the
  backup when it replaces it, whatever happened to the saves before it: overlaps,
  failures, kills in the middle of `copy2`.
- `InstallKeepsSettings`: an installer that no save overlaps keeps the routes and
  the default of the file it replaces, as INSTALL-WPSD.md says of later installs.

The last two say that only an overlap does the harm.  That an overlap does it, a torn
or foreign backup and a save undone, is what the code does, and no property hides
it.  So is the answer 400 to a save whose file was replaced before a later call
failed: `AnswerIsTrue` is about success.  `exists()` is called twice, and the file
may have come between: `Stat` is the first call and the `stat`, `OpenBackup` begins
with the second.

The other two configurations expect a violation:

- `ConfigStoreAccess.cfg`, `AccessPreserved`: two overlapping saves and no
  failure at all.  The second reads the access it will restore after the
  first's `os.replace` and before its `chmod`, and makes 0600 permanent.
- `ConfigStoreStart.cfg`, `AcceptedStarts`: `validate` wants the default DG-ID
  to be among the routes, the router wants that route enabled.

No fairness is assumed: all properties are safety properties.  Not modelled: the
loss of power (nothing is synced but the temporary file), temporary files left
behind by a kill, the first copy of the seed by `install.sh` (the initial state has
it), editors of the file, the requests that only read.

## YsfStream and DmrReceive

`YsfStream` says what a receiver of YSF frames may rely on: a header opens a
stream, data frames count up from it, a terminator repeats the last number and
closes it, all under the header's name; a new header may cut a stream short.

| Model | Code (`dmr_master.py`) |
|---|---|
| `streamId`, `source`, `chunks`, `ysfSequence`, `dataCount` | `_stream_id`, `_source`, `_vch_chunks`, `_ysf_sequence`, `_ysf_data_count` modulo 8 |
| `ysfQueue`, `inbox`, `pc` | `_ysf_queue`, the socket, the loop in `select` or draining |
| `last`, `heard` | history: the frame `recv_packet` returned last, the chunks the stream has brought |
| `HandOver`, `NothingLeft`, `Ignore` | the ways out of `recv_packet` that leave the stream alone |
| `NewHeader`, `FirstVoice`, `Voice`, `EndStream` | `_process_dmr_frame` with `_start_stream`, `_flush_vch_chunks`, `_end_stream` |

A datagram is its kind and its stream; a chunk of audio is the stream it came
in and its place there, modulo the forty chunks of eight frames.  A stream has
one source, so a frame's source is named by the stream.  Datagrams are
arbitrary, which covers loss, repetition, delay and interleaving.

The refinement: `frame` of `YsfStream` is the last frame handed over without its
audio, the stream is open if that frame was a header or a data frame, and the
count is its sequence number.  A step that hands over nothing is a stutter.

`DmrReceive.cfg`: two streams, sequence numbers modulo 16 (two rounds of the
eight frame numbers, so that both wraps happen and differ), two datagrams in the
socket: one more than a single call of `recv_packet` reads.

- `FormsStreams`: `YsfStream`'s `Spec`.  A terminator of any stream ends the
  current one, which the abstract stream allows; a terminator with no stream
  open must produce nothing.
- `OneVoice`: a data frame carries consecutive chunks of the stream it names,
  from the place its frame number says; no mixing, gap or repetition.
- `SilenceEndsStream`: only the last frame of a stream is filled up.
- `NoFrameLeftBehind`: whenever the loop is back in `select`, which watches
  only the socket, `_ysf_queue` is empty.

## MasterLogin

| Model | Code (`dmr_master.py` unless said otherwise) |
|---|---|
| `pc` | down; the answer `connect` waits for; the sleep between attempts; up |
| `attempt` | of `DmrMasterBrandMeisterTransport.connect` |
| `backend`, `fixedPort` | `backend`, whether `master_local_port` is set (it is, by default) |
| `net` | the datagrams under way, each of a socket that is still open or of an earlier one (`old`) |
| `phase`, `masterSalt` | the master's side, external |
| `granted`, `repeated`, `late`, `calm` | history: what the master accepted from this socket; whether a datagram of this login was repeated; whether an answer to an earlier attempt was read; whether nothing goes wrong any more |
| `Start`, `OpenSocket`, `GiveUp` | `serve_forever` calling `connect`; one attempt; the exception behind the last one |
| `DirectChallenge`, `DirectFails` | `connect` of `direct.py`; the hybrid goes on to the master |
| `ReceiveChallenge`, `ReceiveAck`, `ReceiveConfigAck`, `Refused`, `Timeout`, `Retry` | `_connect_once` and the loop around it |
| `Ping`, `Unheard`, `Stop`, `Crash` | `clock`, the answers nobody reads, `disconnect`, a kill |

`_validate_config` is left out (a configuration that lacks something never
connects and nothing else depends on it), and so are the datagrams a login
ignores.  The network may lose, delay, reorder and repeat anything; the master
may refuse and forget anything; until `calm`.  From then on nothing goes wrong
and delays are shorter than the waits of the code (`Outwaited`: ten seconds for
an answer, two to five of sleep, five until systemd's restart).

`MasterLogin.cfg`: the three backends, both kinds of port, two salts so that a
challenge of an earlier attempt can be told from this one's, two attempts
instead of five (one that is repeated and a last one; the code tells no others
apart, and the proofs are for any number), two datagrams in the network
before it is calm: an answer of an earlier attempt and one of this.

- `AcceptedLogin`: a transport of the DMR master that takes itself for
  connected has had its login, its password and its configuration accepted, in
  this login, if none of the login's datagrams was repeated and no late answer was
  read.  With either, the code may be connected without an acceptance: any RPTACK
  passes for the one waited for.  A late answer needs the fixed port, which is the
  default; without one none is read, and whatever is repeated, the master has at
  least challenged this socket.
- `Recovers`: once all is calm the router gets connected, wherever it was.
- `IInv`: the inductive invariant of the proofs.

`MasterLoginKept.cfg` expects a violation: `SessionKept`, that a session once
granted is kept or made again.  The hybrid transport reads YSF Direct's socket
only, and `recv_packet` of the DMR transport ignores a refusal, so a master that
restarts is pinged for ever and refuses for ever.  `docs/CONFIGURATION.md` says
the connection is kept.

Fairness: weak fairness of reading what is under way (`Receive`, `Unheard`), of
the steps of `connect` and its restarts (`Connect`: every wait of the code has a
timeout, and the unit has `Restart=always`), of the ping, and of the servers.
Nothing is assumed before `calm`, and nothing of when it comes.

## ModeConv and Bridge

`modeconv.py` moves bits, adds them modulo two and looks words up in tables.  A
bit of the model is therefore the set of unknowns it is the sum of, and one run
stands for every value of voice, talkgroup and source at once.  What a table
gives for a word (Golay parity, the PRNG word, the QR code of colour and LCSS,
whitening, sync) is an unknown named for the table and the word: that it is the
same on both ways is what the properties need.  The regular tables (the AMBE
tables, the interleavers) are the formulas they were made from.  Left out are
the type checks of lengths, which `DmrTransmit` and `DmrReceive` have, and
`make_dmr_control_payload`, which nothing calls.

| Model | Code |
|---|---|
| the operators of `ModeConv` | the functions of `modeconv.py`, most of them under their names |
| `index`, `kind`, `payload` | place in the superframe, kind and payload of the packet that left last |
| `chunks`, `ysfd` | `_vch_chunks`, the YSFD packet made from them |
| `voice`, `words`, `ysfdWords`, `embedded` | history: which voice went in, and the link control a receiver has collected |
| `SendControl`, `SendVoice` | `_send_dmrd_control`, `_send_dmrd_voice` |
| `ReceiveVoice` | `_process_dmr_frame` on voice, `_flush_vch_chunks` |

`Bridge.cfg`: one talkgroup (its bits are unknown) and colour codes 1, which has
slot types, and 7, which has none.  Headers, voice and terminators in every
order, so that every place of the superframe is met with every voice frame.

- `VoiceUnharmed`: a receiver that skips the middle of a frame finds the code
  words of the words read from the radio's packet, and silence behind them.
- `VoiceReturned`: a packet for the radio carries the words of five consecutive
  chunks in their places, all three copies of the important bits equal.
- `LcRecovered`: behind four fragments a receiver has rows and columns that are
  words of their codes, with the link control and its check sum in them.
- `LcReadable`: headers and terminators are words of the product code and, their
  mask off, of the Reed-Solomon code: the three roots of the generator, computed
  independently of the encoder, give nought.
- `TypeOK`, and the inductive invariant `IInv` the proofs use.

All of this is for a call in order: begun on an empty queue, its one-byte number not
wrapped.  The code takes the place in the superframe from that number, so at the wrap,
and where a header sets the number back under waiting packets, places jump,
fragments are skipped and `LcRecovered` does not hold for that superframe.
`DmrTransmit`, which has the numbers and the queue, says when a call is in order
(`tidy`) and that its places are then right (`InStep`).

`BridgeArrives.cfg` expects a violation: `VoiceArrives`, that the words spoken
are the words sent.  `ysf_vd2_frame_to_dmr_voice_frames` reads the voice channels
20 bytes before the place where `make_ysfd_vd2_data_frame` writes them, and where
`tests/test_fich.py` wants them.  `VoiceUnharmed` is about all that comes behind
that reading, and holds.

## Proofs

TLAPS checks all of the following for every value of the constants allowed by
the named assumptions of each module, which TLC evaluates on every run.  They
say that the model values are distinct (`IdAssumption`, `PacketAssumption`),
that ages saturate above every threshold (`TimeAssumption`), what a
configuration is (`ConfigAssumption`, `BehaviorAssumption`,
`InitialAssumption`), that there is room for the headers before the number
wraps, or that it wraps with the frame numbers (`SpanAssumption`), and that
bounds are numbers (`BoundAssumption`).

`Routing_proofs`: `Invariance` (`Spec => []IInv`), and from it
`TransportAgrees`, `SuppressionAgrees`, `TransmissionsStayWhole`,
`SelectorIsDroppedOnce` and `RouteChangesAfterSilence`.  `IInv` adds to the safety invariants what they
need: `VoiceClock` ties the age the router keeps to the age of the last frame
really on the air, `OneFate` says that a transmission still in progress is
either being dropped, with its burst fresh, or is carried on the talkgroup
selected, and `DownIsBlank` that a stopped process remembers nothing.  Without
`OneFate` the next frame's decision is not tied to the last frame's fate.

`ReturnPath_proofs`: `Invariance`, `VoiceHasHeader`, `SelectWakesInTime`,
`FramesArePaced`.  The heart is `QueueInStream`: every voice frame waiting in
the queue has a header before it with no terminator between, or stands in the
stream YSFGateway has open, and while the router takes a stream to be active
the end of the queue leaves one open.  Four lemmas say how `InStreamAt` moves
under append and pop.  `SendSpacing` (age of the last send plus time to the
next is at least the interval) gives the pacing.

`DmrTransmit_proofs`: `Invariance`, `CallsAreWhole`, `CallsAreInStep`,
`PacketsArePaced`, `SelectWakesInTime`.  `QueueIsChained` says that the queue
continues what was sent, each packet fitting behind the one before, and
`OpenCall` that the next voice frame of an open call fits behind the last packet
queued; together they give `WholeCalls`.  `Numbered` says that each waiting packet
will leave with the number its place in the call asks for, as long as the call is
`tidy`; it holds for any span of the number, wrap included.

`ConfigStore_proofs`: `Invariance`, `FileIsAlwaysConfig`, `AnswersAreTrue`,
`AccessIsKept`, `BackupHoldsPrevious`, `InstallerKeepsSettings`, for any number of
writers and saves.  The
content needs only `RequestsAreValid` and `TempIsWhole`; access needs `OneWriter`,
which says where the one undisturbed save stands (`Placed`) and is proved from
`WriterMoves`, for a step of the one that writes, and `WritersEnd`, for the end of any;
backup and the
installer's settings need `AloneInStep`, which says the same of each save that no
other overlaps (`Steps`), whatever the others did before.  Lemmas say what the begin of a
save does to the others (`BeginsMeans`), that a save alone is the only writer
(`OnlyWriter`), and what its own steps and the ends of others leave in step.

`DmrReceive_proofs`: `Invariance`, `VoiceOfOneStream`, `NoFrameLeft`,
`SilenceEnds` and `ImplementsStream` (`Spec => FormsStreams`), for any number
of streams and any span of the sequence number that is a whole number of rounds of
eight.  `QueueHoldsEnd` says that only a terminator ever waits, `StandsWithLast`
that otherwise the receiver's numbers are those of the frame handed over, and
`ChunksInOrder` that the chunks held are the next ones of the stream.

`MasterLogin_proofs`: `Invariance` and `AcceptedInLogin`, for any salts, number
of attempts and number of datagrams.  `OneExchange` says that, as long as nothing was
repeated and no late answer read, at most one request or its answer is under way, and
that an answer stands for something granted; `EarlierGranted` that each place in the
login has the grants before it; `OwnPort` that without a fixed port nothing of an
earlier socket is heard and nothing is asked before the challenge, repeated or not.  Lemmas say what `Sent`, `Left` and `Closed` leave
under way (`SentBounds`, `LeftBounds`, `ClosedIsOld`) and what hearing an answer
does (`HearStep`).

`ModeConv_proofs`: for all words of the right lengths, with any bits in them,
what is encoded is read back: the words of a chunk (`ChunkReadsBack`), those of a
YSF voice channel (`VchReadsBack`), the chunks of a DMR frame
(`FrameReadsBack`); and a bit of a product-coded payload is the one its place
stands for (`BptcSendsCells`).  The argument is the same each time: the tables are
permutations and the reader's table is the inverse (`DmrPlaces`, `VchPlaces`,
`BptcPlaces`), what is scrambled twice is as it was (`XorTwice`,
`ScrambledTwice`), and the lemmas on `Join` and `Part` say which bit of a word put
together is which.

Three more say that a receiver finds words of the codes, with the data in them.
`EmbeddedReadsBack` and `BptcReadsBack`: all rows and columns pass their checks,
those made of check bits only included.  That is a fact of linear codes: what is
computed column by column from words of a row's code is again such a word
(`SumsAreChecked`, from `SumOfSums`, that two summations change places).
`ParityReadsBack`: the three syndromes of `Rs129` are nought.  For it the model's
field is shown to be one, as far as needed: doubling is linear and the powers of
alpha follow from it (`DoubleAdds`, `AlphaIs`), so `GfMul` is a sum of doubles
(`GfMulIs`, `TimesMore`) that distributes and lets factors be collected (`TimesAdds`,
`TimesTimes`).  Then a step of the register multiplies what the register stands for by
the root and adds the byte (`StepEvaluated`), and nine steps make Horner's rule.
Sums over sets of places, `FlattenSeq` and the register's steps need induction.  The
library's theorems for it take a predicate, so three lemmas state it with a set in
the place of the predicate (`NumberInduction`, `SetInduction`, `RangeInduction`), and
the lemmas after them (`SumIsParity`, `SumOfMore`, `SumMoved`, `Flattened`,
`PartsFlattened`) give what the folds compute.

`Bridge_proofs`: `Invariance`, `TypeCorrect`, `VoiceIsUnharmed`, `VoiceIsReturned`,
`LcIsRecovered` and `LcIsReadable`, for any colour codes and talkgroups; no
assumption is needed.  The properties of a packet are about its bits, and a packet
does not say what it was made from.  `IInv` does: `LastPayload` and `BuiltPacket` say
which operator made the packet, from which voice and at which index,
`HeldChunks` does so for the chunks still waiting, and `Collected` says that a
receiver has the link control up to where the superframe stands, without which the
fourth fragment completes nothing.  One lemma per action shows that it keeps `IInv`;
four (`Unharmed`, `Returned`, `Recovered`, `Readable`) take each property from it with
the theorems on `ModeConv`.  `NativePlacesRead` shows the other side of what
`BridgeArrives.cfg` finds: read from where the radio puts them, the voice channels
give the words spoken, so that the places looked in are all that is in the way.

Only model-checked: the liveness properties `SilentRadioReturns`,
`DrainsWhenQuiet`, `QueueMoves`, `KeepsAlive` and `Recovers` (the prover has
neither fairness nor ENABLED).  Every other property of a passing run is stated by a
theorem.  The five runs that expect a violation are TLC's alone.

## Not modelled

The fields of the FICH and the text of the data channel, which are abstracted to
what their readers tell apart; the wire layout of DMRD packets beyond their
fields; the rendering of the admin page, log texts, the packet capture tool, the
memory editing tool under `tools/`, where WPSD's settings are looked for (text,
read once), the vendored decoder (third-party), the rest of the installer.
