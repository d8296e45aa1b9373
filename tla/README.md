# Verification of the omarchy-pods daemon

TLA+ models of the daemon in `daemon/` that keeps AirPods working on a Linux desktop, TLC
configurations that check them on small instances, and TLAPS proofs of what matters most for every
instance. `PROJECT.json` lists the components, the runs, the mutants each property is tested with,
the source lines of every definition (`map`), the hazards the properties are aimed at, and the
theorems.

    tlc -workers 2 -config ControlLink.cfg ControlLink   # any run: see PROJECT.json "runs"
    tlapm ControlLinkProofs.tla                          # any *Proofs module

## 1. The system

The daemon is one Qt process (`AirPodsTrayApp` in `daemon/main.cpp`) on one event loop, with one
exception: libpulse calls back on its own thread. Around it are BlueZ (D-Bus), the kernel's L2CAP
sockets, logind, the sound server, WirePlumber, MPRIS players, the pods, the other devices the pods
also know, and a Quickshell panel that talks to the daemon through a local socket and a state file.

| component | state it keeps | operations | talks to |
|---|---|---|---|
| control link (`main.cpp`, `controlreconnect.hpp`, `BluetoothMonitor.cpp`) | socket, recovery session and its budgets, one-shot timers, remembered addresses, the once-only teardown flag, `bluezReportedConnected`, suspend flags | BlueZ signals, probe answers, socket outcomes, watchdog, suspend and resume, verbs | BlueZ, the kernel, logind, BLE scan, media, ATT |
| BLE scan (`ble/blemanager.cpp`, `scanduty.hpp`, `blescanretry.hpp`) | duty phase, two timers, retry ladder, wanted flag | start, stop, finished, error, host mode change | Qt's discovery agent; five callers in `main.cpp` |
| ATT channel (`attclient.cpp`) | fd, request queue, the request in flight, one timer | request, reply, timeout, close | the pods; the Loud Sound Reduction verb |
| playback (`media/mediacontroller.cpp`, `handoffstate.hpp`, `eardetection.hpp`, `playerstatuswatcher.cpp`) | players paused, self-initiated mark, both-out window, handoff state | ear reports, media reports, audio-source frames, teardown | MPRIS, the pods, the other device |
| sound server connection (`media/pulseaudiocontroller.cpp`) | context, `m_initialized`, reconnect timer and ladder, mainloop lock | initialize, attemptReconnect, queries, context callbacks | PulseAudio or PipeWire |
| audio routing (`media/mediacontroller.cpp`, `profilechoice.hpp`, `capturematch.hpp`) | queued attempts by generation, claim and reclaim, the one WirePlumber restart | activation, cancel, release, the link's callbacks | the sound server |
| volume (`conversationlevel.hpp`, `snaptogrid.hpp`) | ducked flag, saved volume, restore timer, expected echo | conversation levels, timeout, sink change events | the sound server, two threads |
| pod settings (`podsettings.hpp`, `settingsreassert.hpp`, `controlcommandstate.hpp`) | echoes, persisted wishes, two timers per link | verbs, FEATURES_ACK, echoes, reassert | the pods, the settings file |
| battery and notices (`battery.hpp`, `deviceinfo.hpp`, `lowbatterywatcher.hpp`, `main.cpp`) | a record per source, the published levels, a latch per source, two banner flags | battery frames, advertisements, announcements, FEATURES_ACK, teardown | the pods, notify-send |
| IPC server, CLI, single instance, state file (`main.cpp`, `librepods-ctl.cpp`) | local socket, `status.json` | verbs, status | panel, CLI |
| panel (`Service.qml`, `Model.js`, windows) | held values, command queue, one timer | clicks, exits, reads of the file | state file, CLI |
| parsing, tray, autostart, daemon windows, phone relay, vendored code | none that another part depends on | | |

What is hard here:

- **Nothing that was queued can be taken back.** `QTimer::singleShot`, posted calls and D-Bus
  replies arrive after the link, the recovery, the release or the pair they were for. Every
  component invented its own guard: a generation, a phase, a flag, an address.
- **Several witnesses of one event.** A lost link is reported by `errorOccurred`, `disconnected` and
  BlueZ, in any order; a pair that comes back by a signal, a probe, a sweep and the watchdog.
- **One radio.** The scan and the connect compete for it, and recovery, teardown, connect, suspend
  and resume each stop and restore the scan.
- **Echoes.** The daemon's own pauses, volumes and settings come back to it as reports that look
  like the user's.
- **Two threads** share the sound server's context, a flag and a remembered echo.
- **Suspend and resume**, with a grace timer that outlives the next suspend.
- **A display ahead of the truth.** The panel shows a click before the daemon has it, through a
  queue of processes that may be refused, time out or outlive the daemon.
- **Budgets.** The recovery, the profile ladder and the reconnects must end or never end, each by
  its own counter.
- **One fact in several forms.** A level is a record, a published text and a latch, written and read
  at different moments; a connect is announced, acknowledged and shown by three callbacks.

What makes each component correct: the link is recovered or torn down, never parked, and discovery
is always on when it should be; the scan's cycle always has one driver; an ATT answer belongs to its
request; only the user moves the pods between devices; a dead sound server is always being
reconnected to; one chain switches the card, none after a release; no volume is left ducked; a wish,
the pods and the echoes agree; the last click is what goes out and what is shown in the end; and a
low battery is told once, as is a connect.

## 2. Modules

| module | models | extends or instantiates |
|---|---|---|
| `ControlReconnect` | the recovery session as pure operators on a record | |
| `ControlLink` | the link and everything around it | `ControlReconnect`; `ProbeNonce` as a property |
| `ProbeNonce` | abstract: a session that awaits one probe, by identity | `ControlReconnect` |
| `ProbeToken` | the session as coded, with a generation counter (for the proofs only) | refines `ProbeNonce` |
| `BleScan` | duty cycle, retries, adapter | |
| `AttClient` | the ATT channel and the verb that uses it | |
| `Handoff` | `Handoff::State` as pure operators | |
| `Playback` | players, ears, handoff, link | `Handoff` |
| `PulseLink` | the two threads of the sound connection | |
| `AudioRoute` | the ladder, the claim and what asks for them | |
| `SinkVolume` | duck, snap and wearer on one sink | |
| `PodSettings`, `MCPodSettings` | settings on the pods, echoed and wished | |
| `Panel` | the panel's service, the CLI, the daemon's verbs and its state file | |
| `Battery` | records, published levels, low-battery latches | |
| `Notices` | what the latches and the connect banner hang on | `Battery` |
| `...Proofs` | theorems, one module per proved component | |

A step of every module is one callback of the event loop, whole: what the callback calls is part of
the action. Constants that name a bound are marked `bound:` in the module; all others are parameters
of the code.

**ControlReconnect, ProbeNonce, ProbeToken.** `ControlReconnect` has the four states and the two
budgets of `ControlReconnect::Session`. The code tells a late probe answer from the awaited one by a
generation that every transition increments; the link needs only that identities of probes in flight
differ. `ProbeNonce` says that, `ProbeToken` is the code with its counter, and the refinement
`ImplementsNonce` maps a generation to the awaited identity. The counter has no end, so this one is
proved and not run. `ControlLink` then uses identities, a small set, instead of an unbounded
counter, and its own sessions are checked against the same `ProbeNonce` (`SessionsMatchProbes`).

**ControlLink.** `socket`, `session`, `reconnectTimer`, `shots`, the two addresses, `finalized`,
`bluezReported`, `scanning` and `suspending` are the fields of the same purpose in `AirPodsTrayApp`.
`ConnectToDevice`, `ScheduleControlReconnect`, `ScheduleControlRecoveryRetry`,
`FinalizeDeviceDisconnected` and `Sweep` are helpers that several callbacks share, as in the source.
BlueZ is `Device1.Connected` (`pods`: away, held by BlueZ, or ready to accept), an ordered `bus` of
signals and replies, and `requests` not answered yet. With `SilentBlueZ` the property may change and
no signal come, which is why the code has its watchdog. An error of a probe reads as "not
connected", as in the code.

**BleScan.** `Qt`'s agent is modelled from its use: `start` does nothing while it reports a scan,
signals are queued and may race a stop, and an adapter without power leaves it reporting a dead
scan.

**AttClient.** Four faults are a parameter (`Faults`): a send that fails, silence, an error, a drop.
An answer may always be late. The queue is real; the timer runs exactly as long as a request is in
flight. `behind` is history: a request has timed out with its answer still to come, so that replies
are one behind until nothing is under way or the channel is closed. So is `failed`: a request has
failed since the setting was last read in step.

**Handoff and Playback.** A player obeys at once and reports later; a report reads every player
anew, so only whether something is unreported is kept. Superseded both-out callbacks are counted,
not told apart by generation. `starter` and `touched` are history for the properties.

**PulseLink.** What the Qt thread does between two waits is one step, because the mainloop lock is
held. A wait is a loop over a signal, a condition and a deadline in whole milliseconds.

**AudioRoute.** A queued attempt of the current generation is in `ladder`, older ones are counted in
`stale`. Each query may fail. `taken` is history: whether the user has moved the sound off the pods
since the daemon put it there.

**SinkVolume.** Both threads share one connection, whose order of messages is kept. Volumes are the
server's 65536 steps; every percent is a truncation, as in the code.

**PodSettings.** A value is a set of what it turns on, so that the stem hold (one value for two
buds) and the switches share one form. `sure` is history: the wish was made or sent again with
nothing about its setting under way. A recovery (`recovery`) may last beside a link that a connect has
opened, and its teardown then clears the echoes under that link, as `false_teardown` shows for the
link itself; `forgotten` is the history of it.

**Panel.** `holds`, `queue`, `inFlight` are `_pending`, `_queue`, `_inFlight` of `Service.qml`;
`command` is the `librepods-ctl` that runs, with its exit until the panel has read it. A field is
one of two kinds: the listening mode, whose packet the pods report back, and those the daemon stores
as the packet goes out. `late` holds verbs whose `librepods-ctl` has given up, which the daemon
still reads. `overdue` stands for the clock. A new process starts with `DefaultStatus`; the file of
a dead one may still be there. `unanswered` is history: the last click on a field whose verb has not
ended.

**Battery, Notices.** The three forms of a level are three variables: the record of a source, the
text last published, the latch. Frames write the first two, advertisements only the first, and the
latches are evaluated when the text changes. `Notices` has the callbacks: an announcement in or out
of the flagged sweeps, the link, FEATURES_ACK, the recovery and its teardown, each enabled wherever
`ControlLink` may take it. `recovered`, `excused` and `credit` are history.

A component has one type invariant, proved where the component has proofs. Runs check what could
really be wrong.

## 3. Runs

Each run asks one question; `PROJECT.json` has a mutant of the code for every property it checks.

| run | states | properties | shows |
|---|---|---|---|
| `control_link` | 567,612 | `RecoveryIsDriven`, `DiscoveryNotLost`, `NoScanJoinsRecovery`, `LadderNeverRewinds`, `LinkDropsOnlyOnLoss`, `SessionsMatchProbes`, `RecoveryTerminates`, `DiscoveryResumes`, `WatchdogRecovers` | the recovery of one pair in every order of signals, probes, socket outcomes, suspends and verbs: driven, bounded, alone on the radio; every recovery ends, pods that leave are looked for, the watchdog brings held pods back |
| `false_teardown` | (violated) | `FinalizedMeansGone` | the first finding of section 4 |
| `ble_scan` | 1,928 | `CycleIsDriven`, `GapIsKept`, `ScanResumes` | the duty cycle has one driver and survives the adapter |
| `att_channel` | 50,432 | `AnswersItsOwn`, `ReadBackTells`, `RequestsAnswered` | an answer belongs to its request until one is late, and again once it is in; each request ends, and what was read back in step is what is shown |
| `playback` | 858,708 | `OutWindowServed`, `InterruptedByAHolder`, `PodsAreNotFoughtOver`, `OnlyTheUserMovesThePods`, `ReleaseEndsInterruption` | ears, players and the handoff: who may move the pods, and when playback comes back |
| `pulse_link` | 339 | `InitializedIsAlive`, `ReconnectIsDriven`, `NoWakeupLost`, `PulseRecovers` | two threads on one connection: it is always being rebuilt, and no signal is lost |
| `missed_deadline` | (violated) | `DeadlineIsNoticed` | the second finding of section 4 |
| `audio_route` | 202,128 | `OneLadder`, `ReleaseStands`, `UserMoveStands`, `LadderEnds` | one chain of attempts, none after a release, none against the user |
| `sink_volume` | 2,458,150 | `DuckIsBounded`, `NeverLouder` | a duck ends with its timer and never makes anything louder |
| `pod_settings` | 1,256,392 | `WishHolds`, `EchoIsTruth`, `MaskFollowsWish`, `OtherBudKept` | wishes, echoes and pods over links, recoveries, teardowns under a live link and other devices |
| `panel` | 702,603 | `LastClickGoesOut`, `HoldIsDriven`, `PanelConverges` | clicks against refusals, time-outs, late verbs and a daemon that comes and goes |
| `notices` | 69,420 | `LowIsWarned`, `NoNagging`, `BannerIsEarned` | a low source is told of, and once until it recovers; an announcement of a connect earns at most one banner |

Bounds, and why they are enough:

- **control_link.** Both budgets are 1, so a ladder can be climbed, exhausted and begun again within
  a few steps; the theorems cover every budget. Two probe identities are two probes in flight, one
  awaited and one parked, which is the case that could be confused; an unbounded number is a matter
  for `ProbeToken`. One BlueZ signal under way (`MaxSignals`) beside the answers to the probes is
  enough to cross each of them. One shot per pair and one pending resume (`MaxShots`, `MaxWakes`) are
  enough for a shot or a grace to outlive what it was for; a second of either adds a repeat of it.
  More than one pair is left to the theorems: the safety properties are proved for any number of
  pairs, but for `RecoveryIsDriven`, `LinkDropsOnlyOnLoss` and `SessionsMatchProbes`, which do not
  hold for two (section 7).
- **ble_scan.** `MaxDoublings = 6` is the code's. Three queued agent signals exceed what one window,
  one error and one raced stop can leave; two host modes make a power cycle.
- **att_channel.** Three requests: one in flight, two waiting, so that order and the close with a
  queue are seen. A request may time out with up to two answers to come (`MaxLate`), its own and
  that of one before it. The fault `send` is left out because `RequestsAnswered` fails with it
  (section 7); the two other properties are proved for it too.
- **playback.** One player that obeys; the behaviours that differ in their window (`one`, `off`);
  two frames and a superseded callback in flight.
- **pulse_link.** Three posted calls: attempts, a death and a readiness at once.
- **audio_route.** Two attempts and two unanswered queries, so both limits are reached; one
  superseded attempt. One codec, since the choice among codecs is a list walked in order.
- **sink_volume.** Percents on and off the five-percent grid (40, 42, 45), which is where the
  truncation differs; three messages under way between the server and the two threads.
- **pod_settings.** A sticky setting, the stem hold shared by two buds, and the one the mask is
  computed from; the pods echo the first two. Two frames each way, three in all (`FewFrames`): a
  frame of a verb, a frame of a reassert and a report cross one another. The wishes of a run are
  about one setting (`OneWish`): no step reads the wish for one setting to decide about another. Any
  number of old timers. The theorems have none of these bounds.
- **panel.** Three clicks are one that runs, one that waits and one that replaces it, or two fields
  at once; one disturbance is an end of the daemon, a change from elsewhere or a verb whose caller
  gives up, at any moment. The user may stop clicking, hence `CHECK_DEADLOCK FALSE`.
- **notices.** A bud and the case are the two sorts of source; the latches are independent, as the
  theorems show for any number. Of the levels, 0 is the one the decryption treats apart, 12 lies
  between the latch's two thresholds, 80 above both. At most two banners are under way
  (`MaxCredit`), one eligible and one pending.

`CHECK_DEADLOCK` is on in the other runs: those systems always have a next step, if only a signal
from outside.

## 4. Findings

`false_teardown`: `daemon/main.cpp:1181` says of the teardown "The pods are gone, so playback that
was on them stops rather than jumping to the speakers." An initial connect that fails is tried again
by a one-shot timer that nothing cancels, and a recovery may have begun meanwhile. When the shot's
socket opens, `handleConnection` ends the recovery only if the session is in ConnectingSocket; one
that probes goes on beside a working link. The answer "not connected", given before the link came
up and delivered after it, then ends the recovery by a teardown: settings, device info and ATT are
dropped, playback is paused and the user is told that the pods have gone, with the link up
(`FinalizedMeansGone`, thirteen states). A "yes" instead leaves the session in ConnectingSocket with
nothing to connect, until the link is lost (which is why `RecoveryTerminates` says that a recovery
ends or the link is up).

`missed_deadline`: `daemon/media/pulseaudiocontroller.cpp:28` says "Arming a mainloop time event
guarantees the one wakeup the loop needs to notice it has run out of time." The event is armed for
`timeoutMs` before the `QElapsedTimer` starts and fires once, while the loop leaves only when
`elapsed() > timeoutMs`, in whole milliseconds. A wakeup on time finds them equal and waits again,
with nothing armed: against a server that accepts and stalls, the Qt thread waits with the mainloop
lock held until the server signals something. `PulseLink` has the deadline as three moments (before,
at, past), and the run finds a wait that has used up its wakeup at the deadline.

## 5. Fairness

Only what the event loop, a timer or a kernel guarantees is fair; users, pods, other devices and
deaths never are.

- `ControlLink`: a connect ends one way or the other; the socket of an absent pair is lost; the
  recovery timer, the one-shot timers, the watchdog and the grace timer fire; D-Bus delivers and
  BlueZ answers.
- `BleScan`: the two timers, the delivery of the agent's and the adapter's signals. The adapter
  itself may stay off.
- `AttClient`: the connect ends, the timer fires, what has arrived is read, and pods that do not
  hold back their answer answer.
- `Playback`: a frame that was sent arrives.
- `PulseLink`: posted calls, the timer, a signalled wait, its wakeup, the answers, readiness and
  death of a context as seen by the client. A server that comes or goes is not fair; `PulseRecovers`
  is about one that stays.
- `AudioRoute`: a queued attempt runs.
- `Panel`: processes end, the timers fire, a changed file is noticed and read, and a daemon that
  runs answers and writes its file. A daemon need not start, and the pods need not report.

## 6. Proofs

`tlapm` checks each theorem to its last leaf. What is assumed of the constants is only their named
`ASSUME` (a budget is a natural number, `NoPod` is no pod, the settings are finitely many, ...),
which TLC evaluates in every run of the module. A few theorems have a hypothesis more, in their
statement. Each excludes behaviors in which the property fails (section 7), and the runs make the
same choice:

| hypothesis | theorems | what it excludes |
|---|---|---|
| `OnePair` | of `ControlLink`: `RecoveryIsAlwaysDriven`, `LinkOutlivesTheRest`, `SessionsImplementNonce` | a verb that changes the remembered address under a probe |
| `Refusing = {}` | `UserMovesThePods`, `PodsAreKeptOrLeft` | a refused call, which leaves the daemon's mark on a player that has not moved |
| `EarDetection \notin Echoed` | `MaskIsTheWish` | a mask computed from a stale echo |

The last is what the pods were seen to do: "Not echoed on this firmware: ... 0x0A on-bud ear
detection" (`knowledge/aap-control-command-echo.md:45`).

- **ProbeTokenProofs.** No constant is assumed anything of. A late answer could be taken for the
  awaited one if a generation came back. `IInv` is `TypeOK` and `OutstandingIsPast`: nothing
  outstanding bears a generation the session has yet to reach. Then every step of the counter maps
  to a step of `ProbeNonce` or a stutter (`TokenImplementsNonce`), one lemma per session operation.
- **ControlLinkProofs.** `IInv` adds to the types: the timer runs exactly when the session waits,
  the teardown's flag is clear while a session is active, an active session has an address, and the
  bound on resume timers counts the one a suspend in progress will start. The types alone are not
  inductive: a retry needs the address its request names to be a pair. From the invariant:
  `TypeCorrect`, `TeardownEnds`, and `LadderOnlyClimbs` as a property of steps.
  The second part is on the radio. `DiscoveryNotLost` is not inductive, since a recovery socket may
  fail after its session has ended; `Discovering` says which attempts count and is, together with
  `ConnectionUnderWay`. `RadioStaysQuiet` needs `IInv` alone: each step that starts a scan ends the
  session or finds none, but for the end of a resume's grace. With one pair,
  `RecoveryIsAlwaysDriven` follows the awaited answer from the request to the bus to its delivery,
  and `LinkOutlivesTheRest` shows that no step but a loss touches a working socket.
  The third part is the refinement, `SessionsImplementNonce`: every step of the link is a step of
  `ProbeNonce` or a stutter, if an identity is in flight once (`FlightOnce`).
- **BleScanProofs.** `TypeOK` and `CycleIsDriven` are inductive together; `GapKept` follows.
- **PlaybackProofs.** The invariant joins five parts, each stepped apart: handoff, players, ears,
  link and traffic. `HolderKnown` (a handoff that is interrupted knows who holds the pods) is the
  strengthening behind `InterruptionNeedsHolder`; the equivalence of an open window and one live
  callback is `WindowServed`. The two properties that speak of who touched the players need history
  tied to the code's state: `MovesInv` (what was reported is what the daemon knows; an unreported
  change that no user made bears the daemon's mark) gives `UserMovesThePods`, and `MineIsClaimed`
  (what the user plays is claimed for: the claim is under way, or the pods have heard it and either
  nobody took them since or the frame that tells of it is under way) gives `PodsAreKeptOrLeft`.
- **SoundProofs.** Three parts. `AudioInv`: types, at most one queued attempt of the current
  generation, none after a release, and that what the daemon took in a session it took by the
  session's claim; `UserMoveIsKept` is a property of steps from it. `VolumeInv`: whatever is read,
  saved or on its way to the server is no louder than the loudest the wearer set, rounded up to the
  grid of a snap, and a saved volume means a duck, which means a timer. `PulseInv`: the three
  properties with `Supporting`, namely that a context that may still die has room to post its death,
  that the Qt thread opens one only without a connection, and that a query or a start that outlives
  its context leaves what will replace it.
- **SettingsProofs.** Of `AttClient`, `OneUnderWay` (one request or one answer on the channel, for
  the head of the queue), unless replies are `behind`; that they are behind only on an open channel
  and after a failure; and `KnownOrOwed` (the status is what the pods have, or a request that will
  tell is queued, or one has failed, or nothing is known of a closed channel). Of `PodSettings`,
  `SettingsInv`: nothing rests in the channels of a closed link, the acknowledgement comes first, a
  wish is sure only once the burst was read, the last frame to the daemon that speaks of a setting
  says what the pods hold, and its echo is known or `forgotten` (`EchoFollows`), and every frame to
  the pods that sets a sure one is the wish (`WishFollows`). `BudIsKept` is a consequence of the
  two. `MaskFollows` is for every link: the last request of notifications under way bears the mask
  of the wish, and with none under way the pods have it. The burst of a link
  and the timers of earlier links change many settings in one step, so these are stepped by what the
  sent frames do to the last word on a setting, and not frame by frame.
- **PanelProofs.** `IInv` adds to the types: at most one verb waits for a field, a verb runs
  whenever one waits, and the verb of the last click on a field waits, or runs with none behind it
  (`LastWaitsOrRuns`). `EnqueueFacts` and `HeadFacts` say what the queue's two operations keep for
  every queue; `LastClickKept` follows. `HoldsAreDriven` is inductive as it stands.
- **NoticesProofs.** `LatchHolds`: a source that has not recovered since it was warned of, or was
  low when the text last changed, has its latch up. It looks at the writers of the latch only, so it
  holds for any pods and levels. `BannersCovered` counts what is eligible and what is pending
  against the announcements that no banner has answered. `NeverNags` and `BannersAreEarned` are
  properties of steps from them.

A theorem states every invariant and every action property of the passing runs. What is only
model-checked is the liveness, since fairness and ENABLED are out of the prover's reach:
`RecoveryTerminates`, `DiscoveryResumes`, `WatchdogRecovers`, `ScanResumes`, `RequestsAnswered`,
`ReleaseEndsInterruption`, `PulseRecovers`, `LadderEnds` and `PanelConverges`. No module declares a
RECURSIVE operator.

## 7. Behaviors that do not hold

TLC shows most of these, from the models as they stand or with the constant named; those on what no
module holds (toasts, a torn string, two daemons, a table of choices) are read from the source. Few
contradict a comment or a test, so they are notes for the code's owners and not findings.

Control link:
- A session may stay in ConnectingSocket under a working link (section 4) until the link is lost.
- A scan may run beside a recovery after a resume, whose grace timer starts it whatever goes on, and
  under a live link by the same way. Before the grace is over a teardown may start it too.
- A second suspend within the grace of a first resume is ended by the first timer: `m_isSuspending`
  is cleared while the machine sleeps.
- At start-up the saved address may overwrite the address of the pair that the sweep has just found.
- `m_disconnectRequested` waits for a teardown that may come much later and swallows its toast.
- With two pairs, a verb may change the remembered address under a probe. Its answer is then dropped
  and the recovery is parked in ProbingBlueZ until a signal comes: neither `RecoveryIsDriven` nor
  `SessionsMatchProbes` holds, since the awaited answer has come and was not taken.
  The last probe's "no" may tear down the live link of the other pair: nor does
  `LinkDropsOnlyOnLoss`.
- The watchdog looks only at the recovery session, so it may begin one beside an initial connect.
- A verb that remembers a bonded address turns off the watchdog's cold-start sweep.
- A recovery that was given up may leave pods that settle into Device1.Connected to be found by the
  watchdog only if the last probe said yes.

ATT and playback:
- A reply that comes after its time-out answers the next request, and leaves each later reply one
  behind until nothing is under way or the channel is closed; the status may meanwhile keep a value
  the pods never had. ATT replies carry no identity, and nothing in the client counts what it still
  has to expect. `AnswersItsOwn` and `ReadBackTells` say what holds around such steps.
- With `"send"`, a send that fails on an open channel leaves the queue behind it waiting for the
  next verb. A close with two requests queued sends the second on the closing channel and leaves its
  timer running.
- In-ear resumes players during an interruption, with no claim; and of the players it paused
  ("resumes only the players it paused", `README.md`) it also starts one the user has stopped since.
- With `Refusing = {p2}`, a refused pause or play leaves the daemon's mark, and the user's next
  change reads as the daemon's: `OnlyTheUserMovesThePods` and `PodsAreNotFoughtOver` do not hold. So
  does a change inside the window; a report later than 1500 ms reads as the user's.
- The handoff's state outlives the link: an interruption of one session is resumed in the next.

Sound:
- A start that times out against a stalled server is never retried (`abandoned` in `PulseLink`).
- `waitForOperation` arms no wakeup at all.
- The A2DP start queued two seconds after a connect may claim the sink for pods that have gone, and
  the claim may outlive the session (`ClaimBelongsToSession`, five steps).
- The ladder is not cancelled when the socket is lost, and a reclaim may stay owed although the user
  has moved the default.
- 40 % reads as 39 %; a snap may override the next key press, and overlapping snaps may chase one
  another; a late snap undoes a duck; each duck and restore may lose one percent; the echo of a
  restore to a volume of 3 mod 5 is not recognised. Pods stay ducked when the default has moved at
  the restore.
- `m_snapSinkName` and `m_snapStep` are shared between threads with no lock.

Settings and modes:
- A verb within the round trip of the echo is judged against the old echo: it is saved, answered as
  held, and not sent. `hold left:noise` then `hold right:noise` within it loses the first.
- The first `hold` verb of all, with no echo and no wish, sets both buds to noise control, though
  "the other bud keeps its setting" (`verbtable.hpp:87`). The source knows: "without them both buds
  start at noise" (`podsettings.hpp:158`). `OtherBudKept` starts where something is known.
- The echoes are kept over a recovery, so a verb before the burst is judged against the old link.
- A recovery given up beside a link that a connect has opened clears the echoes under it (section 4).
  The status then lacks what the pods told, until they report it again or the next link.
- The reassert timers of earlier links fire on later ones; with `eardetect` in `Echoed` a mask may
  be computed from a stale echo.
- A daemon killed between the packet and the save leaves the pods ahead of the wish.
- A listening mode is judged against the last report: from A to B and straight back to A is answered
  ok, not sent, and the pods end in B.

Battery and notices:
- "Charging clears the latch immediately so a brief plug-pull near the threshold doesn't lock out
  future warnings" (`lowbatterywatcher.hpp:10`), but the latches are evaluated only when a published
  level changes: a bud charged and taken out at the same percent keeps its latch, and one that comes
  off the charger at a level already published is not warned of.
- A byte that says unknown, of a source never heard of, makes it available at 0 %, which may be
  shown and warned of.
- The watchdog's sweep and a second announcement, as the services of connected pods resolve, earn a
  banner again, which the next recovery then shows, though "a control-link recovery on a link BlueZ
  never dropped is not a connect either" (`main.cpp:1586`). A link lost between FEATURES_ACK and the
  first battery frame loses its banner.
- Each ladder of the watchdog that ends in a teardown repeats the toast of the disconnect.
- The notifier learns the id to replace when its helper ends, so two notices close together stack.

Panel and IPC:
- `UnansweredClickShows`: "an incoming read cannot undo a click the daemon has not answered yet"
  (`Service.qml:69`) protects a click while it has its hold. It may lose the hold before it is
  answered: to a refusal of the verb before it on the same field, to a read that happens to report
  its value, or, while it waits in the queue, to its time. The next read then shows the daemon's
  value until the click's own verb has taken effect (`PanelConverges` says that it ends well).
- A daemon that ends without reading a verb closes its socket cleanly, and `librepods-ctl` reports
  success; one that answers after a second is reported as a failure and applies the verb.
- A crash leaves `status.json`, and the panel shows that daemon until another starts, though "the
  daemon removes the file when it stops" (`Service.qml:101`).
- Two daemons launched together both find no server, and the second unlinks the first's socket; one
  launched while another quits loses its socket to the other's clean-up. Not modelled yet.
- The panel offers `hold` choices (`Model.js:280`) that the daemon's verb table refuses
  (`verbtable.hpp:86`).

## 8. What is abstracted, and what is not modelled

- Time is not modelled: a timer that runs may fire at any moment, and orders that clocks exclude are
  excluded where they matter (a hold outlives the verb it was placed for: 2 s against 4 s).
- D-Bus is up. A probe error reads as "not connected". The branch of a probe with no address, two
  early returns of `attemptControlReconnect` and the idle branch of `retryScan` cannot be reached
  and have no action. `isAirPodsDevice(QBluetoothDeviceInfo)` is always false there. The retry
  budget is constant.
- Players obey at once and report within the 1500 ms; pods honour every claim; an unknown
  audio-source type is not sent. Connect-on-play and the phone relay are left out.
- An attempt of `AttemptReconnect` waits for room among the posted calls (`MaxQueued`). All queries
  of one A2DP attempt see one server state; suspending for a card is a free choice.
- The panel's holds come due in any order, but never while their verb runs. A file that cannot be
  written, or of another schema, is left out. That a watch on an absent file reports its creation is
  the shell's promise.
- Advertisements and battery frames carry any readings; AirPods Max, the primary bud and the other
  fields of the device info are left out. The switches that mute notices, the card of an opening lid
  and the helper process of the notifier are left out.
- Not modelled: parsing and byte layouts (data; the models' frames are their parsed forms); windows,
  tray and autostart (presentation); the phone relay (off by default, its peer is not in the
  repository); vendored code, the stand-alone hearing-aid script, the installer.

## 9. Plan

Done: the control link, its session and refinement, the scan, ATT, playback and handoff, the sound
connection, routing, volume, settings, the panel, battery and notices, in this order of importance.

Next, in order:
1. The single-instance guard: two launches, a quit and one socket path, with the state file.
2. Proofs: what two pairs leave of the three properties that need `OnePair`; the link of item 3.
3. The link composed with the settings and the playback: one generation of a link as an abstract
   specification that `PodSettings` and `Playback` use and `ControlLink` implements.
4. Two pairs in `ControlLink` under TLC, once the runs leave the time.
