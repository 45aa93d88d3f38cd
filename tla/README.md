# TLA+ models of react-native-nitro-xray-core

This directory holds TLA+ models of the library, the TLC runs that check them
on small instances, and the theorems about them that TLAPS checks. Every
definition is translated from the source; `PROJECT.json` maps each one to the
lines it stands for.

Abbreviations: SVC = `XrayVpnService.kt`, BUS = `XrayStateBus.kt`,
ENG = `XrayEngine.kt`, HYB = `HybridNitroXrayCore.kt` (Android),
CLI = `src/client.ts`, APP = `example/App.tsx`.

## 1. Inventory

| Component | State | Operations | Talks to | Hard behaviour | What makes it correct |
|---|---|---|---|---|---|
| VPN service (SVC) | per object: tunnel, DNS of the tunnel, command number, `destroyed`, `tunnelRevoked`, `engineLock`; per process: `isRunning`, `isEngineRunning` | onStartCommand (START, START_LAST, STOP), onRevoke, onDestroy, and the worker each of them spawns | engine gate, bus, preference stores, Android | workers queued behind slow ones, commands overtaking each other, destruction and revocation in mid-start, an engine that will not stop, a second object after the first | a descriptor is never closed under the engine and never leaked; flags, stream and promises tell the truth; the kill switch holds; everything settles |
| State bus (BUS) | one start slot with a token, one stop slot, the listener | setPendingStart, resolveStart, currentStartToken, setPendingStop, resolveStop, emit | service, hybrid object | a stale worker settling a newer start | each promise settled once, none lost, tokens isolate starts |
| Engine gate (ENG) | `xrayLock`, `olcrtcLock`, `isWedged`, mirrors of the bypass state | startEngine, stopEngineBounded, stats, startBypass, stopBypass, readers | Go libraries through JNI | a stop that hangs in cgo, readers that must not block | a stop always returns; a wedged engine is never touched again |
| Go engine (`main.go`) | `runningServer` | StartXray, StopXray, QueryStats | xray-core | failure half way through a start | at most one server |
| Go bypass (`olcrtc.go`) | the olcrtc client, its port | StartOlcrtc with retries, StopOlcrtc, readers | olcrtc | readiness, retry of a port in use | the port is the one of the running client |
| Hybrid object (HYB) | none but pending requests | startXray, stopXray, stats, olcrtc, permissions, settings | bus, service, stores | a stop whose report does not come | no promise hangs |
| Preference stores | quick-connect payload, kill switch, notification texts, connection info | save, read, clear | service, hybrid object | a save racing a clear | nothing is stored after a sign-out |
| Permission activity | callbacks by request id | register, resolve | hybrid object, Android | destruction without an answer | every callback is called |
| JS client (CLI) | serial lock, armed bypass, traffic sessions, connection info | connect, startRaw, disconnect, stats, startOlcrtc, ... | native module | overlapping calls, state kept next to native state | commands never interleave; reported info matches the tunnel |
| Traffic sessions (`session.ts`) | baseline, last sample, suspended | update, suspend, commitRestart, reset | JS client, state stream | samples and events out of order | totals never shrink and never count a byte twice |
| URL test (`urltest.ts`) | results, next index, per probe a fetch and two timers | worker pool, abort, backstop, sort | fetch | a shared counter around awaits, fetches that ignore their abort | every server probed once and given its own latency; the test ends |
| Parsers (`subscription/`) | none | parseShareLink, parseSubscription, parseSubscriptionUserInfo | JS client | four schemes, each with its own names and defaults | no usable line is lost; what a link means is kept |
| Config builder (`build.ts`) | none | buildXrayConfig, buildOlcrtcTunnelConfig | JS client | a hop through the bypass in front of any server | what is dialed is what the link means; references resolve |
| Version reader, error mapping | none | pure functions | JS client | | |
| Example application (APP) | state, connection and row shown, the switch of the bypass, the list and its latencies | handlers of the buttons, effects, reload of the context | JS client | handlers suspended at permissions and calls while events arrive; a context replaced under a running tunnel | what is shown is what runs |
| Hybrid object and packet tunnel (iOS) | NEVPNManager profile, status, armed bypass | startXray, stopXray, observers, startTunnel, stopTunnel | Network Extension | asynchronous status, a bypass started in the background | the bypass does not outlive the tunnel; promises settle |

## 2. Plan

1. `XrayStateBus` and `EngineContract`, the two things the service stands on,
   then `XrayVpnService`, the core of the library, with the Android system and
   the JS caller as its environment. Done.
2. `XrayEngine`: the gate with its lock, its abandoned threads and the Go global
   behind it, shown to implement `EngineContract`. Done.
3. `XrayBypass`: the olcrtc half of the gate with `olcrtc.go` and those who use
   it. Done.
4. Proofs: the bus, and the service as a user of it; the ownership of
   descriptors by an inductive invariant, the kill switch and the reports of the
   service on top of it; the engine gate against its contract; the mirrors of
   the bypass and the port JS dials. Done.
5. `TrafficSession` with the state stream, `XrayClient` with the serial lock, the
   description of the connection and the armed bypass, over a native side
   reduced to what reaches JS. Done, with proofs that totals never shrink, that no
   byte is counted twice and that the description is of what runs.
6. `UrlTest`, `ShareLink` and `XrayConfig`, composed in `ServerList`: from the text
   of a subscription to the list on the screen and the configuration the engine
   is given. Done, with proofs about the pool, the time a test takes, the list and its
   order, and the references.
7. `XrayApp`: the screen over `XrayClient`. Done, with proofs of its four properties.
8. Left: `IosTunnel`, the hybrid object and the packet tunnel provider of iOS (a
   bypass started in the background does not outlive stopTunnel, startXray's wait
   for the old session ends, the status observer repeats `connected`); the consent
   dialog.

## 3. Modules

| Module | Models | State and actions in the code's terms |
|---|---|---|
| `XrayStateBus` | BUS | `pendingStart`, `pendingStartToken`, `startTokenSeq`, `pendingStop` are the fields of that name. `tokenOf` names the start a token was handed out for, `startPromise`, `stopPromise` and `fired` what became of each completion. One action per method; a start has a token of its own, a settle presents one that was captured. |
| `EngineContract` | what the service relies on of ENG and `main.go` | `engineFd` is the descriptor the one server of the process reads. A start succeeds only over none, a stop ends it, or gives up for good. |
| `XrayVpnService` | SVC, the Android half of HYB that drives it, the system around it | See 3.1. |
| `XrayEngine` | the engine half of ENG, `main.go` | `runningServer`, `isWedged`, `xrayLock`; per caller where it is, what it found in Go, and its stop thread. A call waits for the lock, enters Go, returns; a stop does so in a thread its caller joins and may abandon. |
| `XrayBypass` | the bypass half of ENG, `olcrtc.go`, the uses in SVC, HYB and CLI | `client` and `olcrtcSocksPort` are Go's, `bypassRunning`, `bypassPort`, `lastBypassConfig` the mirrors. Four kinds of thread: the one whose call JS awaits, the JS thread that reads, the worker of the service, the stop threads. |
| `TrafficSession` | `session.ts` | A session is `baseline`, `lastRaw` and `suspended`; `Update`, `Suspend`, `CommitRestart` are its methods, `Bank` the two lines they share. |
| `XrayClient` | CLI, `lock.ts`, `native.ts`; of HYB and SVC what reaches JS | See 3.2. |
| `UrlTest` | `urltest.ts` | `next` is the shared counter, `worker` the server each of the pool probes, `now` the time since the test began. From one await to the next is one step. |
| `ShareLink` | `parse.ts` | A link is given by the parts its parser splits it into; one operator per parser. |
| `XrayConfig` | `build.ts` | The outbounds, rules and stream settings of the JSON, and how the engine reads them. |
| `ServerList` | the subscription half of CLI and APP | A document loaded, another one published and loaded while it is tested, the list sorted by its test. `site` is what the host serves now, `sent` what each load was sent; `shown` and `tested`, for the properties, name the documents the list, and the list under test, were made from. `EXTENDS` the three above. |
| `XrayApp` | the connection half of APP | `state`, `conn`, `activeTag`, `olcrtcOn`, `olcrtcBusy` are the hooks of that name; a handler waiting for the permission is in `asking`; `misled`, for the properties, is the refused start that `conn` describes. `EXTENDS XrayClient`: the screen's part is added to the client's steps. |
| `*Proofs`, `XrayVpnServiceTunnel` | | Theorems about the module they extend. |
| `LinkFormats` | how links are written, outside the code | For each scheme, from what is meant by a link to the parts it is split into: `Written(write)` is every link that can be written with the values of `write`. The parser never sees what is meant; `DialsAsMeant` compares the two. |
| `MC*` | | What TLC instantiates. |

`XrayVpnService` instantiates `XrayStateBus` and `EngineContract` with its own
variables: its steps are written with their operators, and `ImplementsBus` checks
that they are used as those modules allow. `XrayEngine` is shown to implement
`EngineContract` with `engineFd <- runningServer`.

Operators named "A faulty variant" are the mutants of `PROJECT.json`: they are
used by no specification, only put in place of the definition they follow to
see that the property they threaten notices.

### 3.1 The service

A worker is one thread spawned by onStartCommand, onRevoke or onDestroy. Its
record holds what that handler captured for it (`seq`, the bus token, the start
id, the DNS servers) and its `pc` the point it has reached. The steps between two
labels run without anything another thread could see half done; a new label
starts wherever the code reads or writes something another thread touches, or
takes time:

| Label | Code |
|---|---|
| `queued` | waits for `engineLock`, then compares `commandSeq` (SVC 165-179, 229-240) |
| `halt` | the engine of the previous session is stopped (258-272) |
| `tun`, `install` | reuse or establish() (274-305, 445-480) |
| `check` | `destroyed` (308) |
| `bypass` | the stored bypass of a quick connect (328-342) |
| `engine`, `verify`, `publish` | startEngine, the second look at `commandSeq` and `destroyed`, the report (344-372) |
| `fail`, `hold`, `error` | handleStartFailure (403-434) |
| `stopEngine`, `dropTunnel`, `after` | teardown() and what each command does after it |
| `settle` | onDestroy's resolveStop, outside the lock (725) |

The main thread serves `mainQueue` one call at a time; onRevoke comes at any
moment. Android is modelled by what SVC relies on: startService reaches the
current object or creates one, start ids grow, stopSelf(id) is refused when a
later command was sent, a service that stopped itself is destroyed once its
interface is gone, and may be destroyed without asking; a revocation takes the
interface first and tells the object later. JS awaits its own commands (CLI's
serial lock), so at most one of its promises of each kind is pending, while
commands without JS (`Tap`: the widget, the notification's button, an intent of
the host app) are sent at any time.

A descriptor is named after the worker that established it; `iface` is the one
whose interface the system routes traffic to, `fd` its state, `"parked"` being
what `parkQuietly` makes of it. Once an engine has started on the live descriptor,
Go has a copy of its own (`kept`), and the interface lives until both are gone
(`Interface`): the service gives its descriptor up and goes on, and Go lets go some time
after the engine has stopped (`GoLetsGo`; SVC 585-592, 604-607), at once or never. While the
interface lives the system may revoke it and does not destroy the service. The wait of a stop, the reason of a failure and
the texts of events are left out; which branch is taken is a choice.

### 3.2 The client

JS runs one piece of code at a time, from one await to the next: that is a step.
A call of `serialize()` is in `waiting` until the lock is free, then `call`, and
is released when its native promise has settled (`answer`), whichever way.
Calls that do not take the lock are actions of their own: stats() (asked,
read on a thread of its own, taken by JS) and the listener of state events.
`events` is what the native side emitted and JS has not seen. Samples and
promises come to JS through the same dispatcher as events, in the order they
were sent: `behind` counts the events emitted before a sample was read, and it
is taken after them.

The native side is `XrayVpnService` without what JS cannot tell apart: a command is
refused by Android where it is sent, or is on its way (`intent`) until onStartCommand
takes it; a start
stops the engine that runs, then fails over a tunnel that is held, fails and tears
it down, or brings up an engine (`EngineStarts`) which carries traffic for a while
before its start is reported (`StartSucceeds`); a stop begins when no start is under way; a widget
starts what is stored; the system takes the tunnel. `carried` is what engines
really carried since the session began, against which the total is compared.

`info` is written before a start is sent and put back by a start without JS from
what is stored with the configuration (CLI 255, `QuickConnectStore.kt`). A start that is
refused leaves it, over whatever runs: `refused` remembers that start, for the
properties, until the description is written again.

## 4. Runs

| Run | Question | Bounds |
|---|---|---|
| `bus` | Are promises settled once, never lost, never by another's token? | three starts and two stops: one in the slot, one preempted, one to come |
| `service_switch` | Who owns the descriptor when commands, a revocation, a destruction and a hanging engine meet? | one connect, one command without JS, one revocation, one unasked destruction, two objects, two sets of DNS servers. Every pair of them races; a third command adds nothing that a worker, which compares only with the newest command, could tell apart |
| `service_reports` | Do the stream, the flags and the promises tell the truth? | two connects and a disconnect of the app, a toggled kill switch, a hanging engine, one object |
| `service_live` | Is every promise settled, and does a stop release the tunnel? | a connect, a disconnect, a command without JS, quick connect, a stop of the engine that hangs, starts of the engine and the bypass that may, a copy in Go that may be kept |
| `engine` | Does the gate keep the contract, whoever calls it at once? | three callers, two descriptors, four calls: one in Go, one waiting, one giving up, one after that |
| `bypass` | Do the readers tell the truth, and does a teardown end? | two ports and a configuration that does not parse, two attempts, two stop threads, four calls of JS (a start, a connection that is stored with it, a start beside a quick connect, and connectOlcrtcOnly()), two commands without |
| `client` | Is traffic counted once, does the description tell the truth, and does every call settle? | two calls of any kind queued at once, three samples of one poll, one act of a widget or of the system, two units of traffic, each command taken or refused: enough for a sample before, during and after a restart, and for a start refused over the engine of the one before |
| `servers` | Is a subscription shown whole, tested once each and dialed as meant? | links of `Written` with one value or none for each part: each transport with one security and each security with one transport, in every way a part may be left out, under every scheme; each kind of refused link between good ones, lists of one to three servers with a pool of two (fewer servers than slots, more, and two with one link), two loads at once, a host that publishes another document at any moment (`Later`; with one quota header), so that it is loaded before, under and after the test of the first |
| `app` | Does the screen show what runs, once nothing is under way? | three taps, two servers each dialed directly or through the bypass, one reload, one act of a widget or of the system, each command taken or refused |
| `two_services`, `sign_out`, `app_blackhole` | One statement of the code's documentation each, which the code does not keep | the smallest instance that shows it |

The properties are stated with a comment each, at the end of their module. Those
that say most:

- `NoClosedFdInUse`, `NoDescriptorLeak`, `DestroyedLeavesNoTunnel`: a descriptor
  is closed only once the engine let go of it, parked if it may never, always
  owned by somebody who will release it, and by nobody once its service is
  destroyed. The code orders engine, descriptor and report by hand in seven
  places.
- `CaptureNeverLapses`: with the kill switch on, no start that fails and no
  switch between servers opens the network.
- `ConnectHonest`, `DisconnectHonest`, `StreamTruthful`, `FlagsTruthful`: what
  JS is told is so when it is told, of the tunnel as far as the service has it: the
  interface may live on in Go's copy (section 4.2).
- `ImplementsBus`, `ImplementsContract`: refinements.
- `StopMeansStopped`, `MirrorsTruthful`, `DialsLivePort`: what a return value or
  a mirror says of Go holds.
- `NeverOverCounts`, `TotalsNeverShrink`: whatever the order of samples, events and
  restarts, what is shown was carried, and nothing shown is taken back.
- `InfoTruthful`, `ConnShownRuns`: what currentConnection() and the screen name is
  what runs, or nothing, although it is written before the outcome is known and
  by more than one; or the start that was refused over what runs, and no other.
- `PromisesOwed`, `WaitsOwed`: a promise that is armed, a lock that is held and a session
  that is suspended have somebody at work who will end it. They are what liveness rests
  on, and unlike it they can be proved: a report forgotten on one of the service's seven
  ways out of a start, or an event that ends a restart and is not taken for one, breaks them.
- `NothingLost`: the list is one whole document that was sent, whichever the host
  publishes meanwhile; while a test runs that may change, and change back at its end.
- `DialsAsMeant`: from a line of a subscription to the connection the
  engine makes, no scheme's conventions get lost in between.
- `ProbedOnce`, `LatencyIsOwn`, `TestInTime`: the pool's shared counter and late
  answers.

The runs spend nothing on types: the type invariants are theorems, for every value of
the constants (section 6).

`CHECK_DEADLOCK FALSE` stands in the runs whose bounds run out: once every call
was made and served, nothing happens.

### 4.1 Fairness

`service_live`: the main thread serves its queue (Android's looper), every worker
that can run does (`engineLock` is handed on, a stop that hangs is given up) except inside
startBypass and startEngine (`InsideGo`), which have no deadline and need never return,
a revocation is delivered, and a caller that armed a promise goes on to send
its intent, two lines further. Nothing is assumed of the user or of timeouts:
`JsStopGivesUp` may or may not happen. Nor is anything of Go: that every start in it comes
back is a premise of `ConnectSettles`, `DisconnectSettles` and `StopReleasesTunnel`
(`StartsReturn`), since one that does not holds `engineLock` forever; and that it lets go of
the descriptor (`[]<>(kept = None)`) is a premise of the half of `StopReleasesTunnel` that is
about the interface. `engine`: a caller that waits for the
lock or joins gets on when it can or when its deadline passes; a call into Go
need never return. `bypass`: the worker of the service runs; Go and JS need not.
`client`: the JS thread runs what is due (events, samples, the lock, a promise that
settled), what was sent to the native side arrives and is done, with an answer of every
call into Go, and stopXray's seven seconds pass, before which the main thread has taken
the intent. `servers`: timers fire and the JS thread goes on; a host may never answer.

### 4.2 Where the bounds are chosen around a known exception

A property above is checked in an instance in which it holds; outside of it the
following happens, and the models show it when the bound is lifted:

- With a revocation, a mark set between establish() and SVC:477 is erased there,
  and the next connect() reuses the dead descriptor: `ConnectHonest`,
  `StreamTruthful` and `DisconnectHonest` are run without revocations. So are they
  without a destruction nobody asked for, in front of which a start may still report
  "connected" over a tunnel that its own end tears down.
- A revocation is never superseded (SVC:395): a tunnel brought up after it, and
  before its worker runs, is torn down, while the comment at SVC:386-387 has
  only the revoked one in mind.
- START_LAST with nothing stored emits `error` over a tunnel that is up
  (SVC:197-210), and a destruction in mid-start can leave the stream at
  `connecting` (SVC:733): `StreamTruthful` is run without either. INTEGRATION.md:53
  and :134 describe those events otherwise.
- A STOP posted before a connect() and handled after it was armed rejects it,
  although the START that follows comes up.
- `FlagsTruthful`, `StreamTruthful` and `StopReleasesTunnel` hold for one service object:
  the teardown of an old object may follow the start of a new one
  (`two_services`). With one object, `FlagsTruthful` holds whatever else happens to it.
- `CaptureNeverLapses` is run with a kill switch that is not toggled: it is read
  when a start fails and the tunnel is dropped later.
- In `XrayBypass`, a stop does nothing when the lock is held by a start or by a
  reader, although ENG:194 explains it by "a stop already in flight" and SVC:580
  says that olcrtc is never simply skipped; a start over a running client
  leaves the mirrors as they were until it ends, so a quick connect at that
  moment does not bring the bypass up; startBypass waits for its lock without a
  deadline, so behind a stop that hangs it holds the service's `engineLock`
  forever, although ENG:24 says that nothing waits forever.
- A start of the bypass leaves the mirrors as they were until it ends: connectOlcrtcOnly(),
  which reads them while a quick connect starts another configuration, dials a port
  that nobody listens on (CLI:552, ENG:183). `DialsLivePort` excepts that moment, which
  takes four calls of JS to reach.
- `DisconnectHonest` is run without commands of others: a STOP overtaken by one of
  the notification's button settles the disconnect before the tunnel is down
  (SVC:173-188), and so does the overtaken STOP of a disconnect() that was given up,
  for the one called after it. `ConnectHonest` is run without quick connects: one that finds
  nothing stored rejects the connect() on its way, which then comes up
  (SVC:207).
- In `XrayEngine`, a stop is given up after 2.5 s while its thread may wait for the
  lock for 3 s (ENG:141): behind a slow start the engine is marked as wedged though
  nothing hangs in the stop.
- `lastBypassConfig` is never cleared, so a direct connection is stored with the
  bypass of an earlier one (SVC:369, ENG:187), and a quick connect brings it up.
- `Races` names the races of `XrayClient` that its runs leave out, because with them
  `NeverOverCounts`, `InfoTruthful` or the screen's properties fail: a sample that is
  read before the end of a restart, or a reset, and delivered after it ("late sample");
  a first stats() during a restart, when there is no session yet to be suspended
  ("first sample"); the error a widget reports over a tunnel that stays up, which also
  ends a restart that is not over ("stray error"); the failure of a widget's start
  reported after a connect() was announced, so that the session resumes in the middle
  of the restart and what the new engine counts before "connected" is banked and
  counted again ("early resume"); a raw configuration replayed by a widget, which is stored without a
  description and so goes by the one before ("raw replay"); a widget's start between
  two steps of a call that starts, stops or forgets ("widget overlaps"): disconnect()
  clears the description of what the widget has just started (CLI:301). Each is
  admitted by adding its name to `Races`. The theorems of section 6 admit them all,
  except where they say otherwise.
- Two stats() at once may be answered in the wrong order; the older sample is taken
  for a new engine's, and the newer one is banked and counted again (CLI:414). The
  `client` run has one poll at a time, as APP has.
- A queued connect() is described with the bypass armed by a later call, which is set
  before the lock is taken (CLI:515): `InfoTruthful` compares the server only.
- A reload over a tunnel that is held shows it as connected (`app_blackhole`): `app`
  has `OverHold = FALSE`.
- A start that Android refuses has described itself before (CLI:255, HYB:197-201): the
  engine that ran goes on, and currentConnection() names the refused start until the next
  call or a widget's start, although CLI:381-383 says that it is correct.
  `InfoTruthful` and `ConnShownRuns` except that one start, and fail without the
  exception. A command that is refused while a widget's start is under way, and a
  widget's start while a command of JS is on its way to onStartCommand, belong to the
  race "widget overlaps".
- A newer document that is loaded while a test runs is replaced when the test ends by the list
  that was tested (APP:343), with the newer quota left above it. `NothingLost` is about
  the document the list was made from, which is then the older one.
- An interface may outlive the descriptor that the service gives up, on the copy Go keeps
  while the bypass, or an engine whose stop was given up on, is not through (SVC:585-592,
  604-607): `DisconnectHonest`, `StreamTruthful` and `FlagsTruthful` are about the tunnel the
  service has, and `StopReleasesTunnel` says what becomes of both. A disconnect() that
  settles in between has not brought the interface down, which BUS:12-13 says it means:
  `DisconnectHonest` fails with `Interface'` in the place of `iface'`.
- The screen's port of the bypass is read before connect() takes the lock, and its
  switch follows the user's own calls only (APP:262, APP:293): a bypass stopped by a
  direct connect leaves it on. No property of `XrayApp` is about either.
- Of a subscription, the body is awaited without a deadline once the headers are in
  (CLI:167), and a signal of the caller's replaces the one the timer aborts (CLI:143).
- Two servers with one link share one latency, and are not sorted by what is shown:
  `ShownSorted` excepts them.
- What `ShareLink` does not see, since it starts from the parts of a link: an
  unbracketed IPv6 address is cut at its last colon, ports out of range are taken
  (`parse.ts` 330), and an IPv6 address makes a probe's URL that fails at once, so
  the server is shown as the fastest (`urltest.ts` 43). An empty `olcrtc.tag` goes past
  the `??` of `build.ts` 65 and fails the test of line 72, so the connection goes directly:
  `ServerListAssumption` has tags that are the caller's own.

## 5. Findings

Each has a run of its own, whose counterexample TLC prints.

| Run | What happens |
|---|---|
| `two_services` | The teardown of a destroyed service object stops the engine that its successor has just reported as started. |
| `sign_out` | A quick connect on its way stores its configuration again after clearStoredConfig(). |
| `app_blackhole` | After a reload over a tunnel that the kill switch holds, the screen says "connected" and stays so. |

## 6. Proofs

Everything below is proved for every value of the constants, from the named assumptions
of the modules (`CallsAssumption`, `BoundsAssumption`, `EngineAssumption`,
`BypassAssumption`, `ClientAssumption`, `AppAssumption`, `UrlTestAssumption`,
`ServerListAssumption`). They say no more than that the bounds are numbers and the other
parameters have their types, that "none" is not one of the things it is told apart from,
that start and stop calls, the kinds of configuration, and the threads of the bypass
differ from each other, that an olcrtc port is positive, that a backstop is later than
the timeout, that a document is a list of lines, and that the tags a caller chooses are
its own. What a theorem needs beyond them is a hypothesis of its own, named below with
the reason; each is met by the run that checks the property.

- `XrayStateBusProofs`. `BusInvariant` says which call is in a slot, that tokens
  name calls one to one, and how often each completion was invoked; the three
  safety properties and the types follow.
- `XrayVpnServiceProofs`. `ServiceTypeCorrect`, from three parts: the types, that
  threads exist only up to `spawned` and hold a lock only at the labels inside
  it, and that a call which is armed is one that was made. `ServiceImplementsBus`:
  every step of the service is one of `XrayStateBus`, because only the workers of
  starts report (`ReportsOwnStart`), each under the token its handler captured
  (`Captured`), and a call arms its own promise once (`ArmedPromise`). The theorems of the
  bus are instantiated with the service's variables and so hold of it:
  `ServiceSettlesOnce`, `ServiceLosesNoPromise`, `ServiceIsolatesTokens`.
  `ServicePromisesOwed`, the part of `ConnectSettles` and `DisconnectSettles` that is not
  liveness: a command that owes a start its answer gives it before it is done
  (`StepOwesStart`), and carries the token the start still has, because the start armed is
  the one armed last (`NewestArmed`), whose caller awaits nothing else (`CallerAwaitsOne`)
  and whose intent has what the handler asks of one (`PostedWithDns`).
- `XrayVpnServiceTunnel`. The three properties of the descriptor from the
  inductive invariant `Ownership`. None is inductive alone. That a descriptor is not
  closed under the engine needs that the engine is off the object's descriptors
  when a worker drops the tunnel (`EngineStopped`) and from its halt until it
  starts again (`EngineHalted`), that what it starts on is its object's tunnel
  (`StartsOnTunnel`), that a tunnel is an open descriptor of the object's own
  workers (`TunnelOwned`), and that the workers of an object exclude each other
  (`LockHeld`). Nothing is said of the workers of another object except that they
  have other descriptors: that is why the engine they share may be stopped by
  them (`two_services`) but no descriptor closed under it. A destroyed object is
  rid of its tunnel because somebody is always on the way to drop it
  (`DestroyedIsDropped`).
  `ServiceCaptureNeverLapses`, for a kill switch that is not toggled: a start that came to
  tear down had nothing to hold (`GivesUpRightly`).
  `ServiceStopReleases`, the part of `StopReleasesTunnel` that is not liveness, with nothing
  assumed: a stop that was carried out and not overtaken has left no tunnel and nobody who
  would make one (`Released`), because it had the lock when it took the tunnel down, and no
  other command of its object has its number (`Apart`); and the live interface is an open
  descriptor, never the one being replaced (`LiveOpen`), so that no descriptor of that object is
  open; its interface, if it is alive, is so by Go's copy only.
  `ServiceFlagsTruthful`, for one object: the worker inside tells the flags of each change
  it makes to the engine (`EngineTold`) and to the interface (`InterfaceTold`), and one
  that is revoked is on its way to do so.
  `ServiceConnectHonest`, for one object that is never revoked: who reports has the engine on
  the tunnel it installed (`ReportsOnTunnel`).
  `ServiceStreamTruthful` and `ServiceDisconnectHonest`, for one object that only JS commands
  (4.2 shows what others do): commands are numbered as they are posted (`Counted`,
  `Posted`); the newest, once it has begun, is the only one at work (`InTurn`), the service
  stops itself only after it (`Winding`), and what it said last is what it left
  (`Said`). For disconnect() moreover one stop is under way at a time (`OneStop`), and
  somebody waits for it or gave it up before anything else was asked for (`Awaited`), so
  that who finds itself overtaken was so by a start. That needs a caller which calls no
  disconnect() after one that it gave up (`Patient`); a caller with one disconnect(), as in
  `service_reports`, is one.
- `XrayEngineProofs`. `Exclusive`: whoever is in Go holds the lock, and what it found
  there is still so. With it every step of the gate is one of `EngineContract`,
  or a stutter: `EngineImplementsContract`. `EngineStopMeansStopped` holds as long as the
  lock is waited for longer than a stop is joined, which is the theorem's
  hypothesis, LOCK_WAIT_MS > ENGINE_STOP_TIMEOUT_MS.
- `XrayBypassProofs`. The recorded port is that of the client unless a start is
  between Start and WaitReady, whoever is in Go holds the lock, and so the
  mirrors are right whenever it is free, and negative while a stop runs. The
  types follow from the same invariant. `BypassDialsLivePort` needs who starts the
  bypass: the call JS awaits, which is not connectOlcrtcOnly(), or the service
  (`StartersInv`); and that the mirrors are right while a reader holds the lock.
- `XrayClientProofs`. `Inv` refines the types by what each operation carries. `TotalsGrow`
  rests on the arithmetic of a session: banking changes no total
  (`BankKeepsTotal`), and neither does suspending or resuming; a sample adds to it,
  whichever engine it is of and however late it comes (`UpdateGrows`). It admits every
  race and any number of polls. `InfoNamesEngine` needs that whoever sent a start
  awaits its answer (`Awaited`), that what is stored is described (`StoredNames`), and
  that what will run is described until a disconnect forgets it, during which
  nothing runs (`StartNames`); a start that is refused takes the place of what runs in the
  description, and is the only other thing it names. Its hypothesis excludes the races that
  break it.
  `NothingCountedTwice`. That a total is at most what was carried
  is not inductive: what a total may become depends on the samples and events on
  their way. `Sums` says it of each of them: a sample is of an engine that ended
  (`Past`), of the one the last sample is of (`Follows`), or of the one that runs
  (`Current`), and while an event that ends a restart is due, the last sample may be
  banked. Banking is safe when a start is reported because no sample of the new engine
  has been taken by then (`HeldBackOf`): the session is suspended once the events
  ahead of such a sample have been delivered (`Shielded`), from the announcement of a
  start to its report (`Fenced`). The hypothesis `NoRaces` has one poll and none of
  the races of 4.2; calls, configurations, counters and engines are unbounded.
  `WaitsAreOwed`, the part of `CallsSettle` and `SessionThaws` that is not liveness, with
  every race: the events on their way tell of an end after the last start announced
  (`Ended`) unless one is under way, and an event that ends a start reaches whoever is
  suspended, because it listens (`Heard`).
- `XrayAppProofs`. A step of the screen is one of the client, or a reload, with the screen's
  part added; the invariants of `XrayClientProofs` are at hand. `OneToggleAtATime`: while the
  switch is busy one toggle is among the handlers that wait for the permission, in the
  queue of the lock, or has it (`ToggleInv`). `ScreenTellsTheTruth`: what the screen will say
  once the events on their way have come is the truth as soon as nothing is under way on
  the native side (`WillShow`); it needs that no stray error is admitted and no
  app reloaded over a tunnel that is held. `ScreenDescribesWhatRuns`: the description is read
  anew with the last event on its way (`WillDescribe`), and a row is marked while the
  start last asked for is queued, under way, or all there is (`Row`); it needs the
  hypothesis of `InfoNamesEngine`, and that a configuration goes by the tag of the server it
  was built for.
- `ServerListProofs`. The pool: a worker's server is behind the counter and nobody
  else's (`PoolInv`), clocks only grow and a probe that has begun is not in the
  future (`ClockInv`); from these each server is probed once and given its own
  latency. `TestEndsInTime` needs no sum over the probes: no worker is idle while a
  server is left, so of the workers that are busy when the i-th probe begins one was begun
  as many places ago as there are workers (`OneIsBehind`, a pigeonhole), and the i-th
  begins within its share of the time (`TimeInv`). The filter of the parser and the
  sort are given by ranks: a strict order of a finite set gives each element its place
  (`Places`), one to one. So the list is at all times a permutation of the lines the parser
  accepts of the document it was made from (`ListOf`), whichever documents the host
  publishes, from which `NothingIsLost` follows for documents whose usable lines
  are those the parser accepts, which TLC checks of the documents of `servers`; and a test
  leaves it in the order of what it shows (`ListShownSorted`). `AllReferencesResolve` is about
  `buildXrayConfig` alone, for every server.
  `DialsWhatIsMeant` follows a link of `LinkFormats` to the connection: the server parsed
  from it says what is meant (`Says`, by `UrlSays`, `VmessSays`, `SsSays`), the settings built
  from such a server are those the transport and the security call for (`BuiltAsAsked`,
  `SecuredAsAsked`), and they are the ones the tunnel's outbound has, dialed through the hop
  if there is one (`TunnelTakes`). Its hypotheses: the lines the parser accepts are written
  by the conventions, with any values whatever of which no address, port, secret or method
  is empty (`Writable`); and a hop that is asked for has a tag (`HopHasTag`; 4.2 says what an
  empty one does). `WrittenLinksShown` has no hypothesis about the other lines of the
  document: each line written by the conventions is accepted, and shown as what it means.

Only model-checked: liveness (`ConnectSettles`, `DisconnectSettles`, `StopReleasesTunnel`,
`WaitsEnd`, `TeardownEnds`, `CallsSettle`, `SessionThaws`, `PingEnds`), which is out of the
prover's reach.

## 7. What is not modelled

- In SVC: the sticky restart with a null intent, startForeground throwing, a
  park that falls back to a close (it defeats `NoClosedFdInUse`), the increment
  of `commandSeq` as two steps, the notification.
- A Go server whose Start fails half way: it is taken to leave nothing behind
  that reads the descriptor. A start has no deadline; one that hangs in Go holds
  `engineLock` and with it the service.
- olcrtc's client ending by itself; the handshake behind Start and WaitReady.
- iOS: the hybrid object, the packet tunnel provider and the consent dialog of
  Android. The models are of the Android side.
- Base64, UTF-8 and percent-decoding and the splitting of a text into the parts of a
  link; the fields of a link that are carried over as they are; logging, DNS servers and
  policies of the configuration; the version reader and the mapping of errors.
- In APP: the kill switch's toggle, the counters shown, the messages, several
  state setters applied as one, a probeUrl that throws; the screen's own timer is the
  poll of `XrayClient`.
- Generated bindings, JNI marshalling and the deployment scripts: no logic of their own.
