# PlatformReady: a verification project

PlatformReady runs the refereeing of a powerlifting meet. A NestJS backend keeps
the state of every lifting platform in memory; referees vote with ESP32 remotes
or with keyboards in a browser; a director seats remotes and starts breaks from
a web page; and the backend reports decisions and clocks to LiftingCast, an
outside service. This directory holds TLA+ models of the parts whose
correctness depends on ordering, timing or failure, the TLC configurations that
check them, and theorems proved with TLAPS.

## Inventory of the system

| part (source) | state | operations | interacts with |
|---|---|---|---|
| `PlatformClock` (`backend/src/platform/models/platform-clock.ts`) | mode, duration, start time, running flag | configure a break, start, chief's press, reset; expiry is computed on reads | owned by a `Platform` |
| `Platform` (`models/platform.ts`) | active and inactive remotes, last button of each, attempt-change lock, clock | cast a vote, press the clock, reset votes | called by `PlatformService` |
| `PlatformManager` (`models/platform-manager.ts`) | platforms, pool of physical remotes | register, activate, deactivate, replace, transfer | called by `PlatformService` |
| `PlatformService` (`platform.service.ts`) | vote-reset timers, break timers, clock-tick intervals, the global break, untracked report timeouts | one method per REST route, and the timer callbacks | calls both gateways and LiftingCast after each change |
| `EspRemotesGateway` (`esp-remotes.gateway.ts`) | the one live socket of each remote | connect (superseding an older socket), close, heartbeat, push of assignment and state frames | reads remotes through the service, marks them connected |
| `PlatformGateway` (`platform.gateway.ts`) | socket.io rooms | join, emit | browsers |
| `LiftingCastService` (`liftingcast/liftingcast.service.ts`) | sessions per platform, cached URLs | lights, next attempt, set/start/reset clock: chains of HTTP posts | called without waiting by the service |
| `MeetConfigService` (`meet-config/meet-config.service.ts`) | saved form, setup password, unlock tokens, active day: all in memory | unlock, save, summary, set the active day | setup and director's page |
| `FirmwareService` (`firmware/firmware.service.ts`) | none: reads a directory | newest release, its file | remotes' updates |
| frontend hooks (`frontend/src/hooks`) | last platform update, reveal timer, room membership | apply an update, reveal, count down, keyboard votes | browser gateway, REST |
| setup page (`frontend/src/pages/MeetSetup.tsx`) | the form, results of tests, the import dialog, the unlock token | load, edit, resize, test credentials, browse and import from LiftingCast, unlock, save | REST |
| director's page (`frontend/src/pages/DirectorView.tsx`) | the loaded form, a mirror of the active day, progress of a start | start a day, complete it, global break | REST |
| other pages and panels (`RemoteManagement.tsx`, `ScoreTableView.tsx`, `PlatformCard.tsx`, `AttemptChangeOverlay.tsx`) | what is dragged, what is drawn | seating, display | REST, the hooks |
| firmware loop (`firmware/src/main.cpp`) | registered flag, cached platform and role | register, poll assignment, vote, clock, update check | REST and the WebSocket client |
| firmware WebSocket client (`ws_client.cpp`, `transport_fsm.cpp`) | last votes and clock, pending assignment, transport | frames, optimistic clock, switch of transport | `EspRemotesGateway` |
| firmware update (`ota.cpp`) | pending flag and boot counter in flash | check, download, validate at boot, roll back | `FirmwareService` |

Behaviours that are hard, by part:

* **Attempt cycle.** Node runs one handler at a time, so nothing interleaves
  inside a handler; what is hard is what handlers leave behind. A complete vote
  set starts two timers (the report to LiftingCast and the automatic reset),
  breaks start another two (end of break and tick), and any request may come in
  between, also the deletion of the platform and its creation anew under the
  same id. The timers are keyed by platform id, so a stale one meets the new
  platform. Correct means: a break lasts exactly as long as its clock says, a
  running clock has its tick, a report is never overtaken by the reset, a
  vote set completed by votes is always cleared again, and clients see the state the
  service has, or differ from it only in known ways: a swap that fails half way and a
  transfer under another name take a remote off without a word.
* **Remote assignment.** Remotes register by two routes, at any time and more
  than once; the director moves them while platforms come and go; `replaceRemote`
  and `transferRemote` can throw half way. Correct means: a remote is in one
  place, no platform has four, nobody takes a seat its case does not fit or that
  another physical remote has, and nobody is lost.
* **Link to the remotes.** Frames are lost while a device is offline, sockets
  supersede each other, and a device learns its assignment only from one frame
  or when it registers.
* **LiftingCast.** Every report is a chain of posts nobody waits for; chains of
  different handlers run concurrently and may overtake each other or half fail.
* **Browsers.** A page learns a platform from the answer to a request it makes twice
  and from a socket, and the two race; updates before it joins the room and while
  the socket is away are lost; the reveal is timed by an effect that each change
  of what is shown may run again; keys are judged by what is shown.
* **Setting up and running a meet.** The handlers of the setup and the director's page
  wait for requests and go on with what they captured before, while the user
  edits the form, leaves the page or clicks again; nothing they asked for is
  cancelled. Correct means: an edit leaves no result up for credentials it changed, a
  session stored was tested as it is stored, and everyone sees the same active day.
* **Firmware update.** Power may fail between download, boot and validation.

`PROJECT.json` lists the hazards at their lines, with the properties that cover
them and a note where none does yet.

## Modules

| module | what it is |
|---|---|
| `PlatformClock` | a platform's clock as a record and its operations as functions |
| `PlatformService` | votes, clock, breaks, timers, active remotes and what clients were last sent, for any number of platforms |
| `PlatformServiceProofs` | theorems about `PlatformService` |
| `PlatformActivity` | abstract: which platforms there are and what shows of their clocks, without time, votes and timers |
| `PlatformActivityProofs` | the theorem that `PlatformService` implements `PlatformActivity` |
| `MCAttempt`, `MCBreaks` | TLC instances of `PlatformService` |
| `RemotePlacement` | abstract: each physical remote is nowhere, in the pool, or on one platform with a free seat |
| `RemoteAssignment` | the manager's moves of remotes, with roles, hardware types and failures half way |
| `RemoteAssignmentProofs` | theorems about `RemoteAssignment`, among them that it implements `RemotePlacement` |
| `MCRemotes` | TLC instance of `RemoteAssignment` |
| `RemoteLink` | `RemoteAssignment` composed with the sockets, the assignment frames and the devices |
| `RemoteLinkProofs` | theorems about `RemoteLink`, among them that it implements `RemoteAssignment` |
| `MCLink` | TLC instance of `RemoteLink` |
| `LiftingCastReports` | `PlatformActivity` composed with the sessions and chains of posts to LiftingCast |
| `LiftingCastReportsProofs` | theorems about `LiftingCastReports` |
| `MCReports` | TLC instance of `LiftingCastReports` |
| `PlatformFeed` | abstract: what a page reacts to of one platform, and what its room was told last |
| `PlatformFeedProofs` | the theorem that `PlatformService` implements `PlatformFeed` |
| `PlatformBrowser` | `PlatformFeed` composed with a page: its requests, its socket, the reveal and the keys |
| `PlatformBrowserProofs` | theorems about `PlatformBrowser` |
| `MCBrowser` | TLC instance of `PlatformBrowser` |
| `MeetConfig` | the backend's configuration, active day and sessions, and what LiftingCast accepts |
| `MeetSetup` | the setup page on top of `MeetConfig` |
| `MeetDirector` | day control on the director's page, on top of `MeetConfig` |
| `Meet` | `MeetSetup` and `MeetDirector` in one browser tab, with restarts of the backend |
| `MeetProofs` | theorems about `Meet` |
| `MCMeet` | TLC instance of `Meet` |

### PlatformService and the code

One action is one REST handler or one timer callback, run to its end as Node
does. `CastVote`, `PressClockButton`, `ResetAttempt`, `ToggleAttemptChange`,
`StartPlatformBreak`, `StartGlobalBreak`, `GetGlobalBreak`,
`CancelPlatformBreak`, `CancelGlobalBreak`, `CreatePlatform`, `EnsurePlatform`,
`DeletePlatform`, `ActivateRemote`, `DeactivateRemote`, `ReplaceRemote` and
`TransferRemote` are requests; `VoteResetFires`, `BreakResetFires`, `ClockTickFires` and `ReportDecision` are
callbacks. A request that the code refuses (404, 400) and that changes nothing is
a guard; `ResetAttempt` of a missing platform is kept, because it cancels timers
before it fails.

* **Time.** The code computes remaining times from a clock reading; the model
  counts them down. A timer is the number of units until it fires, or `Off`.
  `TimePasses` advances everything by one unit and is blocked while a callback is
  due, but requests are not: so a request may always get in before a callback
  that is due, which is how a late callback looks. All durations are constants.
* **Timers** are keyed by platform id and survive the platform, as the `Map`s of
  the service do. `decisions[p]` holds the timeouts of `castVote` that nothing
  keeps a handle of.
* **Remotes.** `active[p]` is `activeRemotes`, in its insertion order, each remote as its
  role and last button. Of two remotes with one role the later counts, as in
  `getRefereeVotes`. The bench and the pool are in `RemoteAssignment`; here any remote with
  any last button may come, and take a role that is taken. That is more than the code
  allows, which refuses it to physical remotes, and so safe for what is checked and proved.
* **Remotes that leave untold.** `replaceRemote` benches the outgoing remote before it
  finds that the incoming one does not fit, throws, and tells nobody
  (`platform-manager.ts:221`). `transferRemote` frees the remote from the platform it is
  on and then tells the platform that the path names and the target, or, if the named
  one does not exist, nobody (`platform.service.ts:528`). In both the platform's votes change and
  its watchers go on showing the vote of the role that left, until the next
  update. `ReplaceRemote` and `TransferRemote` have these outcomes, and `untold[p]` remembers
  the roles that left so since the last update; it is history, no action reads it.
* **Views.** `browserView` and `espView` are what was last sent about a platform:
  `broadcastPlatformUpdate` writes both, the global break goes through
  `EmitGlobalUpdate` and `PushAllPlatformStateToEsp`. Delivery is not part of this
  module. `ViewsCurrent` says that both are the platform's state, but for a clock that ran
  out with its timer due, and for the votes of the roles in `untold[p]`.
* **Clock.** `ResetToActive`, `ConfigureBreak`, `Start` and
  `HandleChiefClockPress` are the methods of the same names; `State` is computed,
  never stored.
* Left out: names and metadata, the opening-attempts display values, and the
  outcome methods of `Platform`, which only tests call.

### RemoteAssignment and the code

`active[p]`, `benched[p]` and `pool` are `activeRemotes`, `inactiveRemotes` and
`physicalPool`; `role`, `hardware` and `home` are the fields of a physical
remote, `kbRole` the role of a platform's keyboard remote. `ReplaceRemote` has
both outcomes of the code: the incoming remote fits and takes its seat, or
`activateRemote` throws after the outgoing one has left. `TransferRemote` frees
the remote from whichever platform it is found on first, if it is on one. `Restart` is a restart
of the backend, which keeps nothing on disk; `PlatformService` leaves it out, since
its timers and clocks all go with the process.

The refinement maps a physical remote to `"pool"`, to the platform whose active
set it is in, or to `"nowhere"`. A failed swap maps to `Release`, a deletion to
`Close`, a restart to `Restart`, everything about keyboards, roles and hardware to stuttering.

### RemoteLink and the code

`RemoteLink` extends `RemoteAssignment`: `Activate`, `Deactivate`, `Replace`,
`Transfer` and `Delete` are its requests with what the service does besides, the
pushes of assignment frames and the loss of the connected flag with a deleted
record. A request pushes after it has changed the manager, so a swap that fails
half way, and a transfer whose named platform is gone, push nothing.

* **Gateway.** `conn`, `alive` and `connected` are an entry of `connections`, the
  `isAlive` of its socket and `Remote.connected`. `terminate()` and the close event it
  leads to are two steps, since Node reports the close later; in between the
  socket is `"terminated"` and sends nothing. Sockets that were superseded are only
  counted. `Heartbeat` is one step over all sockets, as the interval's callback is.
* **Wire.** `wire` is the device's end: `"dead"` means that the other end is gone and
  the device has not noticed, which the firmware says is usual on Ethernet. A wire
  that breaks loses its frames. A device whose remote the backend does not know is
  refused, and tries again for ever.
* **Device.** One step is one registration attempt, one frame, or one poll of the
  assignment in `loop()`. `seat` is `cfg.platformId` and `cfg.role`, which survive a power
  cycle; `apiPlatform` is `g_platformId`, which is set from flash at boot. Any answer
  to a registration but a good one counts as registered without a platform: an
  error status, and also no answer in five seconds, for `responseStatusCode` returns a
  negative code then.
* Left out: state frames, battery and transport, the button and screen code, and
  the update check.

### LiftingCastReports and the code

The reports depend on few things of the attempt cycle: which clock was started, stopped
or given which length. `PlatformActivity` keeps just that, `PlatformService`
implements it, and `LiftingCastReports` adds to each of its steps the report that
the handler makes.

* **Chains.** A chain is what remains of the calls of one `.then()` chain, the length it
  carries (read when the handler ran), and the session its next call goes to,
  which `getSessionUrl` looks up for each call. `ReportClocks` and `ReportLights` start
  one and return, as the service does not wait. Each post succeeds, fails before
  LiftingCast acts, or fails after it did; a failure ends the chain, since
  `.then()` runs only after a success. Posts of different chains come in any order.
* **Who reports.** Starts and breaks tell the length and start; a stop only
  resets; every end of a break, by its timer or by the director, tells the length and
  resets. Manual and automatic resets of votes, a platform that joins a global break when
  it is made, and deletions tell nothing. `DecisionReported` may happen at any
  time, for the timeouts of `castVote` are never cancelled.
* **LiftingCast** (external) is assumed to do what the comments at
  `platform.service.ts:328` and `:368` say: it keeps the length it was last given, and a
  start or a reset uses that.
* **History.** `inStep[p]` says that the last clock report of `p` ran alone (no other chain
  of the platform's clock was under way while it was), succeeded, and told the
  length or came after one that did. `alone` in a chain is the same while it is under
  way. A new session, or the platform coming or going, ends `inStep`. Neither is read by
  an action that changes anything else. Since resets of votes are not told,
  LiftingCast's clock may run on when the platform's has stopped, and `ClockInStep` asks
  only that it runs when the platform's does.
* **Assumed.** Two platforms are never given the same LiftingCast platform: it is the same
  physical platform seen from two systems.
* Left out: the bodies of the posts, the endpoints that a person calls by hand with
  credentials of the environment, and the browsing and testing of a meet.

What the code does not promise about reports, and no property claims: chains that overlap may
overtake each other, so a late reset can stop LiftingCast's clock just started, or an
attempt run with the length of a break. `ClockInStep` says that the next report
that runs alone repairs it. If a referee votes again on a complete set before
the decision delay is over, two reports are sent, and LiftingCast moves on twice;
`AdvanceAfterLights` speaks of decisions whose reports do not overlap.

### PlatformFeed, PlatformBrowser and the code

`PlatformFeed` is the contract between the service and a page: `live` is the part of
`serialize()` that the hooks react to (a complete vote set, mode and state of the clock,
the attempt-change lock), `told` what `platform:updated` said last. A handler
tells what it changed at once. Two things nobody is told until the next update: that a clock has
run out (`RunsOut`), and that a remote left by a failed swap or a transfer under another
name (`LeavesUntold`), after which a set shown as complete is none any more.
`PlatformService` implements it for each platform (`FeedSpec`, checked in `attempt` and
proved). The page of `PlatformBrowser` therefore may show, light and keep a complete
set that has lost a vote; `CaughtUp` compares it with what was told, not with what is.

`PlatformBrowser` adds one page. A handler, the rendering it causes and the effects that
follow are one step, as React runs them before the next event.

* **Socket effect** (`usePlatformSocket.ts`). It runs twice: at the mount, and when
  the meet summary brings the platform's name (`SummaryArrives`), which closes the first
  socket. `ensure[i]` is the request of run `i`, which nothing cancels, and `heard[i]` its
  local `wsUpdated`. `Connect`, `ServerJoins` and `TakeUpdate` are the connection, the
  backend's `handleJoin` and an update; `LoseSocket` drops what was under way.
* **Reveal effect** (`usePlatformState.ts:88`). `Show` runs it when one of its
  dependencies changed: a running timer is cleared, and set again only if the set
  became complete just now. `RevealFires` is the timer.
* **Keys.** `PressEnter`, `PressSpace` and `PressVoteKey` are passed on as the shown state
  says; a request arrives later, is refused, or is lost. The buttons for the break
  and the attempt change are always passed on.
* `fresh` and `disturbed` are history: an update was taken since the last join and no
  answer of an earlier run came after it; and the effect ran again while the timer
  of the set on the page was running. The page does not read them.
* Left out: the local countdown between updates, colours and badges of single
  referees, and a change of the platform id while the hook is mounted (the route's
  page is opened anew for that, which is `Reload`).

What the code does not promise, and no property claims: before its first update
since it joined, a page may show anything older, for the answer to the ensure request
is not asked for again after a reconnect; and an update that changes the clock, the
mode or the lock within the reveal window takes the lights of that set away for good.

### Meet and the code

`Meet` is one browser tab. `MeetConfig` has a handler of the backend per operator;
`MeetSetup` and `MeetDirector` call them. A request and its answer are one step, the
moment the backend handles it, with a step for its loss; what else may happen
between click and answer happens in between. The director's summary is two
steps, since its answer races with writes of the same data. `Open` leaves one page and
mounts the other with fresh state; tests, stores and starts under way go on, and only their
effects on the page are lost, as the closures of unmounted components do.

* **Form.** Days, platforms, per-day passwords and the shared one are as in
  `MeetSetup.tsx`. A LiftingCast platform id is a meet and a number, so that it matters
  whose platform it is; names, session counts, active flags and the relay address are left out.
* **Tests.** `tests` holds the credentials each test was made with; a success stores the
  session of the platform with just those (`SessionTested`), in a request of its
  own. `resetAllTestStatuses` and `clearDayKeys` are `ForgetTests`, called where the page
  calls them. They clear what is shown and nothing else: a test under way shows its result
  when it is answered. `EditsTakeResultsDown` says what the page does ensure. It does not
  ensure that every result shown belongs to the form: a test that is answered after
  an edit, results that stay when the saved form loads over typed credentials, and
  those of a day or platform that goes away and comes back may not. That is a matter of
  display; the session stored is always the one tested (`SessionsVerified`).
* **Import.** The chosen meets are in the order of their dates (`InOrder`), the first is the
  primary one. `preview` is the meet whose list is shown, `listing` the lists under way; a
  list that comes takes the place of the one before, whoever it was asked for.
* **Saving.** `adminToken` is the token of the session storage. `saves` are the saves under
  way, each with the token and the form it was sent with: the Save button is never
  disabled (`MeetSetup.tsx:865`), so they may overlap and land in any order, and a refused one
  drops also a token obtained since. An unlock saves the form as it was when the unlock was
  submitted (`unlocking.form`); its own button is disabled until that save is answered.
* **Director.** `shownDay` and `shownCompleted` are the page's mirror of the active
  day. A start tests, then stores, every linked platform of the day at once (`jobs`); a store
  that the backend refuses counts as done like one it accepts, for the page does not look at the
  status (`DirectorView.tsx:175`). It posts the active day when all are settled, with the completed days it captured at the
  click. `posts` are active days on their way. `crossed` is history: two writes of
  the active day were under way at once, or a write and a load, one was lost, or the page
  was left before its start was done.
* **LiftingCast** (`testConnection`) accepts credentials if the meet has that
  password and the platform is one of the meet's. A relay is the same with another address.
* A save does not reset the active day (`meet-config.service.ts:93`), so a shorter form may
  leave an active day it no longer has; the code says nothing about it and no property does.
* The summary is loaded at the mount only; the comment at `DirectorView.tsx:55` speaks of
  reloads, which are mounts too.

What the code does not promise: of two writes of the active day that overlap, also
from two browsers, the later one wins with whatever it captured. `DirectorInStep`
speaks of the rest. And a session is per platform, not per day: testing another
day's credentials on the setup page redirects the reports of a platform that is
in use (`MeetSetup.tsx:285`); `SessionsVerified` says only that they are accepted.

## Runs

| run | module / cfg | what it asks | instance |
|---|---|---|---|
| `attempt` | `MCAttempt` | all that can happen to one platform's attempt cycle, and that it implements `PlatformActivity` and `PlatformFeed` | 1 platform, one vote button, breaks of 1 and 3 units, attempt clock 3, delay 1, reveal 2, at most 2 pending reports; remotes with the chief's role are moved |
| `breaks` | `MCBreaks` | breaks over two platforms, with liveness under fair timers | 2 platforms, no votes, no remotes moved, breaks of 1 and 2, clock 2 |
| `remotes` | `MCRemotes` | safety of seating, and the refinement | 2 physical remotes, 2 platforms (one with keyboard referees), old and new registration |
| `link` | `MCLink` | safety of sockets and seats, and liveness under fair heartbeats | 1 device, 2 platforms (one with keyboard referees), at most 2 frames on their way and 1 superseded socket not closed |
| `reports` | `MCReports` | what LiftingCast is left with after chains of posts that fail and overtake each other | 1 platform, 2 LiftingCast platforms to change the session between, breaks of 2 units, attempt clock 1, 2 chains at a time |
| `browser` | `MCBrowser` | what a page shows, lights and passes on, and liveness under a fair reveal timer | 1 page, any state of its platform at the start, 2 steps of the platform, 2 updates and 1 request under way |
| `meet` | `MCMeet` | what a tab shows and what it makes the backend store | 2 meets with 1 and 2 platforms, 2 days, 2 platforms, 2 LiftingCast and 2 setup passwords, 5 clicks, 1 restart, 2 tests, saves, starts, posts and tokens |
| `running_clock_ticks` | `MCAttempt` | violated: see Findings | 1 platform |
| `pending_report_shown` | `MCAttempt` | violated: see Findings | 1 platform |
| `swap_is_atomic` | `MCRemotes` | violated: see Findings | 1 platform, 1 remote |
| `activated_means_placed` | `MCRemotes` | violated: see Findings | 1 platform, 1 remote |
| `seat_known_when_attached` | `MCLink` | violated: see Findings | 1 platform, 1 device |

Why the bounds are enough. The properties of the attempt cycle relate timers of
one platform with each other and with its clock; platforms meet only in global
breaks, which `breaks` checks with two platforms, one of which may be missing,
in its own break or created during the global one. One vote button is enough
because handlers only ask whether a vote is there. The break lengths are one
shorter and one not shorter than the reset delay, so the reset falls inside and
after a break; the attempt clock is as long as delay and reveal together, so that
it can expire before, at or after each. Two pending reports are the least that
can be out of order. Remotes of one role are moved (`Movable`), the chief's, which also has the
clock: it leaves, comes with or without a vote, and several of them fill the three places
(`MaxActive`), also next to each other. That is all that `untold` and the shadowing of one remote by
another need; what a move tells other platforms has its second platform in the name `"elsewhere"`,
which does not exist. The proofs cover every other value for safety, several platforms
and all roles included. In `remotes`, two physical remotes
are what it takes to compete for one seat, and two platforms for a transfer;
keyboard remotes exist under the same id on every platform of `ensurePlatform`. In
`link` one device is enough for the liveness properties, since devices share nothing
but the requests that push to two of them; the safety properties are proved for any
number. In `reports` one platform is enough, since platforms share no LiftingCast
platform; two chains are what it takes to overtake, and two sessions for a chain
whose calls go to different ones. Two frames are what a device must work off in order, and one superseded
socket is what closes late.

In `browser` the bound is on what the platform does (`MaxMoves`), not on the page, which may
be reloaded, lose its socket and press keys for ever. Two steps suffice, since the run
starts in every state of `PlatformFeed` that satisfies `FeedInv`, so what
came before is covered: one step for the set to complete and one to come after it. In
`meet` the bound is on what the user does (`MaxClicks`), in any order on both pages;
answers are not counted. Five clicks reach, for instance, opening the page, an edit,
a test, an edit during it and a resize, or two starts of a day and a
completion between them; saved forms with one and with two days are in the initial states so that no
clicks are spent on typing them. Two tests, starts or posts are what it takes to
overlap, and so are two saves; two of them, or two tests or posts, that are alike in all they carry
count as one. One unlock is under way at a time, as its button ensures. That the
page is not left while a save or an unlock is under way is a bound of the model.

`CHECK_DEADLOCK` stays on, except in `meet`: elsewhere the director, a user or a device can
always do something, while in `meet` the user may have used up the clicks.

Fairness (`FairSpec`, used by `breaks`): weak fairness of every timer
callback and of the passing of time. The event loop runs each callback that is
due before it waits again, and no handler blocks. Requests have no fairness.
`BreakEnds` therefore excludes the behaviours in which breaks are started again
and again. `FairLinkSpec`, used by `link`: weak fairness of the heartbeat, which is an
interval, of the close event of a terminated socket, which Node always delivers,
and, while its socket is open, of the device taking its frames and polling them,
which `loop()` does in every pass. Reconnecting and registering have no fairness: a
device may be switched off. `FairBrowserSpec`, used by `browser`: weak fairness of the
reveal timer only. Nothing makes the network, the platform or the user move.

## Findings

* `RunningClockTicks`: `resetAttempt` cancels the tick (`platform.service.ts:402`)
  also during a break, whose clock keeps running. The comment at 437 promises
  updates every second while a clock is running.
* `PendingReportIsShown`: the timeout of `castVote` (294) is never cancelled, so a
  reset within the decision delay still reports the old votes and moves
  LiftingCast to the next attempt, although no lights appear (comment at 292).
* `SwapIsAtomic`: `replaceRemote` (`platform-manager.ts:193`) says it swaps
  atomically; when the incoming remote does not fit, the outgoing one is gone
  and the incoming one has a new role all the same.
* `ActivatedMeansPlaced`: a remote returned to the pool keeps `platformId`, and the
  firmware takes that for its assignment (`firmware/src/api.h:7`).

* `AttachedKnowsItsSeat`: a frame for a remote without an open socket is dropped
  (`esp-remotes.gateway.ts:201`) and a connect sends only votes and clock. A remote that
  is seated between its registration and its first connect, or while it reconnects,
  attaches and never learns its seat, although `firmware/README.md:54` promises updates
  without a reboot. `SeatedIsTold` is what does hold.

## Proofs

All theorems hold for every value of the constants that satisfies the named
assumptions (`ActiveDurationAssumption`, `ServiceAssumption`, `TickAssumption`,
`AssignmentAssumption`, `LinkAssumption`, `ActivityAssumption`,
`ReportsAssumption`, `BrowserAssumption`, `MeetAssumption`, `SetupAssumption`,
`DirectorAssumption`, `MeetBounds`), which TLC also evaluates in the runs. Those that say more
than the kind of a constant:

* `TickAssumption`: an attempt is a whole number of ticks (60 s and 1 s in the code).
* `MeetAssumption`: there are finitely many meets, no more than `MaxDays`. The page has no
  upper bound of days; an import of all meets must fit below the bound of the model.
* `SetupAssumption`: `MeetOrder`, the order in which LiftingCast lists the meets,
  has each of them once.
* `MeetBounds`: a form sent by another client has the days and platforms it says. The page
  sends no other (`SavedFormsFit`), and the backend does not check it
  (`save-meet-config.dto.ts:24`).

`PlatformServiceProofs`:

* `TypeCorrect` (`TypeOK`), by one step per action.
* `BreakEndsOnTimeAlways` and `AttemptClockTicksAlways`. Neither property is
  inductive, for a clock may be reset and a platform deleted and made again. The
  invariant is `ClocksOK`: for every platform id, also a missing one, the clock is
  a fresh one if the platform is missing; it has the tick if it runs an attempt;
  and a break runs with its timer equal to what the clock has left.
* `ReportBeforeResetAlways`, from `ReportsOK`: the pending reports of a platform are
  in the order of their due times, none is due later than the decision delay, and
  all are due `RevealWindow` before the reset. The order is needed because only
  the first report of the sequence blocks time.
* `CompletionIsFollowed` and `BreakIsNotCut`, the action properties: one step per
  action, from `TypeOK` and, for the second, `ClocksOK` (when the break timer fires
  the clock has nothing left). The first excludes the steps in which a remote comes with the
  button it last pressed. A remote that leaves never completes a set: with at most three
  active and one per role needed, one that leaves opens a gap, in whatever order they came.

`PlatformActivityProofs`:

* `ServiceImplementsActivity` (`ActivitySpec`). The refinement shows mode, length and
  running flag of each clock and forgets the rest. It needs `ClocksOK`, so that a platform
  that is made has a fresh clock and a due break timer meets its own break, and
  `GlobalBreakOK`, that a global break that is remembered has no more left than the
  longest break, so that what a joining platform is given is a length of the
  abstract module. One lemma per action (`StepShows`).

`RemoteAssignmentProofs`:

* `TypeCorrect`, `OnePlaceAlways`, which is inductive together with `TypeOK`.
* `AtMostThreeActiveAlways`, from `SmallTeams` (each active set is finite and has at
  most three members).
* `PhysicalSeatsAlways`, inductive together with `OnePlace`: a role changes only
  for a remote that is joining, and joining checks the roles of those who stay.
* `SeatFitsHardwareAlways` and `NothingIsLost`, action properties, one step per
  action; a transfer or a swap that fails half way is a case of its own.
* `ImplementsPlacement`: every step is a step of `RemotePlacement` or leaves its
  variables unchanged. It needs `OnePlace`, so that the place of a remote is
  well defined, and `SmallTeams`, so that a seat is free.

`RemoteLinkProofs`:

* `LinkImplementsAssignment`: every step of the link is a step of `RemoteAssignment`
  or leaves its variables alone, so `TypeOK`, `OnePlace` and the others hold of it.
* `LinkTypeCorrect` (`LinkTypeOK`).
* `AttachedIsOnRecordAlways` and `ConnectedIsTrueAlways`, from `LinkInv`. They are not
  inductive without `SocketsOK`: a device has a socket only once it has registered, so
  a registration never meets an attached device, and frames are only on open
  sockets. The director's requests need two more facts, that they bring nobody into
  the records (`DirectorNobodyNew`) and that only a deletion takes somebody out
  (`StepNothingLost`).
* `VotesGoWhereShownAlways`, inductive with the types.
* `SeatedIsToldAlways`: every request gives a remote a seat and tells it, leaves it as
  it is, or takes it off (`DirectorOutcome`), and taking a frame or adopting it does
  not change what a device will know.
* `LinkImplementsPlacement` composes the two refinements: with devices, sockets and frames
  in between, each remote still has one place of `RemotePlacement`.

`LiftingCastReportsProofs`:

* `ReportsTypeCorrect`, `ClockInStepAlways` and `AdvanceAfterLightsAlways`, all from
  `ReportsInv`. `ClockInStep` speaks of LiftingCast only when a report is done; the
  invariant says what must hold on the way: a chain that is alone carries the length
  of the clock it tells, is the only one on the clock, and, once its length is
  told, LiftingCast has it. That chains of two platforms never touch one
  LiftingCast platform is a part of it.

`PlatformFeedProofs`:

* `ServiceImplementsFeed` (`FeedSpec`): each action of `PlatformService` is, for each platform,
  a step of the feed or does not show. One lemma per action; a failed swap and a transfer, for
  each platform that is not told, are a `LeavesUntold` of the feed. It needs `ClocksOK` and
  `GoneOK`, that a platform that is missing has left no votes, lock, seats or view behind
  under its id, so that one made again appears at rest.
* `ViewsCurrentAlways`. An expired clock shows as running until its next tick, and no
  longer: `TicksOK` says that what a running attempt has left is the time to the next tick
  and a whole number of ticks more, so a clock that runs out has a tick due at that moment.
  It is what `TickAssumption` is needed for. `ViewsOK` then says that each of the two
  views is unknown, as it is now, or stale only in this way with the tick due, and apart from
  the roles in `untold`; each action sends the views, leaves all they show alone, forgets
  them, or takes a remote off and adds its role to `untold`.
* `WatchersAreTold`: the feed of each platform keeps `FeedTypeOK` and `FeedInv` at every
  moment, from `ToldOK`: a platform nobody was told of is as it was made, and of any other
  what was told is what is live, apart from a clock that ran out and a complete set that a
  remote left. It is what `BrowserInit` assumes of the platform when a page opens, so the
  page may open at any moment of the service.

`PlatformBrowserProofs`, all from `BrowserInv`, which is proved inductive action by action:

* `BrowserTypesAlways` (`BrowserTypeOK`).
* `CaughtUpAlways`. The property speaks of an empty inbox; the invariant says what holds
  with updates under way (`RoomInv`): the last update in the inbox is what was told last;
  outside the room nothing is under way and nothing fresh; and the current run of a
  fresh page has heard its socket, so the answer to its own request is ignored.
* `LightsNeedVotesAlways` and `RevealSurvivesUpdatesAlways`, inductive with the fact
  that the effect's memory of the set is what is shown (`LightsInv`, `ShowFacts`).
* `KeysRespectBreaksAlways`, the action property, from `CaughtUp` and `FeedInv`: what is
  shown and told agrees with the live mode and lock.
* `UpToDatePageIsTrue` puts the two together: a fresh page with an empty inbox shows the
  platform's mode and lock, its state or that of a clock that ran out since, and shows a
  set as complete if it is. The converse does not hold, for a remote may have left untold.

`MeetProofs`:

* `MeetTypesAlways` (`MeetTypeOK`) and `SavedFormsFit`, from `MeetTypes`, which has a part
  for the service, the saves, the tests, the imports and the director. A form on the
  page, on its way or on file has the days and platforms it says (`Good`), without
  which the accesses by day and slot of the other parts would have no value. One
  lemma for each edit of the form; the step of an import needs `InOrderFacts`, that any set
  of meets has an order by date. `InOrder` says what that order is instead of filtering
  `MeetOrder`, since `SelectSeq` is recursive; that one exists is proved by taking a
  counterexample of the least size, for the induction theorems of the library cannot be used.
* `ImportedDaysMatchAlways`, from `ImportInv`: unless a fetch was overtaken by another choice
  of the primary meet, the list shown, the lists under way and the list of an import are
  all of the primary meet, which is the first day of the import.
* `KeepsPasswordAlways`, an action property: changing the number of days keeps the password
  that counts for each day that stays, by cases of one day and several, shared and per day.
* `EditsTakeResultsDownAlways`, an action property, from `MeetTypes`: each edit, and an import,
  clears the status of every slot of which it changes the meet, the id or the password that
  counts, one step per edit. Changing the number of days or platforms clears nothing
  where the password that counts stays (`KeepsPassword`).
* `SessionsVerifiedAlways`, from `SessionsInv`: whatever is on its way into the
  sessions, from a test of the setup page or a start of the director, is
  accepted already.
* `DirectorInStepAlways`, from `DirectorInv`: as long as nothing has crossed, at most one
  thing is under way (`OneAtATime`), a start has captured the completed days that are shown,
  and a post is what is shown.

So each invariant, action property and refinement that a passing run checks is also a
theorem. Model-checked only are the liveness properties `TickStops`, `BreakEnds`,
`SeatIsShown`, `SilentIsNoticed` and `LightsShown`, which rest on fairness and ENABLED and
which TLAPS cannot prove. The properties of the runs under Findings do not hold of the
code, and nothing is to be proved of them.

## Plan

Done: the attempt cycle with clocks, breaks and timers, remote assignment, the
link to the remotes, the reports to LiftingCast, the page of a platform, and
setting up and running a meet. Next, in this order:

1. **Firmware update** (`ota.cpp`) over power cycles.
2. **A second browser** in `Meet`, with the claim of the page's comments that all see
   the same active day.
3. **Device display** (`ws_client.cpp`): the optimistic clock and the frames that answer it.
4. Pure functions: decision rules, scoreboard, transport decision, version
   comparison, each against a reference definition.

Not modelled: drawing (`RemoteManagement` with its dragging, `PlatformCard`,
`AttemptChangeOverlay`, `ScoreTableView`, the OLED) and the local countdown, which only show what
the modelled hooks hold and send requests the modelled services have; the global-break card
of the director's page, which forwards two such requests; the battery and haptics, the
configuration portal, logging, and the release lookup of the firmware service,
which keeps no state.
