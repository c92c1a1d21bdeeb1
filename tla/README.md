# Formal verification of Omalens

Omalens turns a phone's camera into a virtual camera of a Linux desktop. A phone
is either the native companion (Android, authenticated control connection and
media stream, `crates/omacam-daemon`) or a browser page (HTTP and WebRTC,
`crates/omacam-daemon/src/browser`, `webapp`). Pictures reach applications
through an output process (`crates/omacam-output`).

This directory holds TLA+ models of that program, the TLC configurations that
check them on small instances, and proofs, checked by TLAPS, that every safety
property of the passing runs holds for all values of the constants.
`PROJECT.json` lists components, runs, the source lines each definition models,
the hazards, the findings and the theorems.

    tlc -config BrowserCamera.cfg MCBrowserCamera     # any run of PROJECT.json
    tlapm PairingProofs.tla                           # or any other *Proofs

## 1. The system

| Component | State it keeps | Operations | Talks to | What is hard |
|---|---|---|---|---|
| Session policy (`omacam-core/src/lib.rs`) | trust, connection, capture, output, generation, lease, age of the last frame | one method per event, two deadlines in `tick` | called by the control server and the capture loop | stale generations, two deadlines, every end must release everything |
| Service runtime (`service_runtime.rs`) | the snapshot D-Bus clients see, a bounded history of operations | accept, refuse, enqueue, finish, publish | D-Bus callers on one side, the server task by a bounded channel on the other | callers take the lock several times per call; local invalidation against the server's late publish |
| D-Bus API (`local_api.rs`) | none | the callers of the runtime | panel, bar widget | concurrency of callers |
| Control server (`control_server.rs`) | policy of the connection, pending request and its operation | accept loop, control loop | phone, runtime, capture loop | late answers, failed writes, reconnects |
| Active capture (`capture.rs`) | binding, media task, queue of two records, lease ticks | `select!` over frames, pings, intents, ticks | phone, output worker | every exit has to tear down; bounded queue against termination |
| Output worker (`capture/output_worker.rs`) | process handle, current binding | bind, write, reset, shutdown, health | output process by a pipe | crashes, blocked writes, two copies of one binding |
| Output process (`omacam-output`: `service.rs`, `decoder.rs`, `mux.rs`) | binding, stream validator, decoder, raw frame queue, mux | bind, reset, media, tick | daemon, GStreamer pipeline | three threads, acknowledgements with a timeout, stale pictures |
| Browser session (`browser/session.rs`, `http.rs`, `rtc.rs`) | session, pending command, revision, one-use claim, media thread | HTTP handlers, loop of the media thread | phone page, desktop page | lost calls, expiry of commands and heartbeats, offer in two steps |
| Phone page (`webapp/phone.js`) | generation, phase, stream, pending command | set-up, pulse, remote and local changes, stop | browser session | every `await` may resume in another generation |
| Desktop page (`webapp/desktop.js`) | the last snapshot | poll, command, stop | browser session | stale revisions |
| Pairing ceremony and trust record (`pairing.rs`, `main.rs`) | invitation, claim, approvals, failure counts; on disk identity, QR and trust record | set up, accept, read the claim, prompt, write the record in three steps, reply, clean up | phone, desktop's user, other ceremonies by the shared files | crashes between writes, expiry, two ceremonies at a time |
| Camera controls (`camera.rs`) | none | what a camera admits, reflects and may report | runtime, phone, browser session | ranges, steps and tolerances |
| Android companion (`CameraStreamer.kt` and its gates) | the fields that hold resources, `active`, the gate, the pending control, what is applied | acquire, publish, stop, release; Camera2's callbacks; controls and switches | control server, media stream | three threads, callbacks after Stop, controls that fail half done |
| Media wire format (`media.rs`) | the validator's position in a stream | validate, finish a record | capture, output process | two validators in sequence |

What makes each of them correct:

* policy: capture is armed only by consent, every end of a session is final, and
  deadlines are met;
* service: the snapshot never promises a session that is not there, outcomes of
  operations are final, Stop and revocation take effect;
* media path: the camera shows only the session being served and nothing of a
  closed one; no picture freezes; the end of the media ends the capture;
* browser: a stopped session stays stopped, commands are answered once and
  truthfully, nobody is left with a live session or an open camera;
* pairing: a trust record exists only after both sides approved one claim, the
  phone believes so only when it exists, and a ceremony that ends leaves nothing
  that keeps the next one from pairing;
* phone: what a capture took is released, the media stream ends with its
  terminal record, and the service is told what the camera really does.

## 2. The modules

    CaptureAuthorization  <=  SessionPolicy  <-  SessionPolicyProofs
    NativeService  <-  MCNativeService, NativeServiceProofs
    VirtualCamera  <=  MediaPath = MediaIngress + OutputService  (MediaRecords)
                       <-  MediaPathProofs
    BrowserCamera = BrowserService + PhonePage  (BrowserCalls)
                       <-  MCBrowserCamera, BrowserCameraProofs
    MutualTrust    <=  Pairing (PairingSession)  <-  MCPairing, PairingProofs
    CameraStreamer (CameraControls)  <-  MCCameraStreamer,
               CameraStreamerProofs <- CameraControlProofs <- CameraStateProofs

(`<=` implements, `<-` is extended by.)

**SessionPolicy** is `SessionPolicy` of `omacam-core/src/lib.rs`, one action per
method, with a clock. `granted` (all generations ever handed out) and `source`
(the generation of the frame shown) are history variables. Times count in units
that the two durations are stated in. The generation wraps at 2^64 in the code
and is a natural number here. `CaptureAuthorization` is what it promises
without clocks: asked, consented, armed, ended in one step.

**NativeService** composes the runtime, the control server, the capture loop and
the worker's binding. A D-Bus call takes the runtime's lock several times and
then sends its intent; each is a step (`call[id].step`). The server task is cut
where it waits and a caller could look at the snapshot: a grant is published,
written to the phone, and only then bound to the worker (`Grant`, then
`GrantLost`, `StartCapture` or `BindFails`); an arm that leaves the capture's
loop has stopped the policy (`BreakLoop`), the media task is awaited and the
worker reset (`ResetOutput`), the end is published (`PublishEnd`), and the
connection goes on or ends (`LeaveCapture`). Callers, a crash of the worker and
the command line run between all of these. One arm of a `select!` is otherwise
one step: its updates of the runtime follow each other without an `await`, and a
call that falls between two of them has the effect it has before the first.
`trust_record_matches` and the handling of the command it guards are one step
too. The policy appears as the snapshot its methods produce,
with the lease reduced to "armed", as SessionPolicy's theorem
`PolicyArmedOnlyWhileCapturing` allows, and its time to ticks without a Ping.
The phone is open: any command, at any moment, and any write to it may fail.

**MediaIngress** is the media task, the queue of two records, the loop that
renumbers and writes, and the daemon's handle on the process. **OutputService**
is the service loop, the decoder with its pump thread, and the mux thread, each
interleaved at its locks, channels and blocking calls. **MediaRecords** is the
validator both sides use. The process's pipe and its reader's channel are one
bounded FIFO; the decoder's pipes are one bounded backlog. **MediaPath** joins
them and implements **VirtualCamera**: what is shown next is the current picture
of the session served, or black. The mux's two-second timeout can occur only
while the mux is blocked in a write or dead. A binding is the number of its
capture, since generations and connections are never reused together.

**BrowserService** is the session under its lock, the handlers and the control
part of the media thread; **PhonePage** is `PhoneSession` cut at its `await`s;
**BrowserCamera** adds a network that loses calls and a page that may vanish. A
setting stands for everything a camera can be asked for and report; which camera
it belongs to (`LensOf`) is all that the page distinguishes. Timeouts may occur
at any moment. Between an `await` that only waits (device enumeration, probing
modes) and the next check of the generation nothing is decided, so
`getUserMedia` with the probing that follows a switch, `replaceTrack` with the
enumeration that follows it, and the SDP work before an offer are one step each.
An `AbortError` that the browser itself raises in `getUserMedia` is kept apart
from other errors, because the page neither acknowledges nor forgets the command
then. The page makes at most one heartbeat call at a time (`heartbeatPromise`),
hence one `call`.

**PairingSession** is `pairing.rs` without its encodings: what a QR carries,
what a phone accepts from it, the claim, and the life of the session. **Pairing**
is any number of runs of `pair serve`, each a process that goes from one `await`,
file operation or answer of a user to the next (`step`), with the files they
share and the phones. Ctrl-C is noticed at an `await`, a kill anywhere, and a
killed process leaves its files as they are. Several ceremonies may run at once:
each tests for a record when its arguments are parsed, and the rename replaces
what is there. **MutualTrust** is what pairing promises; `approved`, `confirmed`
and `committed` are history variables for it. Abstracted: two transcripts have
different codes (in the program the same one in a million); setting up takes no
time; a port and a QR path are one place; what is written to a phone is delivered
or lost within the step; a rename survives; files left behind by a kill are not
tidied by hand. The phone's side is `PairingClient` with the activity that uses
it.

**CameraControls** is every test of `camera.rs` as an operator, numbers in
thousandths (list lengths, labels, focus modes and values that are not numbers
are left out: no control depends on them). **CameraStreamer** is one capture on
the phone: the thread that runs it, the thread that stops it, the looper, the
camera as it behaves, and the service's two ends of a control. It is modelled as
long as the service holds the capture armed; what the service does otherwise is
NativeService. `open` and `device` say what exists, `fields`, `camera` and
`session` what the streamer knows of, `owned` what a thread took from the fields
and has not released yet. Under the streamer's or the gate's lock is one step;
so is a callback, except where it reads a flag that another thread changes and
uses the answer later (`onOpened` and `onConfigured` of a switch). `builder`,
`request` and `shot` are what the application sets, what it told the camera to
repeat, and what the camera does. What Camera2 answers after the looper has quit
is never delivered, so a camera that is still opening then is the system's.
A lease that expires, an exception and the end of the drain loop all lead into
the same `finally` (`Finally`). A control that is refused half done has the
request built again from what is applied (`RebuildConfirmedRequest`); for a
camera without a range of zoom or exposure that may fail, and then the builder
keeps what was set in it before the failure (`HalfDone`, `Restorable`). A result
of the camera is taken while the capture is active, and `publishState` looks at
`active` again: in between the capture may end (`CaptureOvertaken`). A switch may
fail before or after the new camera is the selected one. A control that names no
camera is refused by the phone (section 5).

## 3. The runs

| Run | Instance | Shows |
|---|---|---|
| `session_policy` | lease 3, frame age 2, clock to 6, generations to 4 | `ArmedOnlyWhileCapturing`, `LiveOnlyFromCurrentSession`, `EndedGenerationsStayDead`, `TickMeetsDeadlines`, `ImplementsAuthorization` |
| `native_safety` | 2 connections, 2 Starts, 2 operation identifiers (a Start; an adjustment, a Stop or a revocation), history and channel of 1 | `NoSessionWhileOffline`, `LiveIsBoundCapture`, `ConsentIsForLastRequest`, `OutcomesAreFinal`, `OutputFailureIsSticky` |
| `native_liveness` | 1 connection, 2 identifiers of any use | `StopCompletes`, `RevocationEndsCapture` |
| `media_path` | 2 captures, sequences to 3, 2 presentation times, queue of 2 | `ResetLeavesNothing`, `RecordsAreAccepted`, `DaemonKnowsTheBinding`, `ImplementsCamera` |
| `media_liveness` | 1 capture, 2 presentation times | `PictureDoesNotFreeze`, `TerminalEndsCapture` |
| `browser_camera` | 2 cameras; 1 start with 2 commands, 1 command and 1 local change, or 2 local changes that may overlap; or 2 starts | `RevisionIdentifiesState`, `SuccessMeansTried`, `SetupLeavesNoCamera`, `StoppedIsFinal`, `CommandIsAnswered`, `AbandonedSessionEnds`, `PageFollowsSession` |
| `pairing` | 2 ceremonies (one auto-approving, one with a choice of place), 2 phones (one with its clock ahead), limits 1 and 2 | `PhoneTrustsOnlyCommitted`, `NothingLeftBehind`, `LimitNeedsManySources`, `ImplementsMutualTrust` |
| `camera_streamer` | 2 cameras, 2 controls out of 7 kinds | `PublishedIsReleased`, `KnowsTheCamera`, `NoControlIsLost`, `NothingFollowsTheTerminal`, `OnlyWhatWasAskedIsDone` |
| `native_rearm`, `native_binding`, `browser_release`, `late_camera` | as the passing runs | the findings of section 6 |

Every passing safety run checks its module's `TypeOK` too.

The bounds, and why they are enough for what the runs ask:

* `MaxTime`, `MaxGeneration` (SessionPolicy): both deadlines can pass, in either
  order, and a second session follows a first one. `None` is a value outside all
  ranges everywhere.
* `OpId`, `Uses`: an identifier may be used again once its entry has left the
  history. `MAX_OPERATIONS` is 32 in the code and 1 or 2 here, so an entry that is
  still pending is evicted by the next call, or the one after that. `Uses` assigns
  the intents each identifier may carry: with two of them a Start is overlapped by
  an adjustment, a Stop or a revocation, in every state of either call, and either
  can come again. `MaxStarts` and `MaxConnections` count what would otherwise
  repeat. The channel of 1 is full while the server is busy.
* `MaxSequence` stands for `u64::MAX`: sequences run out in the instance as they
  would there. Two captures are what a stale picture or a stale reset needs. The
  queue of 2 drops and the pipe blocks. Two presentation times let a record be
  refused for its time.
* `MaxCommands` 2: a command that was given up and a next one meet an
  acknowledgement of the first. `MaxStarts` 2: what a first start left under way
  meets a second one; behaviours with a second start have no commands and no
  local changes, which keeps the instance small, and the QR code is good for one
  session anyway. `MaxRequests` bounds commands and local changes together; a local change
  may begin while another one is under way.
  `StartSetting` is one camera, since the two are alike. Heartbeats, lost calls
  and expiries are not bounded.
* Pairing: two ceremonies are what it takes to disturb each other's files, QR and
  prompts; with `Lifetime` 1 and `MaxTime` 1 an invitation lives and expires, and
  both phones' clocks accept it for all its life (`Skew` 1). `MaxPerSource` 1 and
  `MaxGlobal` 2: a source may be refused before the ceremony is over, and two
  sources end it. `Strangers` is empty here: a phone that sends a wrong claim
  fails in the same way. The proofs have no such bounds.
* CameraStreamer: a switch, a zoom that only one camera has, one that differs
  from the initial zoom by less than the tolerance of an acknowledgement, an
  adjustment of the front camera, which works only once it has been switched to,
  an exposure that no step of the camera meets together with a zoom that it has,
  the frame rate together with the screen, and a zoom of no named camera; the
  front camera has no exposure range, so its request need not be restored. Two
  controls are what it takes for one to meet what the other left behind; their
  names are symmetric. `MaxRecords` 1: what counts is whether a record follows
  the terminal one.

`CHECK_DEADLOCK FALSE` appears where the program really ends: the service after
Shutdown or Forget, the output process after its input closed, the browser
session once stopped. SessionPolicy is checked for deadlock.

### Fairness

* NativeService: an accepted D-Bus call is an async task that the executor runs
  to its end (WF of its steps). Sending on the bounded channel is strongly fair
  because tokio's channel grants permits in the order they were asked for. The
  server's `select!` picks among ready branches at random, so receiving intents
  and the lease tick are weakly fair, and so are the steps of a grant and of a
  teardown. The phone, crashes and the command line owe nothing.
  `write_json_line` and the worker's writes have no timeout in the code: the
  model lets every write return, with success or failure. A phone that holds its
  connection open without reading would block the server; the liveness results
  do not speak of it.
* MediaPath: the capture loop, the service's loop, the pump and the mux thread
  run (WF). That a living decoder decodes what it was given is assumed: one that
  stalls without dying is not covered.
* BrowserCamera: requests that arrived are handled, an unanswered command falls
  due because the media thread looks every 100 ms, a phone whose page does not
  stream is not heard and expires, and the page's timer and promises run while
  the page is there. Users, polls and the network owe nothing.

## 4. What is proved

Every theorem holds for all values of the constants that the named assumptions
of the modules allow. `DurationsOK`, `ConstantsOK`, `PathConstantsOK`,
`RecordConstantsOK`, `BrowserConstantsOK` and `CameraConstantsOK` say that
capacities, limits and bounds are numbers, positive where the code's constants
are; `NoneIsNothing` (and `PairingOK`, `StreamerOK` in part) that `None` and the
model values are different from what they are told apart from. `StreamerOK` also
says that every camera does 30 frames per second (`selectCamera` takes no other),
`DataOK` types what cameras offer, and `CamerasOK` says what Camera2 guarantees of
them: a camera is listed once, and the ranges it reports hold the values it starts
with. TLC evaluates all of them in the runs.

`SessionPolicyProofs` proves, for every value of the constants that
`DurationsOK` allows:

* `PolicyTyped`, `PolicyArmedOnlyWhileCapturing`,
  `PolicyLiveOnlyFromCurrentSession`, `PolicyEndedGenerationsStayDead`: the four
  invariants of run `session_policy`;
* `PolicyTickMeetsDeadlines`: its action property;
* `PolicyImplementsAuthorization`: SessionPolicy implements
  CaptureAuthorization.

The argument is one inductive invariant, `Inv`: the type, the agreement of
lease, capture, trust and frame, and the two invariants about generations. None
of the last two is inductive alone. A frame is taken with a generation that was
granted and is current; that it is the armed session's own follows from
`EndedGenerationsStayDead` (a granted generation that is current belongs to an
armed session), and that one is kept because every end of an armed session moves
the generation past all granted ones, for which lease and capture state must
agree. The lemma `EndSessionInv` carries the four methods that end a session.
For the refinement, `RefinesNext` maps each method to one abstract step or a
stutter under `Inv`; the methods that end a session share `EndSessionRefines`.

`PairingProofs` proves about Pairing, for any sets of ceremonies, phones and
places and any limits and durations (`PairingOK`, `DurationsOK`,
`NoneIsNothing`):

* `PairingTypes`, `PhonesAreRight`, `CeremoniesTidyUp`, `NobodyUsesItUp`: its
  invariants;
* `TrustIsMutual`: it implements MutualTrust;
* `HonestClocksAgree`: a phone whose clock is off by at most the tolerated skew
  accepts an invitation at every moment of its life.

None of the properties is inductive. That a record appears only for whom both
users approved needs to be known from the scan on: whoever scanned has approved
(`ApprovalsStand`), the desktop confirms the very claim (`ConfirmationsStand`),
each of the three writes is of that claim (`FilesAreWhole`), and a reply is in a
phone's inbox only after the rename (`RepliesAreTrue`). `InvitationsAreOwn` ties
a session to its ceremony, `QrHasItsPlace` says whose QR may be removed, and
`FailuresAreBelow` keeps the counters typed. `NobodyUsesItUp` has to relate the
count of all failures to those of the sources without a sum, which would be
recursive: each failure takes a slot of its own, a pair of its source and a
number (`Slots`), the count of all failures is the number of slots, and the
sources that failed have at most `MaxPerSource` slots each. One lemma per action
shows that `IInv` is kept; `LeaveKeeps` and `ExitKeeps` carry the many ways in which a
ceremony ends. For the refinement a ceremony's end is the abstract `End`, the
rename its `Commit`, and everything else an approval or a stutter.

`CameraStreamerProofs` proves about CameraStreamer, for any cameras and controls
(`StreamerOK`):

* `PublishedAreReleased`: `PublishedIsReleased`;
* `TerminalIsLast`: `NothingFollowsTheTerminal`.

Its invariant accounts for everything that exists. A resource that is open is in
the fields, owned by a thread that is on its way to release it, or the one that
the running thread is about to publish (`Accounted`). Whoever ends the capture
has first cleared `active` and then closed the gate (`EndsInvalidated`), which is
why a terminal record is the last one. For the cameras one must know that there
is only one: of all cameras that exist or are being opened at most one is not
about to be closed by a thread (`OneCamera`), it is the one in the field, and
while a switch is between its check and its publication there is no other.
That in turn needs `StartsFirst`: no control reaches the looper before the camera
of the start has opened.

`CameraControlProofs` builds on it and proves, for any cameras and any controls
whose fields have their types (`DataOK`):

* `StreamerTypes`: `TypeOK`;
* `ControlsAreAnswered`: `NoControlIsLost`.

A control is followed from the queue through the looper and the camera to a report
that names it (`Followed`). Two facts make that inductive. Nothing comes from a
control before the first result (`AppliedFirst`): the service learns what a
camera can do from the first report, and every report shows what is applied, so
`applied` has a value wherever a control is handled. And a control keeps its
name (`Named`): the camera it switches to is the one it was asked for, and while
it is queued, at the looper or switching, the service cannot ask for it again.
Only the looper starts a control, and only when no other one is pending.

`CameraStateProofs` builds on that and proves what a control does to the camera,
if the cameras are as `CamerasOK` says:

* `CameraIsKnown`: `KnowsTheCamera`;
* `OnlyAskedIsDone`: `OnlyWhatWasAskedIsDone`.

Four states have to agree: what the service was told or will have been told once
it has read every report (`Last`), what the streamer takes for applied, what it
tells the camera, and what the camera does. They may differ in what the pending
control asks for (`Wanted`), while a camera is being switched to
(`SwitchShown`), and in zoom, exposure and torch on a camera whose request
cannot be restored (`RestStays`). A result is told from one of an earlier
request because a command is used once and tags its request (`UsedOnce`); every
value on the way is one that the camera admits, as long as the capture is active
(`SaidIsSound`); and each report of success that the service has not read yet
says what was asked for, compared with the report before it (`Chain`). Zooms
that are acknowledged within a tolerance need more than equality: all zooms of a
quiet camera are one that was asked for and one within its tolerance
(`Together`), so that the tolerances of several controls do not add up.

`NativeServiceProofs` proves about NativeService, for any callers, histories,
channels and leases (`ConstantsOK`):

* `ServiceTypes`, `OfflineShowsNoSession`, `LiveHasItsCapture`,
  `CaptureNeedsConsent`: its invariants;
* `OutcomesStand`, `FailureStands`: its action properties.

The runtime changes only through a few operations, and a lemma says of each what
it leaves alone: `Settles` those that accept nothing new, `Follows` any step. The
properties about outcomes and about a failed output follow from `Follows` alone.
For the others `IInv` relates the runtime to the server task, whose teardown is
several steps. The policy stops being live when the loop is left and the snapshot
when the end is published (`NothingIsLeft`); the capture in hand has the armed
policy's generation until its loop is left, and the worker until that is reset
(`CaptureIsBound`); a snapshot that is live in between is that of this capture
(`LiveIsCurrent`). A policy which never saw a healthy output is not that of a live
snapshot, which it could not blank (`UnseenIsNotLive`), and the request under way
is the last one the server sent, which is why a late answer of the phone cannot be
taken for a newer one.

`MediaPathProofs` proves about MediaPath, for any number of captures, sequence
numbers, times and capacities (`RecordConstantsOK`, `PathConstantsOK`,
`NoneIsNothing`):

* `PathTypes`, `ResetForgets`, `SecondValidatorAgrees`, `BindingsAreKnown`: its
  invariants;
* `PathImplementsCamera`: it implements VirtualCamera.

The second validator never refuses a record because the pipe can be read as a
script: after each item on its way the service will be ready for the next
(`Script`), and after the last one for what the capture loop writes (`Writer`,
`Renumbering`). The daemon's queue holds records in order of their time
(`Queued`), whatever is bound is the worker's still or has its Reset on the way
(`Returned`), and the input closes only with the process (`Ends`). A step of the
output process moves along the script (`Moves`), a write lengthens it (`Written`).
`Showing` follows a picture from the decoder through the frame queue to the mux:
it belongs to the capture being served or to none. For the refinement every step
of the output process is a step of VirtualCamera or a stutter.

`BrowserCameraProofs` proves about BrowserCamera, for any settings and bounds
(`BrowserConstantsOK`, `CameraConstantsOK`):

* `BrowserTypes`, `RevisionsIdentify`, `SuccessIsTrue`, `SetupsRelease`: its
  invariants;
* `StoppedStays`: `StoppedIsFinal`.

A step of the service leaves the page alone and one of the page leaves the
session alone, so each is shown to keep the invariant in its own terms
(`Follows`, `Answers`; `PageKept`). `Tried` follows a command from the page's
change of the camera through its acknowledgement, which may be repeated and
overtaken, to the outcome; it needs `Applying`: the heartbeat waits for the
change that its command asked for, and the page keeps the command only while
the session it came from lives. `Setups` says that a generation has one set-up,
`Untouched` what holds until somebody asks for a change.

The attempts at proving also corrected the model. Two definitions chose by a
`CASE` whose guards overlapped, which TLC resolves by order and the logic does
not (`Result` of NativeService, the send on the bounded queue of MediaIngress).
The equality of zooms did not survive a second control within the tolerance of
the first, and the request of a camera without an exposure range is not always
restored: both are in the model now, and section 5 says what they mean.

Left to TLC is what rests on fairness or ENABLED, which the prover does not
support: the liveness properties `StopCompletes`, `RevocationEndsCapture`,
`PictureDoesNotFreeze`, `TerminalEndsCapture`, `CommandIsAnswered`,
`AbandonedSessionEnds` and `PageFollowsSession`. The record validator is defined
without recursion, so that it can be proved about.

## 5. What the properties leave open

* A caller's Forget sets the snapshot's trust to Revoked at once; the server may
  publish its policy over it until it receives the intent (the same cause as the
  first finding).
* The trust record is not read when a phone authenticates again, only when it
  sends a command: `RevocationEndsCapture` speaks of the capture, not of who may
  connect. A Forget whose record cannot be removed still ends the service.
* A snapshot that says live may outlast the capture: the loop's exit stops the
  policy, the media task is awaited and the worker is reset before the end is
  published (`capture.rs:369`-`:383`), and a D-Bus caller may read it all the
  while. `LiveIsBoundCapture` says what such a snapshot still is (the generation of
  the capture in hand, and the worker's binding until that is reset) and that no
  snapshot is live once the end has been published.
* An operation that left the history while pending is not observable any more.
  `OutcomesAreFinal` speaks of an entry while it is in the history; whose outcome
  is recorded under an identifier that is used again is `SuccessIsItsOwn`, below.
* `StopCompletes` assumes that a write to the phone ends, which no timeout in the
  code enforces (fairness, above).
* `NothingLeftBehind` excepts ceremonies that were killed or could not write
  their files: what they leave is `NoRemnantBlocksPairing`, below.
* After an `AbortError` in a camera switch the page repeats the acknowledgement
  without an error, and the service reports "adjusted" (or "applied", if the
  phone's own user chose that setting meanwhile). `SuccessMeansTried` counts
  such a command as tried. A command given up by the service while the page
  cannot acknowledge it leaves `pendingCommandId` set: later commands are ignored
  by the page and expire at the service (`CommandIsAnswered` holds, by expiry).
* The service's own Stop record and its protocol failure are reachable only from
  another writer than this daemon: `RecordsAreAccepted` is the reason.
* CameraStreamer: `PublishedIsReleased` excepts the camera that a switch
  publishes after the release, which is the finding `late_camera`.
* `KnowsTheCamera` has three exceptions.
  - The frame rate: after a control is refused half done,
    `rebuildConfirmedRequest` (`CameraStreamer.kt:204`) restores zoom, exposure
    and torch as applied but sets the frame rate to 30, whatever the camera was
    doing, and reports nothing.
  - The zoom, up to the tolerance of its acknowledgement: the phone accepts a
    result within 0.02 or 0.2% of the zoom asked for (`CameraStreamer.kt:404`,
    where the service tests 0.001, `camera.rs:304`), and the zoom may still move
    after that.
  - The zoom of a camera whose request could not be restored (known behaviours).
    For the same reason `OnlyWhatWasAskedIsDone` says what a control leaves alone
    only of cameras that can be restored.

### Known behaviours

Six properties are stated and do not hold; no run repeats them. Add each to the
configuration named, and TLC shows how.

* `PendingStartIsHeld` (NativeService, invariant of `NativeSafety.cfg`): a Stop
  that is handled before the phone answered drops the Start's operation, which
  stays pending for good (`control_server.rs:540`).
* `LiveIsFresh` (NativeService, invariant of `NativeSafety.cfg`): the lease tick
  blanks a stale frame in the policy and does not publish it (`capture.rs:293`).
* `NoSilentReplacement` (Pairing, property of `Pairing.cfg`): of two ceremonies
  under way the later one's rename replaces the other's record, although the
  desktop "refuses silent replacement of an existing phone"
  (`docs/implementation/G3-001-qr-pairing.md:13`).
* `ExpiredIsNotPaired` (Pairing, property of `Pairing.cfg`): once a claim is in,
  nothing reads the clock again; the desktop's user may approve after the end of
  the invitation's life.

* `SuccessIsItsOwn` (NativeService, property of `NativeSafety.cfg`): an operation
  that left the history while it was pending frees its identifier, and when the
  identifier is used again, `finish` settles the new operation by the earlier
  one's intent (`service_runtime.rs:437`, `:466`). In the code that takes 32 calls
  while an intent waits; diagnostics fill the history without using the channel.
* `NoRemnantBlocksPairing` (Pairing, invariant of `Pairing.cfg`): a kill between
  `create_new` and the rename, or a write that fails, leaves the temporary record,
  and `create_new` fails in every later ceremony (`main.rs:590`).

Read in the code while modelling, without a property of their own:

* Two overlapping switches by the phone's own user start from the same stream
  (`phone.js:405`); each stops that one when it is done (`:456`), so the camera
  that the first one opened stays on until the page is closed.
* The service sends a control without a camera as `cameraId: null`
  (`camera.rs:204`), which `optString` reads as the name "null"
  (`CameraStreamer.kt:102`), so the phone refuses it as "Camera is not available".
  A test calls such a control partial (`protocol.rs:250`); the model refuses it as
  the phone does.

* A phone whose camera offers a range such as 15 to 60 is accepted and reports
  its upper frame rate; the service matches modes exactly, so it refuses every
  control that does not name a frame rate, and one that names 30 ends the capture
  (`docs/implementation/G4-002-authenticated-start-camera-media.md:17` says "exact 30–30").
* `stop()` closes the socket before `sendTerminalStop`, so a Stop by the user is
  usually seen as the end of the stream and not as its terminal record.
* A Start followed at once by Stop leaves the phone's policy waiting for a
  consent that nobody asks for any more, until the next session.
* On a camera that reports an exposure step of zero (external ones do)
  `rebuildConfirmedRequest` fails its own test and catches what it throws
  (`CameraStreamer.kt:208`): what a refused control had set by then stays in the
  builder and reaches the camera with the next control.
* A camera without a range of exposure or zoom reports exposure 0 and zoom 1 on
  the native path, which nothing validates there. A zoom that is read back from a
  crop region may leave its range by rounding; that is not modelled.
* What is reported during a switch may combine the new camera's capabilities
  with the old one's state.

## 6. Findings

Each is a run that TLC ends with a counterexample to what the repository says.

* `native_rearm`, `StopIsNotUndone`: between `stop()`'s invalidation and the
  server's receipt of the intent, a frame publishes the policy, which is still
  armed, and the snapshot is armed again (`capture.rs:235`).
* `native_binding`, `BindingEndsWithCapture`: a failed write of a camera control
  leaves the capture past its teardown; the worker stays bound and the next bind
  fails (`capture.rs:326`).
* `browser_release`, `CameraIsReleased`: a camera switch whose `replaceTrack`
  returns while the session is being stopped makes its new stream that of a
  stopped page, and the camera stays on (`phone.js:452`).
* `late_camera`, `StoppedPublishesNothing`: `onOpened` of a switch looks at
  `active` and publishes its camera later, without the gate's lock: a capture
  that is stopped in between gets a camera again (`CameraStreamer.kt:249`).

## 7. Not modelled, and the plan

Not modelled: TLS and key proofs of the control connection (accepted or
rejected), codecs, mDNS, D-Bus encoding and signals, statistics and `last_error`,
GStreamer command lines, the single-capture modes of the output process, the
preview socket, HTTP tokens and poll limits, the browser's output thread,
the phone's consent screen and its control connection, user interfaces, scripts.
They have no state the properties depend on, or are pure I/O.

The order was chosen by what matters most to a user: who may capture (policy,
service, pairing), what applications see (media path), then the browser provider
and the phone's application; the proofs followed in the same order. What is left
of the plan:

1. The challenge of a control connection (`ControlSession` of `control.rs`) and
   what it adds to a connection that NativeService takes as accepted.
2. The phone's activity with its consent and `CaptureSessionPolicy`, which would
   close the loop between NativeService and CameraStreamer: consent given on the
   phone, capture armed by the service.
3. The browser's output thread, whose end nobody is told of (`rtc.rs:158`).
4. Of the new components the type invariant and the first safety property
   proved, as for the present ones.
