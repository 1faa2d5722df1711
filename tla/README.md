# stream-to-agora in TLA+

`stream-to-agora` probes an input (file, HTTP, RTMP or RTSP) with ffprobe, runs
one ffmpeg child per track, cuts what each child writes into frames and pushes
the frames into an Agora channel. It runs until Ctrl-C, `--duration` or a fatal
event of the SDK. This directory models its control in TLA+, checks it with TLC
on small instances, and proves with TLAPS what matters most for every instance.

Paths are those of the repository with `src/` in front: `src/src/main.rs` is
the crate's `main.rs`, `src/cpp/agora_shim.cpp` the C++ shim.

## 1. Inventory

### 1.1 The parts, their state and how they meet

| part | code | state | operations |
|---|---|---|---|
| cancellation token | `agora/session.rs` `CancelToken` | an `AtomicBool`, a tokio `Notify` | `cancel`, `cancelled` |
| session life cycle | `agora/session.rs` `Session` | SDK handles (service, factory, conn, two observers), the join handles of the tasks, the token, the event receiver | `connect`, `set_renew_sender`, `wait_connected`, `register_pump`, `run`, `Drop` |
| callbacks | `agora/observer.rs` | two global senders, `EVENT_TX` and `RENEW_TX`, behind mutexes | the SDK trampolines, `outcome_for` |
| start-up and exit path | `main.rs` `main` | the publishers, the video thread's handle, everything's order | every `?` is a way out |
| pumps | `main.rs` `pump_*` | the child, `buf`, a parser, the respawn counters, the pacing clock | `select!`, respawn, drain, push |
| codec plan | `agora/publisher.rs` `decide`, `agora/video.rs`, `agora/audio.rs`, `ffmpeg/pipeline.rs`, `main.rs` | none: four lookups by codec name | mode, codec id, muxer, choice of pump |
| probe | `ffmpeg/probe.rs` | none | `parse_probe_json` |
| ffmpeg children | `ffmpeg/pipeline.rs` | child processes with two pipes | `spawn`, `respawn` |
| publishers | `agora/video.rs`, `agora/audio.rs`, `cpp/agora_shim.cpp` | an SDK track each, borrowing conn | `create`, `publish`, `push`, `Drop` |
| token renewal | `main.rs`, `agora/session.rs` `RenewHandle` | a channel of warnings, a shell command | wait, run the command, `renew` |
| parsers | `parse/*.rs` | IVF header, Ogg carry | `next_au`, `next_frame`, `pull` |
| command line | `main.rs` `Cli` and the checks on it | none | validation |

How they meet: `main` is one sequential async function. It owns the `Session`
and calls it. The SDK calls the trampolines on a thread of its own; these and
the pumps, the Ctrl-C handler and the `--duration` timer send on one unbounded
channel that `wait_connected` and then `run` receive from. `run` fires the token
that each pump and the renewal task `select!` on, and joins the tasks it was
given handles for. Each pump owns its publisher, which borrows conn. The encoded
video pump is an OS thread of its own; the others are tokio tasks.

### 1.2 What is hard in it

* **Interleaving.** `cancel()` is two steps and one poll of `cancelled()` is
  four; the SDK's thread, up to three tasks, Ctrl-C and the timer race `main`.
* **Ordering of release.** Six SDK objects that need one another, publishers that
  belong to tasks, and a way out of `main` at every `?`.
* **Partial failure.** Each stage of `connect()` undoes its predecessors by hand;
  every `?` of `main` unwinds a different set of locals.
* **Retry.** The respawn budget is a counter reset in two places, by different
  conditions, in eight copies of the same loop.
* **Framing.** Reads end anywhere, also inside a header, and a respawn starts the
  stream again with a partial frame in three places.
* **Agreement.** A codec name is looked up in four files that must agree.
* **Termination.** `run()` waits for every task; a task that waits for something
  else than the token keeps the program.

`PROJECT.json` lists each hazard at its line, with the properties aimed at it.

### 1.3 What makes each part correct

* *Token*: a task that waits when `cancel()` is called, or later, is released; no
  task is released before.
* *Session*: an SDK object exists only with those it needs; who uses conn is
  gone before conn is; every way out releases everything; the first decisive
  event decides; a decisive event ends the program; the wait for the connection
  ends.
* *Pump*: what is pushed is the next whole frame of the current child; a file is
  pushed to its end; the budget is kept; a dead source is given up; it does
  towards the session what the session relies on.
* *Plan*: what ffmpeg writes is what the pump parses and what the SDK is told; a
  track has a publisher, a child and a pump, or none.
* *Renewal*: a token does not expire through the loop's own doing; a warning is
  answered; the loop stops with the run. An expiry is one of the events that end the
  run, which is `Session`'s.
* *Children and publishers*: what a track consists of is made in one order and
  undone in the opposite one by whoever holds it; a track has one ffmpeg at most;
  a child that is stuck holds up neither the other track nor the stop.
* *Parsers*: however the reads cut the stream, what is pushed are the frames that
  were muxed, and no frame is held back that can be told complete.
* *Pacing*: a track is not ahead of the clock, and behind it only by its outages.

## 2. The modules

    Latch  <--implements--  CancelToken             CancelTokenProofs
      (the token is a latch)
    Session  (uses a one-shot latch; a pump is what PumpContract says)
                                                    SessionProofs
    PumpContract  <--implements--  Pump             PumpProofs
    WholeStream  <--implements--  Framing           FramingProofs
      (how reads cut a stream      (Pump's loop byte by byte)
       makes no difference)          EXTENDS AnnexB, Containers  (the framers)
    Pacing   (when a pump pushes)                   PacingProofs
    Feed     (what tracks own: SDK objects, ffmpeg children, pipes)
                                                    FeedProofs
    TokenRenewal  (Session's renewal task, with tokens and time)
                                                    TokenRenewalProofs
    MediaPlan  (what the probe and main decide before Session spawns)
                                                    MediaPlanProofs
    MC*      the instances

The composition is by contracts. `Session` has each pump as five steps
(`PumpStop`, `PumpRead`, `PumpEnd`, `PumpDrain`, `PumpReturn`); `PumpContract`
states the first four as a specification, and `Pump`, with the whole loop of
each of the eight functions, is shown to implement it. `Session` has the token as
a Boolean that is set once and stays; `Latch` states that as a specification,
and `CancelToken`, in atomic steps, is shown to implement it.

`Framing`, `Pacing`, `Feed` and `TokenRenewal` each take one side of what `Pump`
and `Session` show whole: the bytes, the clock, the resources of the tracks, the
tokens. They share the code's control (the order in `select!`, the respawn, the
ways out of `main`) and leave out each other's data; a module that had all of it
could not be checked.

### CancelToken

`flag` is the `AtomicBool`; `registered` and `notified` are the futures in the
list of `Notify` and those of them that were woken. `StoreFlag` and
`NotifyWaiters` are the two statements of `cancel()`; `Check`, `Enable`,
`Recheck`, `Wake` are the statements of `cancelled()` between which another
thread may run; `Abandon` is the other branch of the caller's `select!` winning.
`Notify` is external; the part of its contract used is the one that the code's
comments quote: `notify_waiters` wakes those registered at the call, no other.

### Session

`mpc` is `main`'s next step, inside `connect()`, `wait_connected()`, `run()` and
`drop()` included; an action is one call that can fail or that changes state
somebody else sees. `live` is the set of SDK objects, `chan`/`head` the event
channel (its whole history, and how much was received, so that properties can
speak of order), `pub` who holds an undropped publisher, `task` each task's
state, `handles` the join handles registered. `exit` remembers why `main` is
leaving. Every `Err` of `connect()` is a `ConnectFails`, which goes to the first
call of that stage's own undo (table `UndoFrom`); `UndoObserver`, `UndoConn`,
`UndoFactory` and `UndoService` are the calls, one step each. Every `?` after it
is a `Leave`, followed by `Unwind`: the locals drop, then `Session::drop`. A task's
publisher drops in `PumpReturn`, and at `ProcessExit` when the runtime goes.

Left out: which error text is shown; the tracks' content; sending on a closed
channel (`Send` does nothing once nobody will receive). A `select!` is one step
here; that the token may fire between its two polls is `TokenRenewal`'s, where it
makes a difference.

### Pump

One loop for the eight functions, which differ by the record `Framer`: how a
frame ends (the next one's start for H.264/HEVC; a length for IVF, ADTS, G.711;
page by page for Ogg; an exact read for raw), whether the container has a header,
whether the framer can fail. A child writes frames of two units, so that a read
can end inside one; each unit carries the child's parity, its frame and its
half, so that a unit of the wrong child or out of order is visible. `at` is how
far the child was read, `buf` the code's buffer, `reader` what `IvfReader` or
`OpusDemux` keep. `failures`, `respawned`, `progress` are
`consecutive_failures`, `last_respawn_at`, `pushed_since_last_respawn`; `barren`
is a history variable, the number of respawns since a frame was last pushed.

Pacing (`sleep_until`) is part of `Push`, as a step that ends; the 2 s of
`last_respawn_at` are a step, `Settle`, that may come at any time.

### MediaPlan

`main` from the flags to the pumps, a step per decision: `Gate` (flags that
exclude each other), `Probe` (`parse_probe_json`), `Check`, `Decide`,
`CreatePublishers`, `Spawn`, `StartPumps`. The lookups stand one per place of the
code, under the code's names. The tables `Carries`, `Reads` and `Means` are the
outside world: what an ffmpeg muxer can carry, what a framer reads, what an SDK
id stands for. They are the reference the properties compare with.

### Framing, AnnexB, Containers

`Framing` is the read loop and the drain loop of the six encoded pumps on bytes:
`buf`, `reader` (what `IvfReader` and `OpusDemux` keep), `pushed`. `Pull` is one
call of the framer, or one turn of its loop, and what the pump does with the
answer; `pull_au` has the pump's own part in H.264 and HEVC, which drains
`buf[..au_len]` although `next_au` measured from the first start code.
`EndOfInput` and `Respawn` come after any byte.

`AnnexB` is `next_au` of `h264.rs` and `hevc.rs`, one walk with two tables of NAL
types; `Containers` is `ivf.rs`, `aac.rs`, `g711.rs` and `opus.rs`. A byte is a
kind and a number; a header field that the code assembles from several bytes is
one byte with a value (IVF's file header is two of them, or as many as the second
says), and "long" is a slice header whose Exp-Golomb code needs a
byte more. The reference is in `MCFraming`: ffmpeg's muxers, which write the
streams from frames and so know where each begins and from which byte on it can
be told complete. The framers are compared with that, not with themselves.
The loop over the lacing values of an Ogg page is `lace_loop`, one `lace_next` per
value: how far the data has been read, the packet begun, the audio packets ended.

`WholeStream` is what the reads must not change: a pump that has all of a
child's bytes before it and takes the framer's turns on them. `Framing`
implements it with `rest` as `buf` and what is still unread behind it, so the
property (`ReadsDoNotMatter`) says that every answer a framer gives on a part of
the stream is the one it would give on all of it. `RightInOneGo` is the other
half, about the framers alone: given a whole stream they take the muxed frames
off it.

`WellMade` says what the muxers write, for a stream of any length, without saying
how a framer reads it. Frames of IVF, ADTS and G.711 lie one behind the other,
each with its length (`WellPacked`); an access unit is one picture with what
stands before it, and the next one begins with a delimiter or a first slice
(`WellCut`); the packets of Ogg are one run of bytes, cut into segments of at most
255 and these into pages, so that a packet may go on over any number of pages and
end with an empty segment (`WellLaced`, `WellCounted`, `WellPaged`). `known` is
where the bytes tell a frame complete. A stream may stop after any of its frames, and those of
IVF, ADTS and G.711 with a part of one. `MCFraming` assumes, and TLC evaluates,
that every stream its muxers write is `WellMade` (`MCMuxers`); the theorems
assume the same of `Sources` and nothing else.

### Pacing

`due(k, n)` is the integer expression of `sleep_until`'s target, `idx` is
`frame_idx`, `now` the time since `session_start`, in units of which a second has
`Unit`. A live source plays on while its child is away; a stored one waits.
`num` is what a frame says of itself (Opus packets differ). `given`, `last`,
`steady`, `away` are history.

### Feed

Per track: `objs`, the sender and the track object of the SDK behind a publisher
(the two steps of `create_raw` and of the shim's `encoded_create`); `published`;
`holder`, who will drop them (main until the pump starts, then the pump);
`stream`, `running`, `child`, `stdout`, the `PipelineStream`, the ffmpeg processes
that were not told to die, what the last of them does, and its pipe. Main's
sequence is `todo`, the tracks it still has to do a stage for; `Leave` is a `?`.
`Release` is Rust's drop order, one action per call: the stream with
`kill_on_drop`, unpublish, the track, the sender. `Spawn` has the partial failure
(the second child cannot be spawned). `ProcessExit` drops what the runtime holds,
but not what is on the video thread. ffmpeg is external: it writes while its pipe
has room, may block for good on the stderr that nobody reads, closes its output,
and exits later or not at all.

### TokenRenewal

`phase` is how far `main` is, `left` the life of the token that the SDK uses,
`queue` the renewal channel, `job` how long the command has run, `polled` that the
task is inside its `select!`, past the poll of the token. `TaskStop`,
`PollCancelled`, `TakeWarning`, `Renews`, `RenewFails` are the task's loop:
`run()` may fire the token between `PollCancelled` and `TakeWarning`, and then a
command starts all the same. `OneLateJobAtMost` says that no second one does
(`lateJobs`, a history variable, counts them). `TokenWillExpire` and
`TokenDidExpire` are the two callbacks; `Tick` waits for what the code does at
once (the biased `select!`, a warning that is due).

`causes` is history: what went wrong between a warning and a new token (no
command, a warning before `RENEW_TX` was set, one that waited for the task to be
started, a slow command, a failed one). It is about the token in use: `Renews`
begins it anew, with nothing in it but that a slow command may print a token that
is old already. `NoExpiryWithoutCause` says that nothing else can be the reason why
this token expires, whatever befell the ones before.

## 3. What is checked

| run | instance | states | shows |
|---|---|---|---|
| `cancel_token` | 3 tasks | 684 | no wake-up is lost, the token implements `Latch` (so nobody returns early), liveness included |
| `session` | 2 events | 198,375 | order of acquisition, undo and release, first decisive event, no Shutdown while waiting, all released, a decisive event ends the program, the wait ends |
| `pump` | 2 respawns, 3 frames, reads of up to 3 units | 25,104 | the next whole frame, played to the end, the budget, the contract with its liveness, a source with no more frames is given up |
| `media_plan` | 6 video, 5 audio codecs, 2 streams | 19,296 | the four lookups agree, every child is read, something is published |
| `token_renewal` | life 7, warning at 3, command up to 2 ticks, 2 queued warnings | 5,631 | an expiry has a cause, one late command at most, a warning is answered |
| `framing` | up to 3 pictures or frames of each format, reads of up to 4 bytes | 52,086 | the frames pushed are the source's, nothing is held back, the tail of an Annex-B stream, `WholeStream` is implemented, the framers are right about whole streams |
| `feed` | pipes of 1 chunk, 2 children a track | 51,686 | nothing is used after it was destroyed, one ffmpeg a track, a clean exit, a stop frees both tracks, a child is attended to |
| `pacing` | 5 units a second, frames of 1/4 and 1/2 s, 20 units, 4 outages | 397,439 | never ahead of the clock, not behind it by more than outages and rounding |

Every property of these runs has a mutant in `PROJECT.json`: a plausible
slip in the code, written next to the definition it alters, that makes TLC
report that property.

### Disagreements between the code and what it says

Each is a run with one property that TLC refutes. The property states the
quoted comment.

| run | comment | what the code does |
|---|---|---|
| `session_video_thread` | `main.rs:411-413` | on a fatal event `?` leaves past the join of the video thread; conn is destroyed while the thread's publisher lives |
| `session_user_observer` | `session.rs:417` | a refused `agora_rtc_conn_connect` destroys conn and leaves the user observer |
| `session_hanging_command` | `main.rs:341-344`, `session.rs:353-356` | the renewal command is awaited without the token; while it hangs, Shutdown does not end the program |
| `pump_progress` | `main.rs:512` | at the limit the reset is not reached: a source that made progress is given up |

`ConnOutlivesItsUsers` names the first as an exception, and a failed
`ctrlc::set_handler`, which unwinds without firing the token or joining anyone:
no run refutes the latter, since the comments speak of `run()`, which is not reached
there. `AllReleased` and `NoOrphans` name the second, and only the user observer
of a failing `connect()` in it. They stay violated by anything else.
`NoStrayChild` and `ExitIsClean` name the two ways out of `main` past a join: the
video thread's ffmpeg is left to itself when the process ends under it.

What else was found to differ from a text, without a run of its own since a
single step of the model shows it:

* `main.rs:168-172` has the tracks published before the connection is up; nothing
  orders the two (`Session.Callback` may come any time after `StartConnect`).
* `main.rs:79-82` (the help of `--reconnect-attempts`) does not count HTTP;
  `is_remote()` does (`Pump.is_remote`).
* `probe.rs:90` ignores other streams; one without a codec name fails the probe
  (`MediaPlan.Nameless`).
* `video.rs:242-243` has only allow-listed codecs on the encoded path;
  `STA_FORCE_MODE=encoded` sends any (`MediaPlan.Decide`).
* `h264.rs:30` has an `eof` argument for the last access unit; no pump passes
  `true`, and what is left in `buf` is dropped (`TailIsTheLastFrame`,
  `PlayedToTheEnd`).
* `main.rs:921-923` says that the file is not shovelled at the SDK; `pump_pcm` has
  no `sleep_until`, and an Opus pump computes a packet's time as if all before it
  had been as long. `NeverAhead` and `KeepsUp` name both as exceptions.

### Bounds, and why they are enough

* `MaxEvents = 2`: SDK callbacks come while the channel's history is shorter than
  2; Ctrl-C, the timer and the pumps' `Failed` are not bounded by it (each comes
  at most once), so histories of up to six events occur. Two callbacks are
  enough for noise before a decisive event, for two decisive events, and for one
  before and one after `wait_connected`. The violation runs use 1 where one is
  enough.
* `renewQ` at most 1: the renewal task treats all warnings alike.
* `Attempts = 2`, `Frames = 3`, `ReadMax = 3`: two respawns tell "reset" from
  "not reset"; three frames give a first, a middle and a last one; a read of
  three units ends inside the second frame or spans a whole one.
* `barren` stops counting at `Attempts + 1`, where the property has failed; the
  children are told apart by parity, which is enough as only the one before can
  leave anything in a buffer that is cleared at each respawn.
* `MaxStreams = 2`: "first of its type" and "one of each type" need two; a third
  stream is a second of its type or one that is ignored.
* `TokenRenewal`: a life of 7 lets one token be replaced by another twice over
  with warnings in between; two queued warnings are one that is being answered
  and one that is left over; a command of up to 2 ticks ends before, with and
  after a repeated warning, and `CmdMax + 1` stands for all that are slow. The
  assumption (a warning comes earlier than a command lasts) is what makes a
  renewal possible at all.
* `Framing`: three pictures are a first, a middle and a last one, with every order
  of short and long start codes, delimiters, parameter sets and further slices;
  reads of up to 4 bytes, at every offset, cut inside and behind each field, and
  return one frame or parts of two. Ogg packets are laced with `Full = 2`, cut into pages
  after any lacing value. The algorithms look at no other byte.
* `Feed`: `PipeSize = 1` has an empty and a full pipe; `MaxSpawns = 2` a child
  before and one after a respawn. The proofs have any.
* `Pacing`: the frame lengths (5/4 and 5/2 units) are no whole number of units,
  so that rounding happens; 20 units are enough for sixteen frames and four
  outages in any place. Four are needed: each outage costs a live source up to a
  frame and a rounding, and a bound that forgets that they add up holds with two.

### Fairness

* `CancelToken`: `cancel()` is run to its end, a poll begun is finished, and the
  executor polls a woken task. Nothing makes a task call `cancelled()`.
* `Session`: `main` is weakly fair (it waits only where its guards say), so is
  each spawned task: tokio and the OS schedule them. Reads of ffmpeg's pipe, SDK
  calls and the renewal command are assumed to return; `SpecHangingCommand`
  drops the last assumption, and is where `StopExits` fails. The SDK need never
  call back, nobody need press Ctrl-C.
* `Pump`: `Stop` and the drain steps are fair. Reads are *not*: ffmpeg is given no
  timeout, so a silent source blocks a read for ever. `DeadSourceGivenUp` needs
  reads that return, and has `WF_vars(Reads)` as its hypothesis; the contract
  does not.
* `TokenRenewal`: main and the task are scheduled and the command ends. Neither time
  nor the SDK's warnings are forced: the liveness property begins with a warning
  that is there.
* `Feed`: main, the drops and the pumps are scheduled. ffmpeg is *not* fair: a
  child may write nothing for ever, or be stuck. `StopFreesTheTracks` holds
  because `select!` looks at the token first, `ChildIsAttended` because each pump
  waits for its own child only.
* `MediaPlan`, `Framing` and `Pacing` have no liveness property and no fairness;
  what must come by a certain time is an invariant there (`NothingHeldBack`,
  `KeepsUp`).

Deadlock is checked in every run: the specifications have an explicit step for
a program that is done.

## 4. What is proved

All theorems are for every value of the constants.

**CancelTokenProofs.** `TokenInv` adds to the type invariant that a task between
its two loads of the flag, or asleep, is registered, that `cancel()` past its
first step has set the flag, and that nobody is woken before the flag is set.
From it: `NoWakeupIsLost`, `ReturnMeansCancelled`, and `TokenIsALatch` (the
safety half of the refinement of `Latch`, for any set of tasks).

**SessionProofs.** `IInv == TypeOK /\ StageInv /\ TaskInv`. `StageInv` says,
of each step of `main`, those of a failing `connect()`'s undo included, whether the
service, the factory and conn exist, what of the other SDK objects may exist, and
which senders are set: the properties only relate objects, which is not inductive. `TaskInv` relates who
owns a publisher, which tasks may be running, and which of them `run()` has yet
to join, up to the point where the last join ends. From it `ConnOutlives`,
`NothingOrphaned`, `EverythingReleased` for any number of events; `TypeCorrect`
from `TypeOK` alone.

**PumpProofs.** `BarrenBudget` is not inductive; `BudgetInv` adds `barren <=
failures` and that `barren = 0` when `progress` holds, which is why a reset of
`failures` at a respawn is harmless; the reset in `Push` comes with `barren' = 0`.
From it `RespawnsAreBounded`, for every number of attempts, frames and read
size. `PumpKeepsContract` is the safety half of the refinement of
`PumpContract`.

**PumpProofs, frames.** `PushesNextFrame` speaks of one step; what carries it is
where the buffer stands. `StreamInv` has: `buf` is a window of the child's output
that ends at what was read (`Window`); so many frames were taken out before it,
and besides them only the header or the half packet that the reader keeps
(`PulledInv`); when the pump goes to read, or has returned, no framer could take
one more out of it (`RestInv`). One lemma per framing for a pull, one per action
for the step. From it `WholeFramesInOrder` and, with `at = Len(Output)`,
`EverythingPlayed`, for all eight pumps, every number of frames, read size and
respawn limit; `TypeCorrect` comes along.

**MediaPlanProofs.** Every choice is made once and from data that do not change
after it; `IInv` states, for each later step, the choice as a function of what
was probed. From it `LookupsAgree`, `ChildrenAreRead`, `PublishesSomething` for
any codec names and any number of streams. `TypeCorrect` from `TypeOK` alone.

**SessionProofs, events.** `EventInv` adds that what was received before main is
leaving was noise and that nobody is armed to ask for a stop before the signals
are installed. Every step but two is `Quiet` (receives and sends nothing) or sends
behind what was received; the two that receive are taken by hand. From it
`FirstDecisiveWins` and `NoStopIsSwallowed`, for any number of events.

**TokenRenewalProofs.** `NoExpiryWithoutCause` is not inductive: one must know how
much life is left at each stage of an answer. `RInv == TypeOK /\ TaskInv /\
InTime`; `InTime` bounds `left` from below as long as nothing has gone wrong with
this token: more than a command takes while no warning was given or one waits,
more than the command may still take while one runs. From it `RenewedInTime`, for every life, lead and command time with
`CmdMax < Lead` and `2 * CmdMax < Life`. `OneLateJobAtMost` needs to know when the
one may still come (`LateInv`): none has before the token fires, and once it has
fired one more needs the task inside its `select!`, which it enters no more
(`StopsRenewing`). `TypeCorrect` besides.

**PacingProofs.** `PacingInv == Ranges /\ Counted /\ LastWasDue`: in a steady
stream `given = idx * last`, and the last frame was due when it was pushed. With
the rounding of the due time, which is downwards, `PacedIsNeverAhead` follows for
every unit, rate and number of outages.
`PacedKeepsUp` needs more, because a live source goes on while its child is away:
`LiveInv` says that its frames keep in step with the clock, that at most one
waits to be pushed, and that those it played and never delivered are accounted
for by the time away and, per outage, one frame and one rounding (`MissedInv`,
which has a form for the source being up and one for down). The proof corrected
the model: `KeepsUp` once allowed one frame and one rounding in all, which two
outages do not refute and many do. A stored source needs `PacingInv` only.

**FramingProofs.** An answer a framer gives on a buffer, other than "more is
needed", stands when bytes are appended: same frames, same reader, and the rest
with the bytes behind it (`FramerStands`, from `IvfStands`, `AdtsStands`,
`G711Stands`, `OpusStands` and `AuStands`). For Annex B the point is that what has
been found stays found: a start code, the type behind it, a first-slice flag and
so the end of an access unit depend on bytes that are there
(`CodesKept`, `TypeKept`, `StartsKept`, `EndStands`), and that a code cut by
the end of the buffer is not one yet. For Ogg it is that a page that is complete
has its lacing table and data in the buffer (`PageKept`; that the table adds
up to a number is `SumIsNat`, by a smallest counterexample with
`WFMin`, since the induction theorems cannot be used). "More is needed" changes
nothing, but that `OpusDemux` drops what lies before a page (`Resyncs`). From it
`AnyReads`: every step of `Framing` is one of `WholeStream`, or none, for any
streams of bytes and any read size.
`TypeCorrect` is about any streams too, also those that no muxer writes: the
packets taken off a page are whole frames of bytes, because the loop over its
lacing values never passes the end of its data (`LoopTyped`).

The frames pushed are right if the framers are right about whole streams: `Staged`
says that the pump is always at a stage that the pump with the whole stream comes
to (`StagedStep`, over the steps of `WholeStream`). Which streams a framer is right
about is the other half. `Right` asks for a set of stages that is closed under the
framer's turns, each with the frames that were muxed so far; `MadeRight` gives one
for every `WellMade` stream:

* In a row. If, from each frame's beginning, the framer's answer on the bytes up to
  where the frame is told complete is that frame (`Unfolds`), it is so on all the
  bytes that follow, because answers stand, and it is none on fewer bytes, because
  otherwise it would stand: `UnfoldsStage`. So one answer per frame is left to
  compute. For frames with a length that is `Unwraps` (`PackedRight`). For access
  units it is `PictureTold` and, at the end of the input, `LastPicture`; both look
  at the bytes behind a cut, and that the start codes, types and first-slice flags
  found there are those found in the whole stream is `CodesShift`, `NalsShift` and
  `CutPicture` (`CutRight`).
* In pages. A stage is a page and how many of its frames were handed out
  (`OpusStage`). After `g` segments the reader has begun the packet that they have
  not ended (`Begun`), and ended the frames counted up to there (`CountTo`); one
  lacing value takes that from `g - 1` to `g` (`LaceStep`), the loop from a page's
  first segment to its last (`PageLoop`), and `carry` from a page to the next
  (`PageTurn`). A page before its last byte is waited for (`PageStage`), and none
  begins with bytes that may be dropped (`PageSkip`).

`FramersUndoMuxers` is that the turns from the first byte on reach such stages
and no others (`StagesClosed`): every turn of every framer leaves fewer bytes and
packets to hand out, or changes nothing (`FramerMoves`; a page of `n` lacing values
has more than `n` bytes), so that `2 * Len(bytes)` turns reach the end.
`FramesHoweverRead`, `NoFrameHeldBack` and `TailHoweverRead` put both halves
together. The four assume that the sources are `WellMade`.

**FeedProofs.** `IInv` has, for each track, what exists needs what is below it
(`Layered`), exactly one holder (`Held`), how far main has come with the track in
each stage (`Staged`), which pumps there can be when main leaves (`Leaving`), and
what is left when it has (`Gone`). One lemma per action. From it `Alive`, `OneChild`, and
`CleanExit`, which is about the step that ends the process and needs `Leaving`
in the state before it. `TypeCorrect` adds what a pipe may hold at each of the
child's stages (`Chunks`) and that a respawn has a first spawn before it.

The assumptions are those on the constants (`MaxEventsAssumption`,
`PumpAssumption`, `RenewalAssumption`, `PacingAssumption`, `FeedAssumption`,
`ContainersAssumption`, `FramingAssumption`); TLC evaluates them in each run.
One small fact is proved and not checked by a run, which has nothing left to find
there: `NoSpuriousReturn` (`ReturnMeansCancelled`), since `Latch` says it too.

**Model-checked only.** Liveness (`DecisiveEventExits`, `WaitEnds`,
`DeadSourceGivenUp`, `WarningIsAnswered`, `StopFreesTheTracks`, `ChildIsAttended`,
the fairness halves of the two refinements), which is out of the prover's reach. Every invariant that a run
checks is also a theorem.

## 5. What is not modelled

* Inside the parsers: Exp-Golomb codes and emulation-prevention bytes (a slice
  header is "first", "later" or "long"), the bit walks that find a VP9 or AV1 key
  frame, the duration table of Opus packets, the ADTS header but its length: pure
  functions of a few bytes, which the unit tests enumerate.
* Picture sizes, sample rates and channel counts, and with them a frame of zero
  bytes and a source that comes back with another size.
* What the SDK does between two callbacks; it is a source of callbacks in any
  order, and of calls that succeed or fail.
* ffmpeg's command line beyond the muxer; what a push puts into the SDK's frame
  structures, the capture stamps included, which nothing in the code reads back.
* Command-line validation, error names, logging, bindgen output, build scripts,
  the npm package: nothing in them interleaves or keeps state.
* Threads inside tokio and the SDK.

## 6. Plan

Proofs still to write, in order of what they are worth:

1. `NothingHeldBack` for a stream that is not well-formed: which frames before
   the fault are pushed.
2. That `Framing` and `Pump` agree: `Pump`'s framings as abstractions of the
   byte-wise framers.

Modules still to write:

1. `MediaPlan` with a source that changes between two openings: the respawned
   child reuses the arguments of the first probe, the raw pump its frame size.
2. A contract between `Session`'s renewal steps and `TokenRenewal`, as `Pump` has
   one.
