# orbit-rs in TLA+

orbit-rs runs on a small Linux board, takes the live H.264 stream from a pair of
DJI goggles over USB and hands it to a renderer. This directory holds TLA+
specifications of its moving parts, the TLC configurations that check them and
the proofs TLAPS checks. Paths are relative to the repository; a line number is
the line a definition or a remark is about.

## The system

| part | code | state it keeps | operations | talks to |
|---|---|---|---|---|
| aoa capture runtime | `src/capture.rs` | `G_STOP`, `enabled`, the back-to-back failure count, one `Session` (`over`, `failed`, `sink_closed`) per plug-in | `run_capture`, `event_loop`, `send_commands`, `receive_video` | FunctionFS (ep0, ep1, ep2), the sink, signals |
| Worker, descriptors | `src/common.rs` | `quit`, `done`, a thread; owned descriptors | `Worker::new`, `stop`, drop; `write_all` | the runtime, `SIGUSR1` |
| gadget life cycle | `src/gadget.rs` | `FunctionFsGadget`: `composed`, `mounted`, `bound`, `ep0_fd`, `prev_gadget`; the configfs tree and the UDC files | `setup`, `attach`, `teardown`, `cleanup_stale` | the kernel, other gadgets' owners |
| descriptor blocks | `src/gadget.rs` | none (constant bytes) | `ffs_descriptors`, `ffs_strings` | ep0 |
| 55CC framing | `src/common.rs`, `src/capture.rs` | read buffer and position | `next_frame`, `find_sps` | the receiver |
| DUML commands | `src/capture.rs` | sequence number | `build_command`, two CRCs | the sender |
| goggles-net interface | `src/goggles_net/iface.rs`, `mod.rs` | none | `wait_for`, `bring_up` | sysfs, `ip`, `nmcli` |
| handshake | `src/goggles_net/handshake.rs` | session id, deadline | `open` | the goggles over UDP |
| packet envelope | `src/goggles_net/handshake.rs` | none | `packet_type`, `build_control_ack` | the receive loop |
| reassembly | `src/goggles_net/video.rs` | `Assembler` | `parse_fragment`, `feed` | the receive loop |
| receive loop | `src/goggles_net/capture.rs` | three clocks, `seen_video`, `video_stalled` | `run` | the goggles, the sink |
| startup, supervision | `src/main.rs` | the renderer child | arguments, choice of mode and sink, `--cleanup`, wait | all of the above, systemd |
| environment file | `src/envcfg.rs` | the process environment | `load` | startup |
| network script | `scripts/orbit-net` | NetworkManager profiles | `apply`, `ap`, `client`, `down` | NetworkManager, systemd |
| units, installer, configuration | `systemd/`, `install.sh`, `config/` | none | | systemd |

Startup picks a mode and a sink (a file, stdout or the stdin of a spawned
renderer). In aoa mode the board poses as an accessory: the gadget life cycle
brings the interface up, the runtime opens a session each time the goggles
enable it. In goggles-net mode the board is a network client: it waits for the
interface, opens a session, then loops over datagrams. Both end when the output
is gone, when the link is, or on a signal; systemd starts the program again.

What is hard here:

* four threads that share flags, descriptors and signals, two of them in calls
  that only a signal or the host ends;
* USB events that coalesce in one flag while the main thread sleeps;
* UDP that loses, repeats and delays, and counters of 6, 7 and 8 bits;
* timeouts of nested loops, and clocks compared around a blocking write;
* a configfs tree that any step may fail to build, that a kill leaves half
  built, and a controller borrowed from somebody else;
* two processes, or two tools, at the same tree.

What makes each part correct: the runtime ends when told, serves who is plugged
in, never uses a closed descriptor and reports a lost output; the gadget leaves
nothing behind and gives the controller back; the handshake opens nothing that
was not answered and neither floods nor waits for ever; the assembler hands on
whole units and all that arrived; the receive loop tells a quiet camera from a
dead link.

## The modules

| module | models | composed with |
|---|---|---|
| `ModeRun` | abstract: what the run of a mode promises `main()` | implemented by `AoaCapture` |
| `AoaCapture` | the runtime, its workers, descriptors and the sink | a host, an event queue and a consumer, from how the code uses them |
| `FrameStream` | `next_frame`, `find_sps` and the receiver's buffer, byte by byte | the goggles' stream, cut into reads |
| `GadgetLifecycle` | the gadget's life cycle, any number of orbit-rs processes, kills | configfs, FunctionFS, other tools |
| `UnitStream` | abstract: a stream of whole units in order, each once | implemented by `VideoAssembler` |
| `VideoAssembler` | header parsing with its field widths, and `feed()` | a link |
| `NetHandshake` | `open()` | goggles and other traffic |
| `NetCapture` | the receive loop of `run()` | goggles, sink, signals |
| `EnvFile` | `load()` and what startup reads of the environment | `Supervisor` |
| `GogglesNet` | `goggles_net::run()`: find the interface, bring it up, open, receive | goggles that come and go, NetworkManager; `Supervisor` |
| `Supervisor` | `real_main()`, one run after another, with the renderer | `GogglesNet`, `EnvFile`, systemd, an operator |
| `OrbitNet` | the network script, its unit and its path unit | NetworkManager |
| `...Proofs` | theorems about the module of that name | `VideoAssemblerProofs` is about `UnitStream` too, `SupervisorProofs` about `GogglesNet` and `EnvFile` |
| `MC...` | what TLC needs to run each | |

An operator whose name ends in `Bug`, directly before the definition it varies,
is that definition with a plausible mistake in it. No specification uses one;
each is there to see that a property notices the mistake.

### AoaCapture and ModeRun

`pc` walks through `run_capture()`; `wpc[w]` is where worker `w` is: about to
load its quit flag (`check`), past it and not yet in the kernel (`ready`),
`blocked` in its transfer or poll, or working on the result (`handle`, `write`).
The window between `check` and `blocked` is the one the comment on `Worker`
(common.rs:50-52) is about: `Kick` has no effect there, and none in `write`,
since `write_all` retries `EINTR`. `AfterStop` holds the order in which values
drop (capture.rs:482-499), so a worker's stop is called from the point that
drops it. `epOpen`, `ep0Open`, `sinkOpen` say whether the descriptor numbers
handed to the workers are still owned. `cut` remembers that the interface was
disabled since the endpoints were opened. Payloads are counted, not spelled out,
and sleeps take no step: any interleaving is possible during one.

`ModeRun` is the same run seen from `main()`, which waits for the renderer and
exits with the run's code: a sink kept until the run has decided and dropped
before it returns (or the renderer would never see the end of its input), and a
lost output that ends up in the code. `KeepsContract` is the refinement.

### FrameStream

`wire` is all the goggles send, chosen at the start: junk, then frames. A read
takes 1 to `MaxRead` bytes of it, so every cut of the stream is a behaviour;
`NextSession` begins anew anywhere further on, as a replug does. `SkipTo` and
`FrameAt` are the loop of `next_frame()` without its index: the loop stops at
the first `p` with a whole header whose two sync bytes match, or when less than
a header is left. The theorem `SkipToIsTheLoop` says that `SkipTo` unrolls as
that loop does. `VideoOf` is the video of the frames that were sent.
`IsFraming` says what the frames of a stretch of bytes are without a buffer or a
read, and `CutsDoNotMatter` compares. `found`, `from` and `out` are history.

### GadgetLifecycle

`obj[p]` is the process's `FunctionFsGadget`, field by field. `tree` is the set
of parts that exist; `Needs` is what the kernel wants a part to live in, so it
says when `mkdir` works and when `rmdir` does not. Each system call that changes
something is one step, so that a kill, another process or another tool may come
between any two. `release_udc()` is `Look` and `Release`: it reads a UDC file,
then writes it. A failure is a disjunct of its own at each step that has an
early return. `taken` and `litter` are history.

### VideoAssembler and UnitStream

A fragment is a unit and a part number; `Header` reduces them to the widths of
the header (`IdMod`, `TotalMod`, `IndexMod` for 8, 7 and 6 bits). A payload is
the fragment itself, so `out` shows which bytes of which unit went where. A
link holds up to `Flight` datagrams and may lose any; each link of `Links` says
whether it keeps their order (`inOrder`) and how often it may deliver one
(`copies`). `Span` bounds how far apart in units two consecutive arrivals are.
`UnitStream` appends whole units, each later than the one before.

### NetHandshake and NetCapture

Both count time in ticks. In the handshake time passes only in an empty
`recv()`; in the receive loop also while a write blocks, up to `MaxWrite`. A
clock of the code is modelled as its age. The two `Option<Instant>`s are sets
with at most one age. In the receive loop a datagram is one of four kinds:
`control` (ACK'd), `part` (video that does not complete a unit), `unit` (video
that does) and `other`.

### Supervisor, GogglesNet and EnvFile

`Supervisor` starts orbit-rs, again and again. A process loads its settings
(`EnvFile!Load` over the unit's environment and the files as they are then),
opens its sink, catches signals, runs its mode and waits for its renderer. In
goggles-net mode the run is `GogglesNet`, whose `NetStep` the module takes as
its own (`RunNet`): `wait_for()`, the three commands of `bring_up()`, the
handshake and the receive loop, these last two reduced to what they return,
which `NetHandshake` and `NetCapture` justify. In aoa mode the run is one state:
that it ends on a stop and reports a lost output is `AoaCapture`'s.
A file is a sequence of lines, and a line a record of what `parse_value()` can
tell apart (quotes, a comment, an empty value); values are names.

systemd is `unit`, the start counter `quick` and whether a stop is half of a
restart. `quick` counts starts that may have ended within the start limit's
window; a run that lasts may reset it, a run that ends at once may not.
NetworkManager learns of a new interface some time after it is there
(`NmNotices`) and may then wipe its address until it is told to leave it alone.
Faults (unplugs, crashes of either process, runs that give up) and what an
operator does are bounded by `MaxFaults` and `MaxOps`.

### OrbitNet

Every `nmcli` command of the script is a step of its own, so that NetworkManager
may bring up a profile, the configuration may be edited, or the script be killed
between any two. A configuration is its mode, what is wrong with its two halves,
and `v`, a number that stands for all its values; a profile remembers the `v` it
was made from and which settings were made, and `active` is a copy of the
profile as it was when it came up. A run ends `ok`, `died` of its configuration,
or `cut`.

## The runs

| run | states | what it asks |
|---|---|---|
| `Aoa` | 631 thousand | `ModeRun` is implemented; no closed descriptor is used; a lost output is reported and not forgotten; a stop is honoured, a plug-in served, an unplug ends the session |
| `Framing` | 55 thousand | the frames found are the wire's; the buffer stays small; the output begins with an SPS and is all of the video |
| `Units` | 217 thousand | on both links only whole units; on the orderly one `UnitStream`, nothing that arrived is wasted, drops mean losses |
| `Handshake` | 5 thousand | only an ACK of ours opens; openers spaced; silence bounded |
| `NetWatchdog` | 200 thousand | dead means silent, silence is noticed, the hint follows the video, quiet video is not fatal, a dead link ends the run |
| `GadgetClean` | 90 thousand | nothing left behind, the controller returned |
| `GadgetTogether` | 2.1 million | the same tree with two processes; hand back only to the owner |
| `Supervisor` | 129 thousand | settings as written; every end is followed by a start; goggles that stay are received from; one session at most lost to NetworkManager |
| `OrbitNet` | 545 thousand | a run that succeeds leaves what it sourced; every boot of a good configuration makes the board reachable |
| `NetStop`, `RendererExit`, `OrbitNetWatch` | | where the repository says otherwise, below |

Bounds. `Aoa` uses two failures for the code's five: one that is forgiven
or followed, and the one that gives up; two queued events show coalescing and
events behind one another; one payload in flight is a write that a stop meets.
`Framing` sends three streams of up to 69 bytes, with look-alike headers inside
payloads, an SPS cut in two, junk that ends in half a header and a frame that is
never finished; a read returns any number of bytes up to 64. The assembler's
fields have one to three bits instead of six to eight, so that wrapping and
overflow happen within four units; `Span` is no larger than the wrap, and a unit
of more parts than the count field can say is left to the theorems, which allow
any header. `Handshake` runs past its deadline by two retries. `NetWatchdog`
keeps writes shorter than the session threshold. `GadgetClean` has two
controllers and three other gadgets: an owner, a bystander, and the one attach
mode uses; `GadgetTogether` has one controller and two gadgets, which is what
two processes compete for. `Supervisor` has five kinds of settings file and two
environments, systemd's own limit of five starts, two faults and two operations:
fewer than the starts, so that the start limit is reached only by runs that
fail by themselves. `OrbitNet` has six configurations, good and bad in each
half, with two faults and two operations among them: an edit during a run, and
a kill of the run that follows it.

`CHECK_DEADLOCK FALSE` is set where the program may really stop: the run has
returned, all is sent, the clock is at its bound, a unit is stopped, or no
process need start.

Fairness. `AoaCapture!Spec` assumes that each thread keeps running, that
`Worker::stop()` keeps poking, that the kernel ends a transfer on an endpoint
that was taken away, a poll and a write nobody can read, and that the consumer
reads while it is there (`ConsumerDrains`). Nothing is
assumed of the host or of data moving. `NetCapture!Spec` assumes that the loop
runs and that time passes however busy the link is, which is strong fairness of
the tick. `Supervisor!Spec` assumes that `main()` goes on until it waits for
something, that a renderer ends at the end of its input or on a signal, that
systemd restarts and in the end kills, and that NetworkManager gets to see a new
interface; not that video comes, that anybody plugs or types, nor that
NetworkManager wipes anything. `OrbitNet!Spec` assumes that the script, systemd
and NetworkManager's autoconnect keep working, and nothing of the user or of the
networks. The other specifications have no liveness.

### Where the repository says otherwise

Each of these runs checks one sentence of the repository and finds a behaviour
of the code that contradicts it.

| run | the code | the repository |
|---|---|---|
| `NetStop` | SIGTERM may have no effect in goggles-net mode | orbit-rs.service:18-19 |
| `RendererExit` | a renderer that exits while no video comes in goes unnoticed | orbit-rs.service:19-20 |
| `OrbitNetWatch` | a change of `network.conf` is not applied while the unit is active | orbit-net.path:6-8 |

Four smaller ones are read off the models, and no run is spent on them: sessions
that streamed count towards giving up (capture.rs:503; its comment at 416 speaks
of sessions that never did); other traffic puts off the handshake's deadline
(handshake.rs:131; 115-116); `--cleanup` may bind a gadget that the controller
was not taken from (gadget.rs:604; 307-308); and `parse_value` keeps the
comment behind an empty value, and the quotes of a value with a comment behind
it (envcfg.rs:131-147).

The limits within which the passing runs hold, read off the same models by
changing a constant or an assumption:

* A stop does not get the receiver out of a write to a consumer that is alive
  and reads nothing, since `write_all` retries `EINTR` (common.rs:151): without
  `ConsumerDrains` there is no `StopIsHonoured`.
* `next_frame()` resynchronises inside payloads and trusts the length it finds
  there: in a session that begins in the middle of a frame, video behind a
  look-alike header is lost (common.rs:186-192). `VideoIsKept` speaks of
  sessions that begin where a frame does; `CutsDoNotMatter` of all.
* A part that comes one datagram late drops the unit it comes into, with no loss
  (video.rs:67): `DropMeansLoss` speaks of links that keep the order. After a gap
  of one wrap of `unit_id` two units are mixed: `EmittedUnitsAreWhole` needs
  `Span` no larger.
* While other traffic lasts the handshake does not send its opener again
  (handshake.rs:135).
* A write as long as the session threshold makes a live link dead
  (goggles_net/capture.rs:190): `DeadMeansSilence` needs a smaller `MaxWrite`.
  The hint about quiet video may come before the first unit does, right after its
  first fragment, and never comes if no fragment does
  (goggles_net/capture.rs:201-202): `HintFollowsVideo` speaks of later.
* `--cleanup` gives up a directory that stays busy for 20 tries and reports
  success (gadget.rs:607): `NothingLeftBehind` needs `Sticky = FALSE`. It does
  not look whether a run is using the gadget (gadget.rs:597), and two runs may
  both take themselves for the builder (gadget.rs:114), so one can take the
  other's gadget down.
* `Restart=always` is subject to systemd's limit of five starts in ten seconds:
  settings that fail at once, or a gadget a killed run left behind, take the unit
  to `failed` within six seconds. `EndIsRespawned` allows that, and
  `PluggedIsServed` is checked with fewer faults than starts.
* With `GOGGLES_NET_IFACE` given, orbit-rs does not wait for the interface:
  unplugged goggles use up the start limit. `PluggedIsServed` assumes it is not
  given (`Good`).
* An `orbit.env` next to the panel's `orbit-rs.env` hides it altogether: one
  file is read, the first in the search order.
* Four `nmcli con modify` commands of the script are not checked
  (scripts/orbit-net:109, 137, 154, 156): an access point may come up open where
  a password was asked for, and the run reports success. (Without its mode it
  does not come up at all, and the run fails at `con up`.) `AppliedAsSourced`
  excludes runs in which one of the four failed (`skipped`).
* A `con delete` is not checked either (scripts/orbit-net:101, 149, 163): in the
  model it always deletes what is there. If NetworkManager refused it, it would
  refuse the `con add` that follows, which is checked. A refusal of the one and
  not of the other would leave two profiles of one name.
* One instance of the script runs at a time. systemd sees to that for a start
  and a reload of the unit; nothing does for a run by hand during one of them.

## The proofs

TLAPS checks these for every value of the constants that the modules' named
assumptions allow.

* `AoaCaptureProofs`. `IInv` is `TypeOK` with `Placement`: which workers can
  exist and which descriptors are open at each point of `run_capture()`
  (`WorkersInScope`, `DescriptorsInScope`), that a closed output is found only
  between the receiver's start and the verdict (`ClosedOutputInScope`), and that
  the failure count is below its limit wherever the loop is
  (`CountersInRange`). `DescriptorsOutliveWorkers` alone is not inductive: that
  closing an endpoint is safe follows from where the workers were joined. From
  `Invariance` follow `TypeCorrect`, `DescriptorsSafe`, `ClosedOutputReported`
  and, with the observation that only opening a new session clears
  `sinkClosed`, `ClosedOutputKept`. `ContractKept` maps each step to a step of
  `ModeRun` or a stutter.
* `FrameStreamProofs`. For any streams of frames, any payloads and any cut into
  reads: `FrameStreamAssumption` says that what is sent is bytes, and that a
  payload is no longer than the header's length field can name. `Window` says
  that byte `i` of the buffer is byte `Base + i` of the wire, and `Framed` that
  the frames found are a framing of the wire up to `Cursor`; neither
  `CutsDoNotMatter`, which speaks only of the moment before a read, nor
  `HeldIsOneFrame` is inductive without them. `SkipProperties` and
  `WindowHeaders` carry a search of the buffer over to the wire. `BufferFits`
  adds up what the buffer can hold, and `FramingIsUnique` says that
  `CutsDoNotMatter` leaves no choice. `WritesTheVideo` is `StreamIsClean`, in
  three parts. The wire: `Ends` and `NextOnWire` say where the encoded frames
  lie on it, from the lemmas on `Joined`, and `NextIsHere` that a receiver at
  the end of one finds the next, whatever its payload looks like. The steps:
  `Kept` says, of a session that began where the stream does, that the cursor is
  always at such an end and that what was written is the video of the frames
  before it (`TakeCopies`). The reference: `VideoOf` joins first and searches
  then, the receiver the other way round, and `VideoOfStream` says that the two
  agree because an SPS counts only inside one payload.
* `VideoAssemblerProofs`. `TypeCorrect` holds on any link and for any header:
  `have` is the number of filled parts, and `parts` has `total_parts` places.
  `UnitsAreWhole` assumes `CountsFit` (a unit's parts fit in the count field)
  and `NoWrap` (`Span <= IdMod`); its invariant adds `HeldIsLast`: what is held
  belongs to the unit of the fragment that arrived last, each payload in its own
  place. Then `have = total_parts` means the unit is whole (`FullMeansWhole`),
  which needs the cardinality of the filled places.
  On a link that keeps the order `Ordered` says that what is in flight comes
  after all that arrived. Then a unit handed on is later than all before it
  (`StreamImplemented`, the refinement of `UnitStream`), a unit all of whose
  fragments arrived was handed on (`NoUnitIsWasted`), and a drop was a loss or
  too large a unit (`DropsAreLosses`).
* `NetHandshakeProofs`. The invariant bounds how far the clock is past the last
  opener by what `recv()` has waited; the four properties of the run follow for
  every timeout and retry interval.
* `NetCaptureProofs`. Time passes in two places, so the invariant says at each
  point of the loop how far a clock of the code may lag behind the wire. The
  bounds of `SilenceIsNoticed` and `HintFollowsVideo` follow for every
  threshold; `DeadMeansSilence` needs writes shorter than the threshold
  (`DeadIsSilent` states it as an assumption).
* `GadgetLifecycleProofs`. `TypeCorrect` needs `VictimKnown`: `release_udc()`
  is about to unbind only a gadget it found in the list. `OnlyToOwner` assumes
  that no run is `--cleanup` and adds `PrevIsTaken`: what `restore_udc()` would
  bind was unbound by this run. It holds for any number of processes.
  `NothingIsLeft` is `NothingLeftBehind` for one process at a time and
  directories that let go in time (`Sticky = FALSE`), whatever other tools do.
  It speaks of the moment a run is over; `InCharge` says at each point before it
  who will take away what is there: the run knows of all of it (`Owns`) until
  `teardown()` starts on the tree, and then the parts already visited are gone
  (`Gone`), which needs the order of that list. `Structure`, what the kernel
  keeps in the tree, makes an empty tree mean no mount and no controller, and a
  missing gadget directory mean an empty tree. `NothingIsLeftTogether` is the
  same property for any number of runs at a time, which may race to build the
  gadget and take over each other's parts; there the invariant cannot say whose
  a part is, so `InHand` says that somebody minds each, unless a run was killed.
  It is about runs without `--cleanup`. `GivesBack` is `ControllerReturned`,
  with nothing assumed of the modes or of who else runs: `Borrower` says that
  only a run with a controller to take, and with its ep0 open, looks for the
  owner, and that the owner it remembers is one it unbound; a run that took
  nothing owes nothing.
* `OrbitNetProofs`. What is up when the script ends was decided several commands
  before: `UnderWay` says what the profile holds at each of them, and that
  NetworkManager, which acts in between, writes no profile. `SourcedIsApplied`
  holds for any configurations and any number of kills, reboots, refused
  commands, edits and runs by hand.
* `SupervisorProofs`. For any renderers, start limit, numbers of faults and of
  the operator's commands, files and environments. `TakenOnce` needs `LostOnce`:
  an interface that lost its address in a session is one NetworkManager knows,
  and it has no address again before the next run has told NetworkManager to
  leave it alone. `SettingsAreWritten` follows from what `load()` computes,
  which is a fold over a file of any length. The prover has no induction over
  data, so `IteratesForAll` gets the intermediate results from a least
  counterexample: a set of naturals with a member has a least one, because `<`
  is well founded. `Folding` turns them into the environments that `load()` goes
  through, one a line, and `AfterLines` says of each, from a least counterexample
  again, what it holds of a key (`Says`). The theorem assumes
  `CommentsStandFree`: where a comment follows a quoted or an empty value the
  property does not hold of the code, as said above.

Only model-checked is liveness, which is out of the prover's reach:
`StopIsHonoured`, `PlugInIsServed`, `UnplugEndsSession`, `DeadLinkEndsRun`,
`EndIsRespawned`, `PluggedIsServed` and `BootsReachable`. Every other property
of a passing run is a theorem, under the hypotheses named above, which the run's
own constants meet. Neither proved nor checked: `NothingLeftBehind` and
`HandBackOnlyToOwner` where several processes run and some of them clean up.

## What could come next

In this order.

1. `Worker` alone as an abstract specification, which `AoaCapture` implements.
2. `NetHandshake`, `NetCapture` and `VideoAssembler` shown to implement the one
   step each of them is in `GogglesNet`.
3. The envelope's lengths and checksum, and the DUML commands, as operators
   against reference definitions over bounded inputs.

## Not modelled

`ffs_descriptors`, `ffs_strings`, the identity strings, `usage` and logging are
constant data or wording. `build_command` and its checksums make constant
packets but for a sequence number, and nothing in the program depends on an
answer to one. The packet envelope's checksum and length fields are abstracted
to the kinds of datagram they tell apart. The command line is not modelled: the
unit gives none, and its options set what the environment can set too, but for
`--cleanup` and the choice of gadget and controller, which are in
`GadgetLifecycle`. Of the network script, seeding a missing file and `status`
change nothing that a property is about. `install.sh` and the configuration
files have no behaviour at run time. The renderer and the settings panel are
other repositories; they appear as the consumer of the sink and as whoever
writes the files.
