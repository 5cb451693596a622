# A formal model of the bikedash ECU

TLA+ modules, TLC configurations and TLAPS proofs for the motorcycle ignition
controller and dashboard in `src/`. Everything is translated from the source;
the two documents (`src/PROJECT_MANUAL.md`, `src/ecu_v2/ARCHITECTURE.md`) serve
only for what they claim about it. The repository has no tests.

    tlc -config MCScheduler.cfg MCScheduler      # model-check one component
    tlapm Scheduler_proofs.tla                   # check its proofs

## 1. The system

Two boards talk over one UART. The **ECU** times the ignition coil from the
edges of a crank sensor; the **dash** shows what the ECU reports and edits its
configuration. The ECU exists twice: v1 (`src/ecu/main.py`, MicroPython, one
core) and v2 (`src/ecu_v2/`, a C core on Core 1 under a MicroPython shell on
Core 0). v2 is the one the documents describe as the target, and the one whose
failures matter most; of v1 the ignition path and the configuration are
modelled, and of the dash what receives, sends, edits and stores.

| part | state | operations | talks to |
|---|---|---|---|
| crank decoder, `crank.c` | last edge, tooth period (EMA), tooth index, edge count, streaks, sync state, mode, lockout | one edge; the 1 kHz soft tick; reset | scheduler (arm, cancel), faults, telemetry, profile |
| scheduler and coil, `scheduler.c`, `ignition.c` | armed cycle, flag and alarm id of the dwell-on and the fire event, spark count, coil | arm for a reference edge, two alarm callbacks, cancel all | alarm pool (SDK), decoder |
| telemetry block, `ipc.h`, `crank.c`, `ecu_native.c` | sequence number and fields | publish, `ecu.read_state()` | both cores |
| faults, `faults.c`, `ipc.c` | bit mask, coalescing times, ring | set, clear, push, `ecu.drain_faults()` | both cores, both interrupt levels |
| profile, `ecu_native.c`, `ipc.c` | two shadows, active pointer, pending flag, CRC | `set_profile`, `set_profile_crc16`, commit | both cores |
| profile store, `config_layer.py` | three files on flash | load with recovery, save pair, clean-up | boot, configuration handler |
| ECU life cycle, `ecu_core.c` | alarm pool, Core 1 flags | start, stop | all of the above |
| maps, `advance_map.c` | none | interpolation, dwell clamp | scheduler |
| v2 shell, `main.py` | last sanitized profile, drained faults, receive buffer | configuration message, telemetry frame, frame parser | dash, store, profile |
| v1 ignition path, `ecu/main.py` | two event slots, mode, coil, decoder globals | crank interrupt, scheduler tick, soft tick, stop | each other, through globals |
| v1 configuration and telemetry, `ecu/main.py` | deferred profile, two transmit buffers, frame parser | main loop | dash, store |
| dash, `dash/main.py` | parser, last snapshot, link state, transmit buffer, settings and odometer file, menu, speed filter | receive, decode, send configuration, buttons, save, draw | ECU |

What makes it hard: on Core 1 the PIO interrupt (crank edges) preempts the
alarm interrupt (both callbacks and the soft tick) between any two accesses,
and no lock or interrupt mask protects what they share; Core 0 reads and writes
the shared block at the same time, with fences and a sequence lock only around
the telemetry; flash operations fail and power is lost in the middle of a save;
on v1 the crank interrupt preempts two Python callbacks anywhere outside three
short critical sections; UART frames are cut, mixed and lost; boards restart
one without the other.

What makes each part correct, in a line:

- scheduler: at most one spark for a reference edge; no charge while ignition
  is inhibited; an inhibit takes the coil down;
- v1 ignition path: the same, and a charge that is started ends;
- decoder: silence is noticed in time; no PRECISION in the lockout; no rpm from
  an implausible period; what a tick publishes is consistent;
- telemetry: a read returns one publication, and returns;
- faults: no fault bit is lost; the log is a bounded queue, in order;
- profile: the last profile set is the one in use, whole;
- store: a boot finds the profile before the save or the one saved, and one
  acknowledged stays;
- configuration (v1 and v2): an answer says what is so; the decoder's geometry
  changes at a boot only; what was answered as persisted is what runs next;
- link: nothing new is refused, nothing of an ECU that has restarted stays on
  the display, and the ECU's state is shown in the end;
- menu: values edited since the boot and called clean were sent, a commit
  sends what was on the display when it was armed, one press opens one screen;
- settings file: the odometer does not go back over a power loss, and a parked
  dash saves.

`PROJECT.json` lists every part, with the reason where it is not modelled, and
the places in the code where it can go wrong.

## 2. The modules

| component | module | abstract specification | proofs |
|---|---|---|---|
| scheduler, coil, and the decoder steps that drive them | `Scheduler` | `IgnitionContract` | `Scheduler_proofs` |
| decoder | `Crank` (`CrankClaims` adds a history of the edges) | `DecoderContract` | `Crank_proofs` |
| telemetry block | `TelemetrySeqlock` | stated as one invariant | `TelemetrySeqlock_proofs` |
| faults | `FaultRing` | `FaultLog` | in `TelemetrySeqlock_proofs` |
| profile | `ProfileShadow` | `ProfileContract` | `ProfileShadow_proofs` |
| v2 shell, on top of the profile hand-over | `ShellV2` (extends `ProfileShadow`) | `ProfileContract` | `ProfileShadow_proofs` |
| store | `ConfigStore` | `AtomicStore` | `ConfigStore_proofs` |
| v1 ignition path | `EcuV1` | `IgnitionContract` | `EcuV1_proofs` |
| v1 configuration, telemetry and UART | `ConfigV1` | stated as properties | `ConfigV1_proofs` |
| configuration frames, from the dash to both ECUs | `CfgFraming` | a claim that is refuted | one theorem in `ConfigV1_proofs` |
| telemetry link: v2 shell's sender, line, dash's receiver | `DashLink` | stated as properties | in `TelemetrySeqlock_proofs` |
| dash: buttons, screens, menu, configuration transmission | `DashMenu` | stated as properties | `DashMenu_proofs` |
| dash: settings and odometer file | `DashStore` | stated as properties | in `ConfigStore_proofs` |

Two proof modules hold what belongs to one subject:
`TelemetrySeqlock_proofs` the way telemetry takes from Core 1 to the rider
(block, fault ring, link), `ConfigStore_proofs` the two stores that outlive a
loss of power. So that one module can extend them all, `FaultRing`, `DashLink`
and `DashStore` name what every module has after themselves (`RingSpec`,
`LinkTypeOK`, `odoVars`).

`MC<module>` extends a module for TLC and holds its symmetry sets; the `.cfg`
of the same name is the passing run, `MC<module>_<Name>.cfg` a claim of the
repository that TLC refutes. Definitions named `...` under a comment "Mutant:"
in the modules are plausible mistakes in the operation they precede; no
specification uses them, and each property is broken by one.

The composition. `Crank` and `Scheduler` share the mode, the period and the
cycle number. `Scheduler` keeps the decoder as three variables that move as
`DecoderContract` allows: a reference edge comes with a known period, the mode
leaves INHIBIT only in a tick that found the period known, anything may be
forgotten. `Crank` implements `DecoderContract` (checked and proved), so what
is shown of `Scheduler` under that abstraction holds above the real decoder,
whatever it does about teeth, gaps and streaks.

`ShellV2` runs `ProfileShadow` under the program that calls it: every profile
pushed is one a request or the flash held, and the shell's steps that do not
touch the hand-over are stutters of it. It takes of the profile store that a
save that returned False left the old profile or the new one, which is what
`ConfigStore` shows. `DashMenu` takes of `save_settings` that it saves or fails,
and `DashStore` looks inside it. `ConfigV1` and `ShellV2` start where a frame
has been taken apart; `CfgFraming` is about what comes before, and shows that,
as the code stands, nothing does (section 6).

### Scheduler

One action per access to shared state at the alarm level; `pc` is the point
that level has reached. `ReferenceEdge` is one action, since nothing preempts
the PIO interrupt: the whole of `scheduler_arm_for_reference`, with the
cancelling of the previous pair, each early return, and the failure of the
second `alarm_pool_add_alarm_at`. `dwell_on_callback` and `fire_callback` check
their tag, act and clear flag and id in the order of the code;
`scheduler_cancel_all` is the ten steps the tick runs, `armed_cycle_id++` a
load and a store. The alarm pool of the SDK is external: adding takes a slot or
fails, an alarm leaves the pool when its callback starts, the two alarms of a
pair expire in their order. Time is otherwise abstract: an alarm that is
outstanding may expire at any moment. That covers late alarms and reference
edges that come before the previous fire.

`raced`, `cut` and `sparked` are histories. `raced` notes that an edge
preempted the alarm level; `cut` that a tick cut ignition and none has promoted
it since.

### Crank

`process_one_edge` has five outcomes, an action each, in the order of the
code's tests (first edge, bounce, gap, out of range, tooth). The soft tick is
one action per read or write of the decoder's state, and an edge may fall
between any two. `crank_reset_state` is one action: its writes are the last of
a tick that has already cut the mode, an edge between two of them starts again
from `FirstEdge` or is counted in state that the rest of the reset then clears,
and the scheduler arms nothing in INHIBIT. Time is discrete and relative;
`TickPeriod` and `TickLag` say that the tick is due regularly and ends within a
bounded time of its start. The subtraction `now_us - last_edge_us` is unsigned
in C, so an edge younger than `now_us` gives a huge age: the model keeps that.

### TelemetrySeqlock

The writer and the reader move word by word. The reader's eight attempts are
`MaxTries`; a field of the result is the number of the publication it was
written by, or `Junk` if it was never copied.

### FaultRing

`faults_set` runs at two levels, the tick's and the PIO interrupt's (which
raises only UNSCHEDULABLE, while arming); a call of the latter is completed
before the tick goes on. The mask update is a load and a store, the push a load
of `head`, a test, a write and a store. A coalescing window of 100 ms does not
end within a call of microseconds. A ring of N slots holds N - 1 entries (31 in
the source). `raced` notes that an interrupt's call preempted the tick's.

### ProfileShadow

`ecu.set_profile` picks the shadow that is not active, fills it field by field
and raises the pending flag; `set_profile_crc16` follows as a call of its own;
the tick swaps. `overlapped` notes that a call began while the previous
profile was still pending.

### ConfigStore

Each file operation of `_atomic_write_clean` is an action that may fail
(`MaxFailures`) or be the last before a power loss. External assumptions, of
the MicroPython file system: opening for writing truncates, `rename` is atomic,
a file cut short does not verify (its CRC is wrong). `damaged` notes that a
write of the active file failed; see section 5.

### EcuV1

`crank_isr` is hard and not preempted: one action, a reference edge or another.
The timer callbacks are soft, and MicroPython runs them one at a time
(external), so `pc` is the one point the soft level has reached; each of their
accesses to what the interrupt also touches is an action, the sections between
`disable_irq` and `enable_irq` one action each. The main loop runs between
callbacks, and of it only `stop_ecu` touches ignition: once the timers are
stopped, its writes are the soft level's. A callback reads the clock once, so
`due` (an event's time is past) is set between callbacks; how late an event is
is left open, as time has no measure here. A dwell-on event may be due as soon
as it is armed: `sanitize_profile` allows a safe dwell of 4000 us with a safe
delay of 500, and the tick refreshes the dwell before the delay. The four
causes of a cut run the same statements and are one path.

v1 and v2 implement the same `IgnitionContract`, so what the engine may rely on
did not change with the port. What did change is how a charge ends: v1 leaves
the previous pair armed until it is overwritten and turns the coil off for any
event that is stale, and there `ChargeHasAnEnd` is an invariant; v2 cancels the
alarms of the previous pair, and there it is refuted.

`cut` is as in `Scheduler`; `slipped` notes that a reference edge armed its
pair after the cut had cancelled and before it changed the mode.

### ShellV2

`main` and `_handle_config_message` of the v2 shell. A request is rejected,
previewed, stored for the next boot (geometry) or pushed to the core, in which
case `pc = "apply"` while `set_profile` and `set_profile_crc16` do their steps
and the core's tick commits between any two. A power loss takes both cores'
memory, not the flash. A profile is a geometry and the rest, which is what the
code's decisions tell apart; the geometry is the six keys `_geometry_changed`
compares (`ipc.h:32-39` lists `mtr_x10` with them, which the code applies at run
time). A request whose settings `sanitize_profile` cannot read raises out of
`main` (`SanitizeRaises`): the shell is over (`pc = "halted"`), the core goes on,
and only a power cycle brings the shell back. `value` remembers which profile each call of
`set_profile` carried, `acked` the one last answered PERSISTED, `unsure` that a
save has failed since. A power loss inside a save is in `ConfigStore`.

`set_profile_crc16` stamps the CRC in both shadows, so the CRC in an answer
names the new profile even before it is live; `AnswerNamesProfile` shows that
it always does.

### ConfigV1

The v1 main loop from one poll to the next: a request is rejected, previewed
or put into the one waiting place; `_apply_pending_config_if_safe` applies it
when the engine is slow enough and answers; the answer and the telemetry frame
leave in as many pieces as `uart.write` takes, each with its offset. `window`
is the speed band the two limits of `_safe_apply_window` tell apart and moves
freely; `line` is what has left on the UART, kept to what a receiver needs to
find one whole telemetry frame. A power loss may come between any two steps.
`sanitize_profile` is called with no `try` (`main.py:760`), and a setting that is
no number, or a map that is no list, raises out of `ConfigIngest.poll` and
`run_loop` (`SanitizeRaises`). The main loop is then over (`pc = "halted"`) until
the power goes, without `stop_ecu`: timers and interrupts go on.

### CfgFraming

A frame on the line is its start, its payload length and the one byte of its
time stamp that the readers take for the low byte of the length. Bytes that
look like a start inside other data are a free choice. CRC collisions are
abstracted: a frame cut anywhere but at its end does not match.

### DashLink

A frame is five cells, and each cell knows its frame; a CRC matches when
header, payload and CRC are of one frame. Cells may be lost, data may look like
a start byte to a parser that seeks one, and a frame may stall half way, up to
`MaxNoise` times; whole frames are lost at will. The ECU restarts with sequence
0, which is what makes its frames look old. `Hold`, the ageing of the snapshot,
is part of every poll, as in the code. `boot` and `fault` are what the display
must get right. In demo mode the display does not show the link at all, and
`get_fault_log` then gives what the last snapshot held whatever the state of the
link; the model is of a dash that is not in demo mode.

### DashMenu

`handle_buttons` is one action: the event, as `get_button_event` classifies it
from the buttons that are down, and the handler of the screen that is open, in
the order of the code's tests. A transmission is the chunks it has left. Values
are one number with the clamp of `adjust_setting`; of the items, one stands for
the local settings, one for the ECU's, and the others, which do different
things, are there one by one. `shown`, `loaded`, `sent`, `dropped`, `unsaved`
and `opened` are histories; `sent` outlives the dash. A power cycle may come at
any moment: what is not in the file is gone, and so are the two dirty flags. As
the file holds what leaving the menu saved, COMMITted or not, the dash may start
with values called clean that no COMMIT ever carried (section 6), in the initial
state too.

Of OK on the main screen the manual (`PROJECT_MANUAL.md:1330`) says that a long
press opens the info screen; the press has opened the menu by then, so after a
clean press it never does (`PressOpensOne`). APPLY never clears
`ecu_cfg_dirty`, so leaving the menu sends it again each time until a COMMIT.

### DashStore

`load_settings` and `save_settings` are one action for each operation on a file
and each may fail; the main loop's part is the poll, which ends between frames
or inside one, the buttons, the counters and the periodic save with its five
conditions. `failed` counts operations that failed since the last good save.

In demo mode the distance of `update_demo_values` and of
`update_distance_from_telemetry_speed` are both added, and saved: the odometer
counts rides that never were.

## 3. The runs

| run | what it asks | bounds |
|---|---|---|
| `scheduler` | no double spark, the cut holds, the contract, the swap quiet without a race, an inhibit kills the coil | 3 reference edges, 3 alarm slots |
| `crank` | silence noticed in time, period floor, lockout, the decoder's contract; silence inhibits | 3 teeth, limits 2 and 3, timeout 9 ticks of time |
| `seqlock` | a clean read is one publication and not old; reads end | 3 fields, 3 tries, 3 publications |
| `faultring` | indices and slots in range, drained in order, bits latched, log kept | ring of 4, 5 pushes, 2 + 1 kinds |
| `configstore` | store atomic, acknowledged saves durable | 4 saves, 3 failures, any number of power losses |
| `ecuv1` | the contract of v2, a charge that has its end on the way and ends | 3 reference edges |
| `shell` | what was set last is live, what was answered PERSISTED runs after the next boot, an answer's CRC is its profile's, the core's geometry is fixed in a boot | 4 calls of `set_profile` in a boot, any number of requests and power cycles, 3 kinds of settings with one out of range |
| `configv1` | answers are true while they go out, geometry changes at a boot only; while no request ends the loop, a waiting request is settled and telemetry flows | 2 requests, frames of 2 pieces, sequence modulo 2, any number of power losses |
| `dashlink` | nothing new refused, nothing of the last boot shown, the state is shown | sequence modulo 6, 2 boots, 1 response, 1 disturbance besides lost frames |
| `dashmenu` | values edited since the boot and called clean were sent, commits as shown, one screen for one press, a transmission ends | 7 sets of buttons, 2 values, frames of 2 chunks, debounce 1, long press 2, stall 1 tick, any number of power cycles |
| `dashstore` | the odometer is kept, a parked dash saves | odometer to 2, 3 boots, any number of failing operations |
| `cfg_framing` (violation) | the ECUs' readers pass the dash's frames without handling them (section 6) | bytes of 4 values, 2 lengths, 3 frames |

The runs that show the other refuted claims keep their `.cfg` in the directory
and are given in section 6.

Why the bounds are enough. *Scheduler*: a fault needs a pair, the pair that
replaces it while a callback is under way, and one more whose tag can be
confused with either; three alarm slots include none, one and two free. The
edges stop at `MaxCycle`, the ticks and alarms do not. *Crank*: every branch
needs a rejected edge, a gap and a bounce within one timeout, and a lockout
longer than the timeout; counters that are only compared with a limit stop at
it, and the parity of the cycle number stands for the number. Time never stops.
*TelemetrySeqlock*: a read that overlaps two whole publications, and one more
attempt. *FaultRing*: five pushes go round a ring of four, so that indices wrap
and a full ring drops. *ShellV2*: four calls use each shadow twice, and the
requests include every mode, a value out of range, a geometry and a runtime
change in any order; power cycles are unbounded.
*ConfigStore*: a save, its failure, the recovery's failure and a further save.
*EcuV1*: an
event being judged, the pair that replaced it, and one that slips into a cut.
*ConfigV1*: a request that waits and one that replaces it, an answer that is
half sent when telemetry starts. *DashLink*: six numbers are two more than the
frames whose order a comparison by half the range can settle, and go round; one
disturbance at each place of a frame, and a restart before or after it; the
three limits of time keep their order and are one tick apart, so each is passed
on its own. *DashMenu*: a button held past the long press, a transmission that
stalls after its first chunk, every item and screen. *DashStore*: a failed save,
a power loss in the next, a power loss in the boot after it. *CfgFraming*: with
bytes of 4 values a frame of 2 is already taken for one of 8.
Bounds are guards of the action they limit and are named in each module.

Deadlock is checked except in `cfg_framing`, where the frames run out.

Fairness. `Scheduler`: the hardware timer keeps serving the alarm interrupt, so
something at that level happens while something can (`WF` of the level), and
the tick, which competes with alarms for the level, comes round (`SF` of its
start: the timer is periodic and expired alarms are finitely many between
edges). Neither edges nor Core 0 are fair. `Crank`: time passes and the tick is
served; edges are not fair, which is the point of `SilenceInhibits`.
`TelemetrySeqlock`: Core 0 runs on once it has called `read_state`; the writer
need not. `EcuV1`: a callback that runs goes on and so does a stopping
`stop_ecu` (`WF`), the scheduler timer is periodic at 5 kHz (`SF` of its start,
which competes with the other callback), and the time of an armed event comes
(`SF`); neither edges nor the soft tick are fair, so `ChargesEnd` does not rest
on the sync timeout. `ConfigV1`: the main loop goes round (`WF`), the telemetry
timer ticks (`SF`), and the UART sends at its baud rate whatever is written, so
there is room again and again (`SF` of the writes that take something); requests
and the engine are not fair. A request may end the loop by an exception, and
nothing but a power cycle starts it again, so both liveness properties suppose
that none does (`pc # "halted"`). `DashLink`: the dash polls (`WF`), time goes on and
the ECU sends every 20 ms (`SF`; both compete with the cells of a frame), and
not every frame is lost (`SF` of one that is not). `DashMenu`: the loop flushes
and time goes on (`WF`); the link need not take anything, and no button need be
pressed. `DashStore`: the loop goes on and time with it (`WF`), polls end
between two frames again and again (the ECU sends a frame each 20 ms, which
takes some 3 ms of them at 230400 baud, and the loop polls every few), and an
operation on a file that is tried again and again succeeds in the end (`SF`);
that is an assumption about the flash.
`FaultRing`, `ConfigStore` and `ShellV2` have no liveness property: faults and
flash promise none, and how long a profile waits for a quiet moment is bounded
by nothing in the code (an engine that runs may always have an alarm armed).

## 4. The proofs

TLAPS, for every value of the constants their `ASSUME` allows. The assumptions
are what `sanitize_profile` leaves of a profile, that counts are counts, and two
facts of the code that proofs brought out:

- `FaultRing`: the PIO interrupt raises one kind of fault only. It is
  UNSCHEDULABLE, while arming (`scheduler.c:135-258`). The coalescing window then
  admits one push of that level inside a push of the tick. Were there two kinds,
  two such pushes could carry the head past the slot the tick has loaded, and
  the tick's store would take it back further than one entry.
- `DashLink`: `LostAfter + 1 < SeqMod \div 2`. In the code 1800 ms, in
  which the ECU sends some 90 frames, stand against the 32768 of half the range. Without
  it the dash could hold a snapshot while the numbers go half round, and refuse
  what is new.

`ReadsAreBounded` also supposes that the block has finitely many fields.

| module | invariant used | theorems |
|---|---|---|
| `Scheduler_proofs` | `TypeOK`, `TagsFresh`, `CountExact`, `CoilAtPoints`; `FlagsTrue` unless raced | type; `AtMostOneSparkPerReference`; `CutHolds`; `FlagsMatchPool`; `QuietCommit`; implements `IgnitionContract` |
| `Crank_proofs` | `TypeOK`, `Ages`, `ModeJustified`, `CutTogether` and the checked invariants | type; `SilenceNoticed`; `PeriodFloor`; `LockoutHolds`; `PublishedModeAgrees`; implements `DecoderContract` |
| `TelemetrySeqlock_proofs` | `TypeOK`, `BodyIsCurrent`, `CopyIsCurrent`; variant `StepsLeft` | type; `CleanReadIsOnePublication`; a read is wait-free (`StepsBounded`, `StepsFall`) |
| the same module, of `FaultRing` | `RingTypeOK`, `RingBounded`, `CallsInOrder`, `SlotsLoaded`, `Increasing`, `CopyIsNext`, `EntriesInFlight` | type; `RingBounded`; `DrainedInOrder`; `BitsAreLatched`; implements `FaultLog` unless raced |
| the same module, of `DashLink` | `LinkTypeOK`, `FramesOfBoots`, `NumbersAhead`, `OldIsOld` | type; `NoneRefused`; `OldBootGone` |
| `ProfileShadow_proofs`, of the hand-over | `TypeOK`, `Numbers`, `Buffers` unless overlapped | type; `LastSetIsLive`; implements `ProfileContract` |
| the same module, of `ShellV2` | the above, `Booting`, `Pushed`, `Looping`, `Applying`, `OneGeometry`, `StoredIsAcked`, `Past` | type; `LastSetIsLive`; `PersistedRunsNext`; `AnswerNamesProfile`; `CoreGeometryFixed`; `CoreMatchesShell`; implements `ProfileContract` between power cycles |
| `ConfigStore_proofs` | `TypeOK`, `Calls`, `ActiveIsGood` | type; `AckedIsDurable`; implements `AtomicStore` unless damaged |
| the same module, of `DashStore` | `OdoTypeOK`, `CountsAhead`, `FileHolds` | type; `OdometerKept` |
| `EcuV1_proofs` | `TypeOK`, `TagsFresh`, `Paired`, `AtPoints` and the checked invariants | type; `AtMostOneSparkPerReference`; `ChargeHasAnEnd`; `CutHolds`; implements `IgnitionContract` |
| `ConfigV1_proofs` | `TypeOK`, `AtBoot`, `OneGeometry`, `FlagsHold` | type; `AnswerIsTrue`; `GeometryOnlyAtBoot`; of `CfgFraming`, that no frame of the dash is ever handled |
| `DashMenu_proofs` | `HandsInv`, `CursorInv`, `ValueInv`, `TxInv`, `ShownInv`; variant `Patience` | type; `OneScreen`; `CleanWasSent`; `CleanIsStored`; `CommitAsShown`; `PressOpensOne`; a transmission runs out of time (`TxRunsOut`) |

The arguments. *One spark*: a tag in the pool or in a running callback was
never counted (`TagsFresh`), and counting removes the only copy; preemption can
misplace flags and ids, but not copy a tag, which is why the invariant speaks
of the pool and not of the flags. *Cut*: in INHIBIT the coil can be on only at
the points of the dwell callback after its mode test, and a tick cannot run
while that callback is under way (`CoilAtPoints`). *Silence*: `since` is tied to
the phase of the tick (`Ages`): a tick that let an old edge pass began when the
edge was young, and the next one is due before it is too old. *Clean read*: the
copied fields, once the sequence is known to be unchanged, were written by the
publication of that number or earlier ones (`CopyIsCurrent`). *Store*: at each
point of a save, one of the two files verifies and holds the version before or
the version saved (`Calls`, `ActiveIsGood`). *v1 charge*: a dwell-on event that
is armed comes with its fire event, or with one that is being served and makes
it drop (`Paired`); so at the moment of charging a fire event is armed.
*Shell*: outside an overlap each call of `set_profile` finds the previous one
live, so what the shell merges a request with is what the core runs
(`Looping`, `Applying`); a request whose geometry differs never reaches
`Push`, so every call of a boot carries the stored geometry (`OneGeometry`); and
the flash holds what was answered (`StoredIsAcked`). *v1 answers*: the flags of
a request are computed when it arrives and used when it is applied, and what
makes that safe is that the active geometry is the decoder's from boot to boot
(`OneGeometry`), whatever requests replace each other in the waiting place.
*Commit*: an armed ECMT has the cursor on it and the values it showed
(`ShownInv`), as every other event disarms it, and only OK reaches it armed.
*No frame handled*: the length the readers use is a byte plus 256 times a
length that is at least four, so it never equals that length (`LengthsDiffer`).

*Flags*: `QuietCommit` is not inductive, since between the expiry of an alarm
and the store that clears its flag the two disagree; `FlagsTrue` says at which
points of the alarm level they do (`Expired`, `Cleared`), and that all armed
events are of the cycle armed last, so an expiring alarm finds its own tag.
*Ring*: a level that has loaded `head` may be overtaken by one push of the
interrupt and no more (`SlotsLoaded`). The slot it writes is then one the reader
may not have passed, which is why order is a statement about entries still on
their way (`EntriesInFlight`) and about what the reader has copied and not yet
given back (`CopyIsNext`). Positions are numbers without bound and slots their
residues; that two positions less than `RingLen` apart have different slots is
a chain of lemmas on quotients and residues, which the link uses too. *Link*:
since a snapshot was taken at most one number was used in a tick, so the frame
that travels is between one and `age` + 1 ahead of it (`NumbersAhead`), which is
less than half the range for as long as the dash keeps the snapshot; how many
frames were lost in between does not matter. A snapshot of an earlier start is older
than the start (`OldIsOld`), so it is dropped in time even if nothing arrives.
*Odometer*: while the file is gone or being replaced, the new content is
complete in the other file and an operation has failed already (`FileHolds`);
so a second failure is needed to lose both.

*Termination.* The liveness properties themselves need fairness and ENABLED,
which are beyond the prover. What two of them rest on is proved, for any
parameters, as a variant: each step of `ecu.read_state()` takes one from a bound
on the steps it has left, and no step of the writer gives any back
(`ReadsAreBounded`: the read is wait-free); and a frame that the dash is
sending stays the frame it was and loses time with every tick, whatever is
pressed, until it is written or the stall limit has passed, after which the next
flush gives it up (`TxRunsOutOfTime`).

Only model-checked: the liveness properties (`InhibitKillsCoil`,
`SilenceInhibits`, `ReadsEnd`, `ChargesEnd`, `SettlesWhenSafe`,
`TelemetryFlows`, `StateIsShown`, `TxEnds`, `SavesWhenParked`). Every invariant
and every action property of the passing runs is a theorem. No module declares a
RECURSIVE operator.

## 5. Where a property has an exception

Histories mark behaviours in which the code does not keep the property; the
property is stated for the rest, and without the exception TLC refutes it.

- `raced` (Scheduler): a reference edge that preempts a callback has its fresh
  flags and ids overwritten. `FlagsMatchPool` and `QuietCommit` hold until
  then; what matters most (one spark, the cut) holds regardless.
- `raced` (FaultRing): the load and store of `|=` (`faults.c:58`) lose the bit
  the interrupt sets in between, and two pushes may take the same slot.
- `overlapped` (ProfileShadow, ShellV2): a call made while a profile is pending
  writes into the shadow the tick is about to make live, or returns to a stale
  one (`ecu_native.c:190`); when it overlaps the boot's call, that is
  `ipc_init`'s default with its geometry.
- `damaged` (ConfigStore): after a failed write of the active file, the next
  save overwrites the backup, the only good copy, first; a power loss there
  leaves neither.
- `slipped` (EcuV1): a pair armed between `cancel_events` and the write of the
  mode (`main.py:1008-1010`) stays armed through the cut. The coil still stays
  off until a promotion, and the contract holds.
- `unsure` (ShellV2): after a save that returned False the flash holds one of
  two profiles, and which one is not known.
- `dropped` (DashMenu): a COMMIT clears `ecu_cfg_dirty` when it is only queued
  (`main.py:2166`); if the transmission stalls, the values are called clean and
  were never sent, and only the status line says so. The exception lasts until
  a COMMIT has been sent whole or the dash starts again.
- `loaded` (DashMenu): `ecu_cfg_dirty` starts as False (`main.py:1085`) and is not
  saved. Values edited, saved on leaving the menu (`main.py:2197-2205`, which
  sends no more than an APPLY) and never COMMITted are called clean after a power
  cycle. The exception ends with the first edit.
- `pc = "halted"` (ConfigV1): once `sanitize_profile` has raised, nothing is
  settled and no telemetry leaves until the power is cycled. `ShellV2` has no
  liveness property; its invariants hold at the end of the shell as before it.
- `unsaved` (DashMenu): a reset whose save fails does not set `settings_dirty`;
  the defaults are lost at the next power loss unless the periodic save runs.
- `failed` (DashStore): when both renames fail, the handler removes the
  temporary file after the good file has been removed, and no copy is left.
  With fewer than two failures since the last good save the odometer is kept.
- demo mode switched on inside a frame (DashStore): the parser is not run in
  demo mode, so it never gets back between frames and no periodic save is made
  (`main.py:1849`).

## 6. Claims the code does not keep

Each is a definition, with the quotation. `NothingSkipped` is the run
`cfg_framing`; where the last column names a configuration, it shows the claim
refuted.

| claim | where | definition |
|---|---|---|
| leaving the menu and ECMT send the ECU a configuration | `PROJECT_MANUAL.md:1852` | `NothingSkipped` (`CfgFraming`) |
| the dwell has a hard limit | `ecu_types.h:68` | `ChargeHasAnEnd`, `MCScheduler_Charge.cfg` |
| the sync timeout means no edges | `ecu_types.h:77` | `TimeoutIsSilence`, `MCCrankClaims.cfg` |
| `read_state` is a seqlock-safe snapshot | `ecu_native.c:36` | `SnapshotIsSafe`, `MCTelemetrySeqlock_Safe.cfg` |
| the fault ring has a single producer | `ipc.c:56` | `SingleProducer`, `MCFaultRing_Log.cfg` |
| "TMAP clean": the values are those sent | `dash/main.py:2289` | `TmapClean` (`DashMenu`) |
| a PREVIEW only validates and sanitizes | `PROJECT_MANUAL.md:1284` | `LoopGoesOn` (`ConfigV1`) |
| a push is applied or rejected with a status | `ARCHITECTURE.md:396` | `ShellGoesOn` (`ShellV2`) |
| no half-applied profile reaches the scheduler | `ARCHITECTURE.md:397` | `LiveProfileWhole`, `MCProfileShadow_Whole.cfg` |
| a geometry answered "geometry stored" is stored | `ecu/main.py:797` | `GeometryStored` (`ConfigV1`) |
| the profile is swapped with no alarm armed | `ipc.c:83` | `CommitOnlyWhenQuiet` |
| no charge once inhibit is active | `scheduler.c:73` | `NoChargeUnderInhibit` |
| a counted spark collapsed a charged coil | `scheduler.h:43` | `SparkHadCharge` |
| the noise streak is consecutive | `PROJECT_MANUAL.md:995` | `NoiseStreakConsecutive` |
| lock needs consecutive edges | `PROJECT_MANUAL.md:996` | `SyncedByConsecutiveEdges` |
| the reference is pinned to the gap | `PROJECT_MANUAL.md:799` | `ReferencePinnedToGap` |

*The configuration frame.* The dash's header has eleven bytes after the two
start bytes and its last two are the payload length (`dash/main.py:2687-2693`,
as the manual says at 1189-1197). Both ECUs take the header for ten bytes and
the length from `buf[10]` and `buf[11]` (`ecu/main.py:1231`,
`ecu_v2/micropython/main.py:267`), which are the last byte of the time stamp and
the first of the length. A payload of some 180 bytes is taken for one of 46 KB,
which the reader waits for, across later frames, and then drops. The theorem
`NoFrameIsHandled` says that no frame of the dash, of any legal length, is ever
handled. `ConfigV1` and `ShellV2` show what the handlers would do if it were.

To see one of the others fail, name it in the PROPERTY line of a copy of
`MCScheduler_Charge.cfg` or `MCCrankClaims.cfg`, or in the INVARIANT line of a
copy of the passing configuration of its module. `TmapClean` fails in an initial
state (what an earlier run of the dash left), and after an edit, a save and a
power cycle.

Seen while reading: `ECU_IPC_MAGIC` is `0xB1KE2EC0u` (`ipc.h:114`), which is
not a C constant.

## 7. Not modelled

- the ECU life cycle (`ecu_core.c` start and stop): the hand-over of the alarm
  pool to Core 1 and its teardown; what runs in between is modelled;
- the maps' interpolation, `_normalize_map` and the ranges of
  `sanitize_profile`: pure functions of numbers. `ShellV2` and `ConfigV1` have
  the one clamp that the configuration's control needs;
- v1's decoder by teeth (`EcuV1` keeps whether a period is known; `Crank` has
  the counting of v2, which is the same algorithm);
- the dash's rpm and speed filters, temperature and link-badge text, history
  graph and OLED drawing: no control depends on them beyond what `DashStore`
  and `DashLink` keep;
- the single TLVs of a telemetry payload, the status text of a configuration
  answer, the v1 ECU as DashLink's sender (its frames and their cutting are in
  `ConfigV1`);
- the PIO program, build files and documents.

In the code but unreachable, and so absent: "CFG too big" and "CFG no UART"
(`dash/main.py:2671-2682`), since the payload of the compact keys stays below
255 bytes and the UART is always there.

Weak-memory effects beyond what the fences order, flash wear and the contents
of fault entries (rpm, period) are outside the models.

## 8. Plan

1. Proofs: variants for the other liveness properties, where a step always
   takes the system closer (`ChargesEnd`, `SavesWhenParked`, `SilenceInhibits`).
2. `EcuLifecycle`: start and stop over the two cores.
3. `ProfileRules`: `sanitize_profile`, `_normalize_map` and the maps as
   functions, against reference definitions; the dash's clamps and the ECU's
   agree on every value the menu can reach.
4. Composition of `Crank` and `Scheduler` in one module; lock-on for a steady
   signal.
5. Composition of `DashMenu` with `ConfigV1` over the line, once a frame of the
   dash can reach a handler.
