# TLA+ models of the gobennu field device

This directory models the run-time concurrency of a gobennu field device
(`src/src/gobennu/devices/...`):

- the tag memory,
- the cycle that freezes the memory, runs the logic, flushes outputs and
  thaws it,
- the input goroutine that applies simulator publications,
- the SunSpec Modbus handlers.

All four share one `memory.Memory` and its two locks. Before any of them
runs, the start-up path configures them from the XML file:
`bennu.ParseConfigFile` hands the `<field-device>` element to
`FieldDevice.HandleTreeData`, which fills the memory and the modules, then
starts the inputs, the outputs, the ticker and the outstations.

## The system

| Part | Code | Runs as |
|---|---|---|
| Tag memory | `devices/modules/memory/memory.go` | shared object. It has two locks: `callerLock` (the embedded `sync.Mutex`) and the map lock `mutex` (a `sync.RWMutex`). |
| Cycle engine | `devices/field-device/field-device.go:104-136` | one ticker goroutine: `Freeze`, `logic.Execute`, `outputs.Update`, `Unfreeze` |
| Logic evaluator | `devices/modules/logic/logic.go` | called by the cycle. It snapshots the points, evaluates the program and writes the results back. |
| Output module | `devices/modules/io/output-module.go` | called by the cycle. It takes `callerLock`, drains the pending outputs into a batch, unlocks, then calls `Commit`. |
| Updater | `distributed/zmq-updater.go` | `Commit` sends one message and waits for ACK or ERR. |
| Subscriber and input module | `distributed/zmq-subscriber.go`, `distributed/point.go`, `devices/modules/io/input-module.go` | The subscriber parses the published points. An input goroutine sets the device readings. |
| Start-up | `bennu.go`, `field-device.go:42-145`, the modules' `HandleTreeData` and `Init` | the main goroutine: parse, configure, start, then wait for cancellation |
| SunSpec outstation | `devices/modules/comms/sunspec/{handlers,register,sunspec}.go` | The read handler (fn 3) and the write handler (fn 16). The write handler holds `callerLock` for the whole request. |

How they interact. Every reader and writer goes through the memory's
map lock, one map operation at a time. Two callers also take `callerLock`
to group operations: the output flush and the Modbus write handler. `Freeze`
and `Unfreeze` take `callerLock` as well.

## Modules

- **`Memory.tla`** models the state and method bodies of `memory.go`.
  - The per-kind Go maps (`updatedBinaryTags`/`updatedAnalogTags`, …)
    become one function over all tags. `NoValue` stands for an absent
    entry.
  - State:
    - `updated`: the pending outputs.
    - `internal`: the internal tags.
    - `device`: the device readings.
    - `frozen`, `frozenUpdated` and `frozenInternal`: the freeze state and
      the shadow maps.
  - Operations:
    - `UpdateTag`: `UpdateBinaryTag`/`UpdateAnalogTag`.
    - `SetDevice`: `SetXDevice…`.
    - `Freeze`.
    - `UnfreezeMerge` and `UnfreezeClear`: `Unfreeze`.
    - `DrainStep` and `DrainResult`: the `UpdateXDevices` loop. The loop is
      a fold over one ordering of the pending tags, because Go map order is
      arbitrary.
  - No locking is modelled here.
- **`FieldDevice.tla`** extends `Memory` and adds three threads (`cycle`,
  `input`, `modbus`) plus the simulator as the environment.
  - The locks are modelled with Go's `RWMutex` semantics:
    - `Lock` first takes the writer slot (`wOwner`), which at once blocks
      new `RLock`s.
    - It then waits for the readers already in (`readers`) to leave
      (`Drained`).
    - So every `Lock` is two actions: `…Lock` takes the slot and `…Do`
      does the write.
  - Each thread has a `pc`. The actions follow the code's calls in order:
    - **cycle:** `Tick`, `FreezeMemory`, `BeginPoints`, `ReadExternalPoint`
      (the nested `GetXForTag` call, with its own `RLock`), `EndPoints`,
      `Evaluate`, `WriteBackLock`/`WriteBackTag`, `BeginFlush`,
      `DrainLock`, `UpdateBinaryDevices`/`UpdateAnalogDevices`, `Commit`,
      `Reply`/`ReplyLost`, `BeginUnfreeze`, `MergeShadows`, `Thaw`.
    - **input:** `Receive` (subscriber plus `NewPointDataFromPoint`),
      `Classify`, `SetDeviceLock`, `SetDeviceDo`.
    - **modbus:** `Request`, `WriteLock`, `WriteRegister`, `WriteAnalog`
      (UpdateAnalogTag), `WriteBinaryLock`/`WriteBinary` (the
      `value != 0` fallback), `ReadRegister`, `ReadAnalog`, `ReadBinary`.
    - **simulator:** `Publish`, `Physics`, and the ACK, ERR or lost reply
      of `Reply`/`ReplyLost`.
  - Abstractions:
    - An expression is a value of its tag's kind, or a failure.
    - `Register.Value` of a decodable type is a value in `AnalogValues`.
      `SunSpecHandlers` models the bytes.
    - A published point's text is its value, plus whether a number is
      written without a fraction. That is all `ParseBool`/`ParseFloat` can
      tell apart.
  - Ghost variables: `lastWrite` and `lastOutput` record the last value
    that an `UpdateXTag` accepted.
  - The simulator's reply to `Commit` is a separate step (`Reply`): ACK,
    ERR, or, when `RepliesMayBeLost`, no reply at all (`ReplyLost`).
    `RecvMessage(0)` has no timeout, so the cycle then stays in Commit.
  - A write to a register whose type `Register.Value` cannot decode ends the
    request with SlaveDeviceFailure. `Length` and `Decodes` come from
    `Register` (`Reg == INSTANCE Register`).
  - The refinement mapping onto `FrozenStore` (`LogicalInternal`,
    `StoreFrozen`) and the fairness (`Fairness`, `LiveSpec`) are at the end
    of the actions.
- **`FrozenStore.tla`** is the abstract specification of what the freeze
  promises for the internal tags. It has a logical `store` that every
  accepted write changes at one tag, the `view` the getters return, and
  `frozen`. Its actions are `Write(t)`, `Freeze` and `Thaw`. While not
  frozen the view is the store. While frozen the view stays put, and
  `Thaw` makes every write visible at once. `FieldDevice` maps onto it:
  - `store` is the shadow entry over the primary entry while frozen;
  - `view` is the primary map `internal`;
  - `frozen` lasts until Unfreeze's merge loops have run.

  The concrete `Thaw` (`frozen = false`) is then a stuttering step.
- **`Register.tla`** models `register.go`: `Length`, `Decodes`, `Bytes` and
  `Value` for the integer types.
  - A memory value is fixed-point: an integer count of units of
    10^-`Decimals`.
  - `Scale` truncates toward zero, as Go's float-to-integer conversion
    does.
  - `BigEndian` and `TwosComplement` are `binary.Write` and `binary.Read`,
    computed byte by byte so that 32- and 64-bit registers stay within
    TLC's integers.
  - `Convert` is `uintN(f)` or `intN(f)` as gc compiles it. 16-bit types
    are converted through int32 and uint32 through int64, and the low
    bytes are kept (`Via`, `LowBytes`). Past the wider type the result is
    implementation-defined, so the build chooses. arm64 saturates and
    amd64 gives the "integer indefinite" 0x80..0. TLC's integers stay
    inside int32, so on every value checked the two builds agree and both
    keep the low bytes.
- **`SunSpecHandlers.tla`** models the register loops of `readHandler` and
  `writeHandler` as RECURSIVE operators (`ReadLoop`, `WriteLoop`). They
  compute the response bytes and the memory after a request, with every
  exit of the loops, including a loop that never returns. mbserver
  frames a request inside a fresh 512-byte packet, with `data =
  packet[8:]`. So `data[b:e]` past the end of the frame reads zeros
  (`Padded`), and it panics only past the packet (`PayloadCapacity`).
  Its state is one request, one memory and one build, none of
  which changes. The properties are invariants over all of them.
- **`Configuration.tla`** models the start-up path.
  - An XML element is a record `[tag, text, kids]`. A text is a model
    string, and the constant `Numbers` maps the numerals among them to their
    values. `Atoi`, `ParseFloat` and `ParseDuration` fail on any other text.
  - The parsers are operators that fold over an element's children, in the
    order the Go loops visit them:
    - `MemoryHandleTreeData`, `HandleExternalTag`, `HandleInternalTag`;
    - `IOHandleTreeData` and `HandleEntry` (the input and output modules
      share this code);
    - `CommsHandleTreeData`, `RTUHandleTreeData`, `HandleRegister` (with
      `HasTag`).
  - The actions follow the main goroutine:
    - `ParseChild`: the dispatch loop of `ParseConfigFile`;
    - `HandleChild`: one case of `FieldDevice.HandleTreeData`'s switch;
    - `InitInputs`: the subscriber's `Init` (`SubscriberInit`), then one
      `SubscribeToPoint` per name `GetDevicePoints` returns;
    - `StartInputsInitOutputs`: the updater's `Init` (`UpdaterInit`);
    - `StartTicker`: `time.NewTicker` panics for a zero cycle time;
    - `StartComms`;
    - `Cancel` and `Return`.
  - Socket binds, connects and listens may fail, so each is a `\E` over
    `BOOLEAN`. Compiling the logic is abstracted to whether the text is
    `"uncompilable"`.
- **`MCConfiguration.tla`** gives 13 configuration files. The full one has:
  - two binary entries and an analog entry in `<input>`;
  - in `<output>`, an analog entry whose `<name>` comes before its `<id>`,
    and a binary entry with two `<name>`s;
  - an internal tag;
  - an outstation with two registers.

  The other files are broken variants:
  - `<comms>` before `<tags>`;
  - a non-field-device child first;
  - no `<input>`, or no `<output>`;
  - no `<cycle-time>`, or a bad one;
  - a bad internal value;
  - an unknown child;
  - an id reused by `<output>`, together with logic that does not compile;
  - a register without an address;
  - two field devices;
  - no field device at all.
- **`MCFieldDevice.tla`** is the configuration.
  - It has one binary output `tB`, one analog output `tA`, and one external
    tag `tU` whose IO module is unbound.
  - It has an internal analog tag `iA`, and an analog input device `dI`
    that `Physics` moves.
  - The program is `tA = …; iA = …`.
  - The registers are 1→iA, 2→tA, 3→tB, 5→tU, with 4 unmapped.
  - `MCNoProgram` and `MCRegTypeSunssf` serve the liveness runs.
- **`MCSunSpecHandlers.tla`** holds the register maps:
  - the main one: int16, uint32, acc16 (scaling 1), enum16 over a binary
    tag, acc64 and int32 (scaling -1), with registers 3 and 12 unmapped;
  - `Wide`: 32 acc64 registers;
  - `Short`: one uint32 register.

## Runs

| Run | cfg | Expect | What it shows |
|---|---|---|---|
| field_device_safety | `MCFieldDevice.cfg` | pass | Over 2 cycles, 1 Modbus request (any of 5), 1 publication and 1 input change, all interleaved, with ACK, ERR and lost replies:<br>• `ThawKeepsLastWrite`: outside a freeze, every internal tag holds the last accepted write.<br>• `WriteRequestAtomic`: no drain or merge runs inside a Modbus write request.<br>• `FrozenStoreRefined`: the internal tags implement `FrozenStore`.<br>• `FDTypeOK`. |
| field_device_liveness | `MCFieldDeviceLive.cfg` | pass | Under `Fairness`, with a one-line program, one three-register write, ACK or ERR replies and no lost ones. The RLock wait cycle of `rwmutex_deadlock` is reachable in this configuration, so each property excuses it explicitly:<br>• `CycleCompletesOrDeadlocks`: every started cycle returns to idle unless the goroutines are in a wait cycle.<br>• `RequestCompletesOrDeadlocks`: every Modbus request is answered unless the goroutines are in a wait cycle, including a write that fails on a sunssf register. |
| rwmutex_deadlock | `MCFieldDeviceDeadlock.cfg` | violation | The recursive `RLock` in `getBinaryPoints` gives a wait-for cycle between the cycle and a Modbus write (`NoWaitCycle`). |
| unfreeze_map_race | `MCFieldDeviceMapRace.cfg` | violation | The logic writes an internal analog tag during a freeze, so `Unfreeze` has a shadow entry to copy. It writes `internalAnalogTags` without the map lock while the Modbus read handler reads that map for an internal register (`NoUnlockedMapWrite`). In Go this is a fatal concurrent map access. |
| output_drop_on_err | `MCFieldDeviceOutputDrop.cfg` | violation | An ERR reply to `Commit` loses an output that the drain has already deleted (`OutputNotDropped`). |
| torn_snapshot | `MCFieldDeviceTornSnapshot.cfg` | violation | A subscriber reading changes a device after the logic has read it during a freeze. The env then differs from the memory, so it is not the state of one instant. Spec §5 says subscriber writes during the cycle land in shadow buffers (`SnapshotReadingsFrozen`). |
| reading_parse | `MCFieldDeviceReadingParse.cfg` | violation | An analog reading of 1 published as `"1"` is stored as 0 (`ReadingMatchesPublish`). |
| lost_reply | `MCFieldDeviceLostReply.cfg` | violation | A lost reply leaves the cycle in `RecvMessage(0)` for good, with the memory frozen (`CycleCompletes`). Spec §5 asks that every socket wait, the updater's reply receive included, poll with a bounded timeout. The spec gives this as the way cancellation is observed, and a failed step 3 is logged and does not stop the cycle. |
| register_round_trip | `MCSunSpecHandlers.cfg` | pass | Over 144 memories × 6 read requests × 2 builds (amd64, arm64):<br>• `ReadWriteRoundTrip` (spec §6): writing back the bytes a read returned succeeds, and the range then reads the same bytes.<br>• `WriteBackRestoresStore`: when every value is representable in its register, the write-back restores the memory. |
| read_byte_count_wrap | `MCSunSpecHandlersByteCount.cfg` | violation | A 125-register read of 32 acc64 registers answers with byte count `byte(256) = 0` (`ByteCountMatches`). |
| write_past_frame | `MCSunSpecHandlersFrame.cfg` | violation | A well-formed one-register write to a uint32 register decodes two bytes from past the frame. They are the packet's zeros, so the payload `<<0, 7>>` is stored as 0x00070000 and the write answers Success (`WriteStaysInFrame`). |
| configuration | `MCConfiguration.cfg` | pass | Over the 13 configuration files, with every socket outcome:<br>• `BindingFollowsEntry` (spec §9 open question): each well-formed `<binary>`/`<analog>` entry whose id is its own binds that id to its own device, however many entries a block has and in whatever order their children come.<br>• `ConfTypeOK`. |

Each property of the passing runs has a mutant in `PROJECT.json`: a
plausible bug in the mapped code that TLC finds:

| Mutant | Breaks |
|---|---|
| `Unfreeze` forgetting the internal maps | `ThawKeepsLastWrite` |
| `Update` draining without `callerLock` | `WriteRequestAtomic` |
| A nested `RLock` without its `RUnlock` | `FDTypeOK` |
| `Freeze` keeping the last freeze's internal shadow maps | `FrozenStoreRefined` |
| `writeHandler` returning without unlocking `callerLock` | `CycleCompletesOrDeadlocks` |
| The binary fallback skipping `i = i + reg.Length()` | `RequestCompletesOrDeadlocks` |
| `Bytes` scaling by 10^s instead of 10^-s | `ReadWriteRoundTrip` |
| `Value` reading int16 registers as uint16 | `WriteBackRestoresStore` |
| `handleBinaryInput` binding the id when `<id>` is read, to the name read so far | `BindingFollowsEntry` |
| `handleRegister` mapping a register without storing its scaling | `ConfTypeOK` |

## Bounds

`FieldDevice` is checked with `MaxCycles = 2`, `MaxRequests = 1`,
`MaxPublishes = 1`, `MaxPhysics = 1` and `AnalogValues = {0, 1}`:

- Two cycles let a write made during one freeze be merged and then
  drained in the next cycle.
- One request of five shapes covers:
  - a write over internal, analog and binary registers;
  - a write that stops at the unmapped register 4;
  - reads that take the analog path, the binary fallback, and the
    SlaveDeviceFailure of the unbound tag.
- Two values are enough to tell changed from unchanged outputs.

The safety run reaches 2.3M distinct states in about two minutes. The
liveness run checks temporal properties over every behaviour, so it is
smaller: one cycle, a one-line program (`MCLiveProgram`), one write over
the internal, analog and binary registers (`MCLiveRequests`), ACK or ERR
replies, and no physics. That is about 45K states in under a minute. The
program makes the cycle go through the points and their nested `RLock`,
and the write takes the caller lock and the map lock per register. The
RLock wait cycle is reachable in this configuration (`NoWaitCycle` fails
under `Spec` in it), so the "or deadlocks" disjunct is not vacuous. In that
run the unbound tag's register is typed sunssf, so a write to it takes the
decode-failure exit. Between them, the two pass runs fire every action and
every disjunct (checked with `-coverage`).

`SunSpecHandlers` is checked with `Decimals = 1` (tenths) and scalings -1,
0 and 1, over every type width and signedness. The stored values include a
negative value, a value too large for int16, and a value that acc16's
scaling truncates. The byte-count run needs 256 data bytes. That is the
smallest count that wraps, and a 125-register read of acc64 registers
reaches it.

`Configuration` is checked over 13 files and about 120 states. The files
include entries with their children in either order, a block with two
entries of one kind, an entry with two names, and an id that both blocks
declare. Every child case, every error return and every start-up step is
reached in some file. Deadlock checking is off for this run too: after
`main` returns, the program has ended.

Deadlock checking is off in the `FieldDevice` runs (`CHECK_DEADLOCK FALSE`)
for two reasons:

- The code really can block, as the `rwmutex_deadlock` and `lost_reply`
  findings show.
- Every bounded behaviour ends in a state with nothing enabled.

`SunSpecHandlers` has only stuttering steps, so it never deadlocks.

## Fairness

`LiveSpec` adds strong fairness to the steps of each goroutine: the cycle,
the input goroutine, and the Modbus handler serving a request. Three
things in the code justify it:

- Go's scheduler runs every runnable goroutine.
- `sync.Mutex` hands the lock to a waiter that has waited over 1 ms.
- `sync.RWMutex` admits the waiting readers before the next writer.

So a goroutine that is enabled infinitely often gets the lock it waits
for. Nothing forces a master to send requests or the simulator to publish
(`Request`, `Publish` and `Physics` carry no fairness). A reply that is
lost never comes, which is the `lost_reply` run.

## Not modelled

- String tags and the string register types: nothing calls
  `UpdateStringTag`.
- `float32` registers: they need IEEE single-precision arithmetic.
- float64 rounding in `Bytes`. For example, 0.29 × 100 is
  28.999999999999996 and encodes as 28. TLC's integers cannot hold
  53-bit mantissas, so this stays a hazard with no property.
- Reading the XML file, the CLI flags and `distributed/options.go`. The
  `Configuration` module starts from the parsed tree. `FieldDevice` starts
  from one configuration as MC constants, rather than from the state
  `Configuration` leaves.
- `main`'s exit status. `cmd/main.go` ignores the error `app.Run` returns,
  so a configuration error exits with status 0. Spec §6 asks for a non-zero
  status. This is I/O of the CLI library, outside the model.
- Ids shared between `<input>` and `<output>`. Both blocks write to the
  same `binaryModules`/`analogModules` maps, so the later block wins.
  `BindingFollowsEntry` therefore only speaks of ids declared once.
- Spec 8.1 asks that a tag name belongs to one namespace. The
  configuration code does not enforce this, and no property states it.
- The text of logic programs. `FieldDevice` abstracts a program to its
  sequence of left-hand sides. Reading `logic.go:64-65` against spec 4.3
  shows a divergence that no run checks: a left-hand side assigned twice
  keeps only its last expression, and that expression is evaluated at both
  positions.
- Two external tags on one device. The drain's result then depends on Go
  map order (`memory.go:362`). The spec neither forbids this case nor says
  what the drain should do in it, and the MC configurations bind one tag
  per device.
- The sunssf write failure. `Register.Value` has no sunssf case. The
  liveness run shows that such a write still completes.
- mbserver itself. `SunSpecHandlers` takes from it only the 512-byte
  packet that frames a request. What it does with a handler's panic is
  outside this repository.
- Logging, cancellation, and the build-ignored `mock.go`.
- Expression evaluation.

`PROJECT.json` lists the hazards these leave uncovered.

## Plan for the next steps

1. **Two tags per device.** Make drain order matter, and add a pass
   property that the batch carries each device's latest output.
2. **Composition.** Feed `SunSpecHandlers`' write results into
   `FieldDevice`'s `WriteAnalog`, in place of the abstract `AnalogValues`.
3. **A fault model for the subscriber.** Duplicated and reordered
   publications.
