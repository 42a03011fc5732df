---------------------------- MODULE FieldDevice ----------------------------
(***************************************************************************)
(* A field device at run time (devices/field-device/field-device.go): the  *)
(* goroutines that share one Memory, and the two locks that order them.    *)
(*                                                                         *)
(*   cycle   the ticker goroutine: Freeze, LogicModule.Execute,            *)
(*           OutputModule.Update (drain + batch Commit), Unfreeze;         *)
(*   input   InputModule.Start: moves published points into the devices;  *)
(*   modbus  the SunSpec handlers for function codes 3 and 16.             *)
(*                                                                         *)
(* The simulator is the environment: it publishes device readings,         *)
(* changes its input points, and answers each batch with ACK or ERR.       *)
(*                                                                         *)
(* Locks.  callerLock is the sync.Mutex embedded in Memory.  The map lock  *)
(* Memory.mutex is a sync.RWMutex with Go's semantics: Lock first takes    *)
(* the writer slot (wOwner), which at once stops new RLocks, then waits    *)
(* until the readers already in have left.  A method that holds the map   *)
(* lock for one map operation is one step; the sections that span several *)
(* steps (a snapshot, a Modbus request, a flush, Unfreeze) are split.      *)
(***************************************************************************)
EXTENDS Memory

CONSTANTS
    Program,         \* LogicModule.order: the left-hand sides, in order
    Registers,       \* SunSpecRTU.registers: address -> tag
    RegType,         \* SunSpecRTU.types: tag -> SunSpec type
    Requests,        \* Modbus requests a master may send: [fn, start, count]
    OutputDevices,   \* devices named in <output>: the simulator takes writes
    MaxCycles,       \* ticks of the cycle ticker
    MaxPublishes,    \* points the simulator publishes
    MaxRequests,     \* Modbus requests served
    MaxPhysics,      \* changes of input points inside the simulator
    SimulatorRejects, \* whether the simulator may answer a batch with ERR
    RepliesMayBeLost  \* whether the reply to a batch may never arrive

Cycle  == "cycle"
Input  == "input"
Modbus == "modbus"
Threads == {Cycle, Input, Modbus}
NoThread == "none"

VARIABLES
    pc,            \* [Threads -> program location]
    callerLock,    \* holder of the embedded sync.Mutex
    wOwner,        \* holder of the RWMutex writer slot
    readers,       \* [Threads -> RLocks held]
    cycles,        \* ticks so far
    snap,          \* Execute: env built from GetBinaryPoints/GetAnalogPoints
    todo,          \* tags the running getXPoints loop has still to read
    results,       \* Execute: results still to be written back
    batch,         \* OutputModule.Update: the zmqBatchUpdater's updates
    pubs,          \* points published, not yet taken by the input goroutine
    point,         \* the PointData the input goroutine is handling
    published,     \* points published so far
    req,           \* the Modbus request being served
    reg,           \* its register loop index i
    mbValue,       \* the value decoded for register i
    served,        \* Modbus requests served so far
    simValue,      \* the simulator's value of each device
    physics,       \* input-point changes so far
    lastWrite,     \* ghost: last value an UpdateTag accepted, per internal tag
    lastOutput     \* ghost: last value an UpdateTag accepted, per external tag

lockVars  == <<callerLock, wOwner, readers>>
logicVars == <<snap, todo, results>>
inVars    == <<pubs, point, published>>
mbVars    == <<req, reg, mbValue, served>>
simVars   == <<simValue, physics>>
ghostVars == <<lastWrite, lastOutput>>
vars == <<memVars, pc, lockVars, cycles, logicVars, batch, inVars, mbVars,
          simVars, ghostVars>>

\* Register.Length and the types Register.Value decodes (register.go); the
\* values themselves are abstracted here, so the codec's precision is moot.
Reg == INSTANCE Register WITH Decimals <- 0

\* String tags are not modelled, so no register is of a string type (those
\* read GetStringValueForTag).
ASSUME \A t \in DOMAIN RegType : RegType[t] \notin {"string8", "string16"}

Tags == ExtTags \cup IntTags
LogicTags == {Program[i] : i \in DOMAIN Program} \cap Tags
NoPoint == [Name |-> NoValue, Status |-> FALSE, Value |-> 0, sent |-> NoValue]
NoRequest == [fn |-> "none", start |-> 0, count |-> 0]

DeviceValues(d) == IF d \in BinaryDevices THEN BOOLEAN ELSE AnalogValues
DeviceKind(d) == IF d \in BinaryDevices THEN "binary" ELSE "analog"

FDTypeOK ==
    /\ TypeOK
    /\ callerLock \in Threads \cup {NoThread}
    /\ wOwner \in Threads \cup {NoThread}
    /\ readers \in [Threads -> 0..2]
    /\ cycles \in 0..MaxCycles
    /\ DOMAIN snap \subseteq Tags /\ TagMap(snap, DOMAIN snap, FALSE)
    /\ todo \in SUBSET ExtTags
    /\ DOMAIN results \subseteq LogicTags /\ TagMap(results, DOMAIN results, FALSE)
    /\ \A i \in DOMAIN batch : batch[i][1] \in Devices /\ batch[i][2] \in DeviceValues(batch[i][1])
    /\ \A i \in DOMAIN pubs : /\ pubs[i].name \in Devices
                             /\ pubs[i].bit \in BOOLEAN /\ pubs[i].plain \in BOOLEAN
                             /\ pubs[i].num \in AnalogValues
    /\ published \in 0..MaxPublishes
    /\ served \in 0..MaxRequests
    /\ DOMAIN simValue = Devices /\ \A d \in Devices : simValue[d] \in DeviceValues(d)
    /\ TagMap(lastWrite, IntTags, FALSE)
    /\ TagMap(lastOutput, ExtTags, TRUE)

Init ==
    /\ MemInit
    /\ pc = [t \in Threads |-> "idle"]
    /\ callerLock = NoThread
    /\ wOwner = NoThread
    /\ readers = [t \in Threads |-> 0]
    /\ cycles = 0
    /\ snap = <<>>
    /\ todo = {}
    /\ results = <<>>
    /\ batch = <<>>
    /\ pubs = <<>>
    /\ point = NoPoint
    /\ published = 0
    /\ req = NoRequest
    /\ reg = 0
    /\ mbValue = 0
    /\ served = 0
    /\ simValue = device
    /\ physics = 0
    /\ lastWrite = internal
    /\ lastOutput = [t \in ExtTags |-> NoValue]

-----------------------------------------------------------------------------
(* The RWMutex.                                                            *)

\* RLock goes through only while no writer holds the writer slot.
CanRLock == wOwner = NoThread
\* Lock, once it holds the writer slot, waits for the readers to leave.
Drained == \A t \in Threads : readers[t] = 0

Goto(t, l) == pc' = [pc EXCEPT ![t] = l]

\* An UpdateTag that succeeds, with the ghosts that remember it.
Write(k, t, v) ==
    /\ UpdateTag(k, t, v)
    /\ lastWrite' = IF t \in IntTags THEN [lastWrite EXCEPT ![t] = v] ELSE lastWrite
    /\ lastOutput' = IF t \in ExtTags THEN [lastOutput EXCEPT ![t] = v] ELSE lastOutput

-----------------------------------------------------------------------------
(* The cycle goroutine: the ticker loop of FieldDevice.HandleTreeData.     *)

Tick ==
    /\ pc[Cycle] = "idle" /\ cycles < MaxCycles
    /\ cycles' = cycles + 1
    /\ Goto(Cycle, "freeze")
    /\ UNCHANGED <<memVars, lockVars, logicVars, batch, inVars, mbVars,
                   simVars, ghostVars>>

\* this.memory.Freeze(), which takes and releases the caller lock.  Execute
\* returns at once when the program is empty.
FreezeMemory ==
    /\ pc[Cycle] = "freeze" /\ callerLock = NoThread
    /\ Freeze
    /\ Goto(Cycle, IF Program = <<>> THEN "flush" ELSE "snapBinary")
    /\ UNCHANGED <<lockVars, cycles, logicVars, batch, inVars, mbVars, simVars,
                   ghostVars>>

\* GetBinaryPoints / GetAnalogPoints: RLock for the whole of getXPoints.
BeginPoints(at, to, k) ==
    /\ pc[Cycle] = at /\ CanRLock
    /\ readers' = [readers EXCEPT ![Cycle] = @ + 1]
    /\ todo' = ExtOf(k)
    /\ snap' = IF k = "binary" THEN <<>> ELSE snap
    /\ Goto(Cycle, to)
    /\ UNCHANGED <<memVars, callerLock, wOwner, cycles, results, batch, inVars,
                   mbVars, simVars, ghostVars>>

\* Mutant: the nested getter's RLock is never released.
ReadExternalPointLeaking(at, k) ==
    /\ pc[Cycle] = at /\ todo # {} /\ CanRLock
    /\ \E t \in todo :
         /\ todo' = todo \ {t}
         /\ snap' = IF Readable(k, t) THEN snap @@ (t :> ReadTag(t)) ELSE snap
    /\ readers' = [readers EXCEPT ![Cycle] = @ + 1]
    /\ UNCHANGED <<memVars, pc, callerLock, wOwner, cycles, results, batch,
                   inVars, mbVars, simVars, ghostVars>>

\* One iteration over the external tags.  getXPoints calls the exported
\* GetBinaryStatusForTag / GetAnalogValueForTag, which RLocks the map lock
\* a second time; a tag that does not resolve is left out of the points.
ReadExternalPoint(at, k) ==
    /\ pc[Cycle] = at /\ todo # {} /\ CanRLock
    /\ \E t \in todo :
         /\ todo' = todo \ {t}
         /\ snap' = IF Readable(k, t) THEN snap @@ (t :> ReadTag(t)) ELSE snap
    /\ UNCHANGED <<memVars, pc, lockVars, cycles, results, batch, inVars,
                   mbVars, simVars, ghostVars>>

\* The loop over the internal tags, then RUnlock.
EndPoints(at, k, to) ==
    /\ pc[Cycle] = at /\ todo = {}
    /\ snap' = snap @@ [t \in IntOf(k) |-> internal[t]]
    /\ readers' = [readers EXCEPT ![Cycle] = @ - 1]
    /\ Goto(Cycle, to)
    /\ UNCHANGED <<memVars, callerLock, wOwner, cycles, todo, results, batch,
                   inVars, mbVars, simVars, ghostVars>>

\* The program loop of Execute.  Expressions are not modelled: a line
\* yields a value of its tag's kind, or fails, and a failure returns before
\* anything is written back.  Results for names outside the env's tags are
\* discarded, so only the tags in snap are kept.
Evaluate ==
    /\ pc[Cycle] = "evaluate"
    /\ \/ LET env == LogicTags \cap DOMAIN snap
              IN  \E rb \in [{t \in env : KindOfTag(t) = "binary"} -> BOOLEAN],
                     ra \in [{t \in env : KindOfTag(t) = "analog"} -> AnalogValues] :
                     results' = rb @@ ra
          /\ Goto(Cycle, "writeBack")
       \/ /\ results' = <<>>
          /\ Goto(Cycle, "flush")
    /\ UNCHANGED <<memVars, lockVars, cycles, snap, todo, batch, inVars, mbVars,
                   simVars, ghostVars>>

\* The write-back loop over results: UpdateBinaryTag for a tag of the binary
\* points, UpdateAnalogTag for one of the analog points; each call is a
\* Lock of the map lock (take the writer slot, then wait for the readers).
WriteBackLock ==
    /\ pc[Cycle] = "writeBack"
    /\ \/ /\ DOMAIN results # {} /\ wOwner = NoThread
          /\ wOwner' = Cycle
          /\ Goto(Cycle, "writeBackDo")
       \/ /\ DOMAIN results = {}
          /\ wOwner' = wOwner
          /\ Goto(Cycle, "flush")
    /\ UNCHANGED <<memVars, callerLock, readers, cycles, logicVars, batch,
                   inVars, mbVars, simVars, ghostVars>>

WriteBackTag ==
    /\ pc[Cycle] = "writeBackDo" /\ Drained
    /\ \E t \in DOMAIN results :
         /\ Write(KindOfTag(t), t, results[t])
         /\ results' = [x \in DOMAIN results \ {t} |-> results[x]]
    /\ wOwner' = NoThread
    /\ Goto(Cycle, "writeBack")
    /\ UNCHANGED <<callerLock, readers, cycles, snap, todo, batch, inVars,
                   mbVars, simVars>>

\* Mutant: Update drains without taking the caller lock.
BeginFlushUnlocked ==
    /\ pc[Cycle] = "flush"
    /\ batch' = <<>>
    /\ Goto(Cycle, "drainBinary")
    /\ UNCHANGED <<memVars, lockVars, cycles, logicVars, inVars, mbVars,
                   simVars, ghostVars>>

\* OutputModule.Update: a new batch, then memory.Lock() (the caller lock).
BeginFlush ==
    /\ pc[Cycle] = "flush" /\ callerLock = NoThread
    /\ callerLock' = Cycle
    /\ batch' = <<>>
    /\ Goto(Cycle, "drainBinary")
    /\ UNCHANGED <<memVars, wOwner, readers, cycles, logicVars, inVars, mbVars,
                   simVars, ghostVars>>

\* The Lock at the top of UpdateBinaryDevices / UpdateAnalogDevices.
DrainLock(at, to) ==
    /\ pc[Cycle] = at /\ wOwner = NoThread
    /\ wOwner' = Cycle
    /\ Goto(Cycle, to)
    /\ UNCHANGED <<memVars, callerLock, readers, cycles, logicVars, batch,
                   inVars, mbVars, simVars, ghostVars>>

\* The drain loop, in some order of the Go map, with the batch's
\* UpdateBinaryField / UpdateAnalogField as its yield.
DrainDevices(k) ==
    /\ Drained
    /\ \E order \in SetToSeqs(PendingOf(k)) :
         LET r == DrainResult(order, batch)
         IN  /\ updated' = r.updated
             /\ device' = r.device
             /\ batch' = r.batch
    /\ wOwner' = NoThread
    /\ UNCHANGED <<internal, frozen, frozenUpdated, frozenInternal, readers,
                   cycles, logicVars, inVars, mbVars, simVars, ghostVars>>

UpdateBinaryDevices ==
    /\ pc[Cycle] = "drainBinaryDo"
    /\ DrainDevices("binary")
    /\ callerLock' = callerLock
    /\ Goto(Cycle, "drainAnalog")

\* ... and memory.Unlock() after the analog drain.
UpdateAnalogDevices ==
    /\ pc[Cycle] = "drainAnalogDo"
    /\ DrainDevices("analog")
    /\ callerLock' = NoThread
    /\ Goto(Cycle, "commit")

\* zmqBatchUpdater.Commit: nothing is sent for an empty batch; otherwise
\* sendUpdateMessage sends it and blocks in RecvMessage(0), with no timeout.
Commit ==
    /\ pc[Cycle] = "commit"
    /\ Goto(Cycle, IF batch = <<>> THEN "unfreeze" ELSE "awaitReply")
    /\ UNCHANGED <<memVars, lockVars, cycles, logicVars, batch, inVars, mbVars,
                   simVars, ghostVars>>

\* The simulator ACKs (and applies every update) or answers ERR, which
\* Update returns and the loop logs.
ApplyBatch(sv, b) == FoldLeft(LAMBDA f, u : [f EXCEPT ![u[1]] = u[2]], sv, b)

Reply ==
    /\ pc[Cycle] = "awaitReply"
    /\ \/ simValue' = ApplyBatch(simValue, batch)
       \/ SimulatorRejects /\ simValue' = simValue
    /\ Goto(Cycle, "unfreeze")
    /\ UNCHANGED <<memVars, lockVars, cycles, logicVars, batch, inVars, mbVars,
                   physics, ghostVars>>

\* The reply is lost: RecvMessage(0) never returns and the cycle goroutine
\* stays in Commit for good.
ReplyLost ==
    /\ pc[Cycle] = "awaitReply" /\ RepliesMayBeLost
    /\ Goto(Cycle, "recvBlocked")
    /\ UNCHANGED <<memVars, lockVars, cycles, logicVars, batch, inVars, mbVars,
                   simVars, ghostVars>>

\* this.memory.Unfreeze(): it takes only the caller lock, not the map lock,
\* while its loops write the primary maps.
BeginUnfreeze ==
    /\ pc[Cycle] = "unfreeze" /\ callerLock = NoThread
    /\ callerLock' = Cycle
    /\ Goto(Cycle, "merge")
    /\ UNCHANGED <<memVars, wOwner, readers, cycles, logicVars, batch, inVars,
                   mbVars, simVars, ghostVars>>

MergeShadows ==
    /\ pc[Cycle] = "merge"
    /\ UnfreezeMerge
    /\ Goto(Cycle, "thaw")
    /\ UNCHANGED <<lockVars, cycles, logicVars, batch, inVars, mbVars, simVars,
                   ghostVars>>

\* Mutant: Unfreeze returns without releasing the caller lock.
ThawKeepingLock ==
    /\ pc[Cycle] = "thaw"
    /\ UnfreezeClear
    /\ Goto(Cycle, "idle")
    /\ UNCHANGED <<lockVars, cycles, logicVars, batch, inVars, mbVars,
                   simVars, ghostVars>>

Thaw ==
    /\ pc[Cycle] = "thaw"
    /\ UnfreezeClear
    /\ callerLock' = NoThread
    /\ Goto(Cycle, "idle")
    /\ UNCHANGED <<wOwner, readers, cycles, logicVars, batch, inVars, mbVars,
                   simVars, ghostVars>>

CycleNext ==
    \/ Tick \/ FreezeMemory
    \/ BeginPoints("snapBinary", "binaryPoints", "binary")
    \/ ReadExternalPoint("binaryPoints", "binary")
    \/ EndPoints("binaryPoints", "binary", "snapAnalog")
    \/ BeginPoints("snapAnalog", "analogPoints", "analog")
    \/ ReadExternalPoint("analogPoints", "analog")
    \/ EndPoints("analogPoints", "analog", "evaluate")
    \/ Evaluate \/ WriteBackLock \/ WriteBackTag
    \/ BeginFlush
    \/ DrainLock("drainBinary", "drainBinaryDo") \/ UpdateBinaryDevices
    \/ DrainLock("drainAnalog", "drainAnalogDo") \/ UpdateAnalogDevices
    \/ Commit \/ Reply \/ ReplyLost \/ BeginUnfreeze \/ MergeShadows \/ Thaw

-----------------------------------------------------------------------------
(* The input goroutine of InputModule.Start.  The subscriber hands it the  *)
(* points of the devices it subscribed to, GetDevicePoints, so a point is  *)
(* always a binary or an analog device.                                    *)

\* A published "name:value" pair.  Its text is abstracted to the value sent
\* (bit for a binary device, num for an analog one) and, for an analog
\* value, whether it is written without a fraction
\* (Go's %v writes 1.0 as "1").  NewPointDataFromPoint tries ParseBool
\* before ParseFloat, and ParseBool also accepts "1" and "0": such a point
\* comes out with Status set and Value left 0.
ParsesAsBool(p) ==
    p.name \in BinaryDevices \/ (p.plain /\ p.num \in {0, 1})

PointData(p) ==
    IF ParsesAsBool(p)
    THEN [Name |-> p.name, Value |-> 0, sent |-> p,
          Status |-> IF p.name \in BinaryDevices THEN p.bit ELSE p.num = 1]
    ELSE [Name |-> p.name, Status |-> FALSE, Value |-> p.num, sent |-> p]

\* The subscriber splits the message, parses each point and hands it over
\* the unbuffered handler channel to the input goroutine.
Receive ==
    /\ pc[Input] = "idle" /\ pubs # <<>>
    /\ point' = PointData(Head(pubs))
    /\ pubs' = Tail(pubs)
    /\ Goto(Input, "classify")
    /\ UNCHANGED <<memVars, lockVars, cycles, logicVars, batch, published,
                   mbVars, simVars, ghostVars>>

\* IsBinaryDevice / IsAnalogDevice: an RLock'd lookup.
Classify ==
    /\ pc[Input] = "classify" /\ CanRLock
    /\ Goto(Input, "setDevice")
    /\ UNCHANGED <<memVars, lockVars, cycles, logicVars, batch, inVars, mbVars,
                   simVars, ghostVars>>

\* SetBinaryDeviceStatus / SetAnalogDeviceValue: Lock, write, Unlock.
SetDeviceLock ==
    /\ pc[Input] = "setDevice" /\ wOwner = NoThread
    /\ wOwner' = Input
    /\ Goto(Input, "setDeviceDo")
    /\ UNCHANGED <<memVars, callerLock, readers, cycles, logicVars, batch,
                   inVars, mbVars, simVars, ghostVars>>

SetDeviceDo ==
    /\ pc[Input] = "setDeviceDo" /\ Drained
    /\ SetDevice(DeviceKind(point.Name), point.Name,
                 IF point.Name \in BinaryDevices THEN point.Status ELSE point.Value)
    /\ wOwner' = NoThread
    /\ Goto(Input, "idle")
    /\ UNCHANGED <<callerLock, readers, cycles, logicVars, batch, inVars,
                   mbVars, simVars, ghostVars>>

InputNext == Receive \/ Classify \/ SetDeviceLock \/ SetDeviceDo

-----------------------------------------------------------------------------
(* The Modbus handlers (comms/sunspec/handlers.go), one request at a time. *)

RegTag == Registers[reg]
InRange == reg < req.start + req.count
Mapped == reg \in DOMAIN Registers
Advance == reg' = reg + Reg!Length(RegType[RegTag])

Request ==
    /\ pc[Modbus] = "idle" /\ served < MaxRequests
    /\ \E r \in Requests :
         /\ req' = r
         /\ reg' = r.start
         /\ Goto(Modbus, IF r.fn = "write" THEN "writeLock" ELSE "read")
    /\ served' = served + 1
    /\ UNCHANGED <<memVars, lockVars, cycles, logicVars, batch, inVars, mbValue,
                   simVars, ghostVars>>

\* writeHandler: the caller lock is held for the whole request.
WriteLock ==
    /\ pc[Modbus] = "writeLock" /\ callerLock = NoThread
    /\ callerLock' = Modbus
    /\ Goto(Modbus, "writeReg")
    /\ UNCHANGED <<memVars, wOwner, readers, cycles, logicVars, batch, inVars,
                   mbVars, simVars, ghostVars>>

\* Mutant: writeHandler returns without unlocking the caller lock.
WriteRegisterKeepingLock ==
    /\ pc[Modbus] = "writeReg"
    /\ \/ /\ ~(InRange /\ Mapped /\ Reg!Decodes(RegType[RegTag]))
          /\ wOwner' = wOwner /\ mbValue' = mbValue
          /\ Goto(Modbus, "idle")
       \/ /\ InRange /\ Mapped /\ Reg!Decodes(RegType[RegTag]) /\ wOwner = NoThread
          /\ \E v \in AnalogValues : mbValue' = v
          /\ wOwner' = Modbus
          /\ Goto(Modbus, "writeAnalog")
    /\ UNCHANGED <<memVars, callerLock, readers, cycles, logicVars, batch, inVars,
                   req, reg, served, simVars, ghostVars>>

\* One pass of the register loop: done (Success), an unmapped register
\* (IllegalDataAddress, registers before it stay written), a type
\* Register.Value cannot decode (SlaveDeviceFailure), or decode the value
\* and Lock for UpdateAnalogTag.  Register.Value is modelled by its
\* range: any value the master's integer and the scaling can decode to.
WriteRegister ==
    /\ pc[Modbus] = "writeReg"
    /\ \/ /\ ~InRange \/ ~Mapped
          /\ callerLock' = NoThread /\ wOwner' = wOwner /\ mbValue' = mbValue
          /\ Goto(Modbus, "idle")
       \/ /\ InRange /\ Mapped /\ ~Reg!Decodes(RegType[RegTag])
          /\ callerLock' = NoThread /\ wOwner' = wOwner /\ mbValue' = mbValue
          /\ Goto(Modbus, "idle")
       \/ /\ InRange /\ Mapped /\ Reg!Decodes(RegType[RegTag]) /\ wOwner = NoThread
          /\ \E v \in AnalogValues : mbValue' = v
          /\ wOwner' = Modbus /\ callerLock' = callerLock
          /\ Goto(Modbus, "writeAnalog")
    /\ UNCHANGED <<memVars, readers, cycles, logicVars, batch, inVars, req, reg,
                   served, simVars, ghostVars>>

\* UpdateAnalogTag; when the tag is not analog it fails and the handler
\* falls back to UpdateBinaryTag with value != 0.
WriteAnalog ==
    /\ pc[Modbus] = "writeAnalog" /\ Drained
    /\ wOwner' = NoThread
    /\ \/ /\ Writable("analog", RegTag)
          /\ Write("analog", RegTag, mbValue)
          /\ Advance
          /\ Goto(Modbus, "writeReg")
       \/ /\ ~Writable("analog", RegTag)
          /\ Goto(Modbus, "writeBinary")
          /\ UNCHANGED <<memVars, reg, ghostVars>>
    /\ UNCHANGED <<callerLock, readers, cycles, logicVars, batch, inVars, req,
                   mbValue, served, simVars>>

WriteBinaryLock ==
    /\ pc[Modbus] = "writeBinary" /\ wOwner = NoThread
    /\ wOwner' = Modbus
    /\ Goto(Modbus, "writeBinaryDo")
    /\ UNCHANGED <<memVars, callerLock, readers, cycles, logicVars, batch,
                   inVars, mbVars, simVars, ghostVars>>

\* Mutant: the binary fallback skips the loop's i = i + reg.Length().
WriteBinaryNoAdvance ==
    /\ pc[Modbus] = "writeBinaryDo" /\ Drained
    /\ Write("binary", RegTag, mbValue # 0)
    /\ reg' = reg
    /\ wOwner' = NoThread
    /\ Goto(Modbus, "writeReg")
    /\ UNCHANGED <<callerLock, readers, cycles, logicVars, batch, inVars, req,
                   mbValue, served, simVars>>

\* Every register names a tag HasTag found at configuration, and string tags
\* are not modelled, so the binary update of a non-analog tag succeeds.
WriteBinary ==
    /\ pc[Modbus] = "writeBinaryDo" /\ Drained
    /\ Write("binary", RegTag, mbValue # 0)
    /\ Advance
    /\ wOwner' = NoThread
    /\ Goto(Modbus, "writeReg")
    /\ UNCHANGED <<callerLock, readers, cycles, logicVars, batch, inVars, req,
                   mbValue, served, simVars>>

\* readHandler: no caller lock; each getter RLocks on its own.  The analog
\* getter is split into taking the read lock and reading the maps, so that
\* what runs while it is inside them can be seen.
ReadRegister ==
    /\ pc[Modbus] = "read"
    /\ \/ /\ ~InRange \/ ~Mapped
          /\ readers' = readers
          /\ Goto(Modbus, "idle")
       \/ /\ InRange /\ Mapped /\ CanRLock
          /\ readers' = [readers EXCEPT ![Modbus] = @ + 1]
          /\ Goto(Modbus, "readAnalog")
    /\ UNCHANGED <<memVars, callerLock, wOwner, cycles, logicVars, batch,
                   inVars, mbVars, simVars, ghostVars>>

ReadAnalog ==
    /\ pc[Modbus] = "readAnalog"
    /\ readers' = [readers EXCEPT ![Modbus] = @ - 1]
    /\ \/ Readable("analog", RegTag) /\ Advance /\ Goto(Modbus, "read")
       \/ ~Readable("analog", RegTag) /\ reg' = reg /\ Goto(Modbus, "readBinary")
    /\ UNCHANGED <<memVars, callerLock, wOwner, cycles, logicVars, batch,
                   inVars, req, mbValue, served, simVars, ghostVars>>

\* GetBinaryStatusForTag; failing too, the handler answers SlaveDeviceFailure.
ReadBinary ==
    /\ pc[Modbus] = "readBinary" /\ CanRLock
    /\ \/ Readable("binary", RegTag) /\ Advance /\ Goto(Modbus, "read")
       \/ ~Readable("binary", RegTag) /\ reg' = reg /\ Goto(Modbus, "idle")
    /\ UNCHANGED <<memVars, lockVars, cycles, logicVars, batch, inVars, req,
                   mbValue, served, simVars, ghostVars>>

\* Serving a request once it has arrived.
ModbusServe ==
    \/ WriteLock \/ WriteRegister \/ WriteAnalog
    \/ WriteBinaryLock \/ WriteBinary
    \/ ReadRegister \/ ReadAnalog \/ ReadBinary

ModbusNext == Request \/ ModbusServe

-----------------------------------------------------------------------------
(* The simulator.                                                          *)

\* It publishes the current value of a device point.
Publish ==
    /\ published < MaxPublishes
    /\ \E d \in Devices, plain \in BOOLEAN :
         /\ plain => d \in AnalogDevices
         /\ pubs' = Append(pubs, [name |-> d, plain |-> plain,
                                   bit |-> d \in BinaryDevices /\ simValue[d],
                                   num |-> IF d \in BinaryDevices THEN 0 ELSE simValue[d]])
    /\ published' = published + 1
    /\ UNCHANGED <<memVars, pc, lockVars, cycles, logicVars, batch, point,
                   mbVars, simVars, ghostVars>>

\* The power system moves an input point.
Physics ==
    /\ physics < MaxPhysics
    /\ \E d \in Devices \ OutputDevices :
         \E v \in DeviceValues(d) \ {simValue[d]} :
            simValue' = [simValue EXCEPT ![d] = v]
    /\ physics' = physics + 1
    /\ UNCHANGED <<memVars, pc, lockVars, cycles, logicVars, batch, inVars,
                   mbVars, ghostVars>>

Next == CycleNext \/ InputNext \/ ModbusNext \/ Publish \/ Physics

Spec == Init /\ [][Next]_vars

\* Each goroutine that can go on eventually does.  Strong fairness because
\* a goroutine blocked on callerLock or the map lock is enabled only now
\* and then: Go's Mutex hands the lock to a waiter that has starved for
\* 1ms, and RWMutex lets the readers waiting on a writer in before the
\* next writer.  The ticker keeps firing (Tick), and the simulator's reply
\* to a batch arrives unless it is lost (Reply or ReplyLost).  Nothing
\* forces the master to send a request or the simulator to publish.
Fairness ==
    /\ SF_vars(CycleNext)
    /\ SF_vars(InputNext)
    /\ SF_vars(ModbusServe)

LiveSpec == Spec /\ Fairness

-----------------------------------------------------------------------------
(* Properties.                                                             *)

\* Every cycle the ticker starts runs through to Unfreeze: the goroutine
\* is never stuck in Freeze, a lock, Commit's RecvMessage or behind a
\* Modbus request holding callerLock (field-device.go 112-133).
CycleCompletes == pc[Cycle] # "idle" ~> pc[Cycle] = "idle"

\* The refinement mapping onto FrozenStore.  The logical value of an
\* internal tag is its shadow entry while frozen, its primary entry
\* otherwise; the view is the primary map the getters read; the freeze
\* ends, for the readers, once Unfreeze's merge loops have run.
LogicalInternal == IF frozen THEN Merge(internal, frozenInternal) ELSE internal
StoreFrozen == frozen /\ pc[Cycle] # "thaw"

Store == INSTANCE FrozenStore
    WITH Tags <- IntTags, store <- LogicalInternal, view <- internal,
         frozen <- StoreFrozen

\* The internal tags of the memory behave as FrozenStore: Freeze, the
\* UpdateXTag calls of the logic and of Modbus, and Unfreeze (memory.go
\* 285-337, 440-482) never lose, revert or half-publish a write, and no
\* write lands between Unfreeze's merge and its clearing of frozen.
FrozenStoreRefined == Store!Spec

\* Execute's env: from the first read of GetBinaryPoints to the end of the
\* write-back loop.
LogicPcs == {"binaryPoints", "snapAnalog", "analogPoints", "evaluate",
             "writeBack", "writeBackDo"}

\* The input goroutine stores the reading the simulator published: when
\* SetBinaryDeviceStatus / SetAnalogDeviceValue (input-module.go 80-84)
\* completes, the device holds the value that was sent, whatever text the
\* simulator wrote it as.
ReadingMatchesPublish ==
    [][pc[Input] = "setDeviceDo" /\ pc'[Input] = "idle" =>
          device'[point.Name] = IF point.Name \in BinaryDevices
                                THEN point.sent.bit ELSE point.sent.num]_vars

\* The same isolation for the external tags, as spec section 5 states it
\* ("writes by Modbus or subscriber arriving during that cycle land in
\* shadow buffers"): while the logic runs, every external reading in its
\* env is still the device reading the memory holds.  SetBinaryDeviceStatus
\* / SetAnalogDeviceValue (memory.go 546-576) never look at frozen.
SnapshotReadingsFrozen ==
    pc[Cycle] \in LogicPcs =>
        \A t \in DOMAIN snap \cap ExtTags : snap[t] = ReadTag(t)

\* No write is lost across a freeze (Unfreeze merging the shadow maps):
\* whenever the memory is not frozen, each internal tag holds the value of
\* the last UpdateXTag that accepted a write to it, whichever goroutine
\* made it and whether or not it landed in a shadow map.
ThawKeepsLastWrite ==
    ~frozen => \A t \in IntTags : internal[t] = lastWrite[t]

\* The caller lock makes a Modbus write request atomic for the cycle
\* (handlers.go 90-93, output-module.go 70 and 102): no drain of the pending
\* outputs and no Unfreeze runs while a write request is part-way through
\* its registers.
FlushPcs == {"drainBinary", "drainBinaryDo", "drainAnalog", "drainAnalogDo",
             "merge", "thaw"}
WriteRequestPcs == {"writeReg", "writeAnalog", "writeBinary", "writeBinaryDo"}

WriteRequestAtomic ==
    ~(pc[Cycle] \in FlushPcs /\ pc[Modbus] \in WriteRequestPcs)

-----------------------------------------------------------------------------
(* Who waits for whom.  A goroutine waits for the caller lock's holder, for *)
(* the writer-slot holder when it needs RLock or the slot, and, holding   *)
(* the slot, for every goroutine still inside a read lock.                *)

WantsCallerLock(t) ==
    \/ t = Cycle /\ pc[t] \in {"freeze", "flush", "unfreeze"}
    \/ t = Modbus /\ pc[t] = "writeLock"

WantsRLock(t) ==
    \/ t = Cycle /\ pc[t] \in {"snapBinary", "snapAnalog"}
    \/ t = Cycle /\ pc[t] \in {"binaryPoints", "analogPoints"} /\ todo # {}
    \/ t = Input /\ pc[t] = "classify"
    \/ t = Modbus /\ pc[t] = "read" /\ InRange /\ Mapped
    \/ t = Modbus /\ pc[t] = "readBinary"

WantsWriterSlot(t) ==
    \/ t = Cycle /\ pc[t] = "writeBack" /\ DOMAIN results # {}
    \/ t = Cycle /\ pc[t] \in {"drainBinary", "drainAnalog"}
    \/ t = Input /\ pc[t] = "setDevice"
    \/ t = Modbus /\ pc[t] = "writeReg" /\ InRange /\ Mapped /\ Reg!Decodes(RegType[RegTag])
    \/ t = Modbus /\ pc[t] = "writeBinary"

WaitsForReaders(t) ==
    pc[t] \in {"writeBackDo", "drainBinaryDo", "drainAnalogDo", "setDeviceDo",
               "writeAnalog", "writeBinaryDo"}

WaitsFor ==
    [p \in Threads \X Threads |->
        LET a == p[1]
            b == p[2]
        IN  \/ WantsCallerLock(a) /\ callerLock = b /\ a # b
            \/ (WantsRLock(a) \/ WantsWriterSlot(a)) /\ wOwner = b
            \/ WaitsForReaders(a) /\ readers[b] > 0]

\* No deadlock among the goroutines: the waits-for relation has no cycle.
\* With three goroutines a cycle has at most three edges.
NoWaitCycle ==
    ~\E a, b, c \in Threads :
        /\ WaitsFor[a, b]
        /\ \/ b = a
           \/ WaitsFor[b, c] /\ (c = a \/ WaitsFor[c, a])

\* With a program, the RLock re-entered by getBinaryPoints (memory.go
\* 579-606) can close the wait cycle NoWaitCycle excludes, and then nothing
\* completes.  Short of that cycle, under the scheduler's fairness and
\* with every batch answered: every cycle the ticker starts runs through
\* to Unfreeze (field-device.go 112-133), never stuck on callerLock, the
\* map lock or a Modbus request holding the caller lock ...
CycleCompletesOrDeadlocks ==
    pc[Cycle] # "idle" ~> (pc[Cycle] = "idle" \/ ~NoWaitCycle)

\* ... and every Modbus request the server has taken is answered: the
\* register loops of readHandler and writeHandler (handlers.go 25-70,
\* 95-126) end and release what they lock.
RequestCompletesOrDeadlocks ==
    pc[Modbus] # "idle" ~> (pc[Modbus] = "idle" \/ ~NoWaitCycle)

\* Go maps must not be read while another goroutine writes them.  The Go
\* maps each goroutine is inside of, named by role and kind: Unfreeze's
\* loops (memory.go 459-473) write updated* and internal* with only the
\* caller lock, and a loop writes its primary map only when its shadow map
\* has an entry; getAnalogValueForTag (memory.go 245-270, under RLock)
\* reads analogTags and then either the device map or, for a tag that is
\* not external, internalAnalogTags.
ShadowEntries(f) == {t \in DOMAIN f : f[t] # NoValue}

MapsWrittenUnlocked ==
    IF pc[Cycle] = "merge"
    THEN {<<"updated", KindOfTag(t)>> : t \in ShadowEntries(frozenUpdated)}
         \cup {<<"internal", KindOfTag(t)>> : t \in ShadowEntries(frozenInternal)}
    ELSE {}

MapsReadLocked ==
    IF pc[Modbus] = "readAnalog"
    THEN {<<"analogTags", "analog">>,
          IF RegTag \in ExtAnalog THEN <<"device", "analog">>
                                  ELSE <<"internal", "analog">>}
    ELSE {}

NoUnlockedMapWrite == MapsWrittenUnlocked \cap MapsReadLocked = {}

\* An output the logic or a Modbus master wrote is never silently lost:
\* until the simulator holds it, it is pending (in the primary or, while
\* frozen, the shadow map) or in the batch being committed.
InFlightPcs == {"drainAnalog", "drainAnalogDo", "commit", "awaitReply"}

OutputOnItsWay(t) ==
    LET v == lastOutput[t]
        d == DeviceOfTag(t)
    IN  \/ v = NoValue \/ d = NoValue
        \/ updated[t] = v
        \/ frozen /\ frozenUpdated[t] = v
        \/ pc[Cycle] \in InFlightPcs /\ \E i \in DOMAIN batch : batch[i] = <<d, v>>
        \/ simValue[d] = v

OutputNotDropped == \A t \in ExtTags : OutputOnItsWay(t)

=============================================================================
