------------------------------- MODULE Memory -------------------------------
(***************************************************************************)
(* The tag memory of a field device (devices/modules/memory/memory.go).    *)
(*                                                                         *)
(* Binary and analog tags live in disjoint name sets, so the pairs of Go   *)
(* maps the code keeps per kind (updatedBinaryTags / updatedAnalogTags,    *)
(* internalBinaryTags / internalAnalogTags, ...) are modelled as one       *)
(* function over the tags of both kinds.  An absent map entry is NoValue.  *)
(* float64 is abstracted to the small set AnalogValues.  String tags are   *)
(* never written after configuration (no caller of UpdateStringTag) and    *)
(* are left out.                                                           *)
(*                                                                         *)
(* The operations here are the bodies of the Memory methods, each one      *)
(* atomic.  Which lock a caller holds while running one is the business of *)
(* the composing module, FieldDevice.                                      *)
(***************************************************************************)
EXTENDS Integers, FiniteSets, Sequences, SequencesExt

CONSTANTS
    BinaryTags,          \* binaryTags    : external binary tag -> IO module id
    AnalogTags,          \* analogTags    : external analog tag -> IO module id
    BinaryModules,       \* binaryModules : IO module id -> binary device
    AnalogModules,       \* analogModules : IO module id -> analog device
    InternalBinaryInit,  \* internalBinaryTags as configured: tag -> BOOLEAN
    InternalAnalogInit,  \* internalAnalogTags as configured: tag -> value
    BinaryDevices,       \* names given to AddBinaryDevice
    AnalogDevices,       \* names given to AddAnalogDevice
    AnalogValues,        \* the float64 values the model distinguishes
    NoValue              \* an absent map entry

ExtBinary   == DOMAIN BinaryTags
ExtAnalog   == DOMAIN AnalogTags
IntBinary   == DOMAIN InternalBinaryInit
IntAnalog   == DOMAIN InternalAnalogInit
ExtTags     == ExtBinary \cup ExtAnalog
IntTags     == IntBinary \cup IntAnalog
Devices     == BinaryDevices \cup AnalogDevices
Kinds       == {"binary", "analog"}

\* The tags UpdateBinaryTag / UpdateAnalogTag accept, per kind.
ExtOf(k) == IF k = "binary" THEN ExtBinary ELSE ExtAnalog
IntOf(k) == IF k = "binary" THEN IntBinary ELSE IntAnalog
ValuesOf(k) == IF k = "binary" THEN BOOLEAN ELSE AnalogValues
KindOfTag(t) == IF t \in ExtBinary \cup IntBinary THEN "binary" ELSE "analog"
DevicesOf(k) == IF k = "binary" THEN BinaryDevices ELSE AnalogDevices

ASSUME /\ ExtBinary \cap ExtAnalog = {}
       /\ IntTags \cap ExtTags = {} /\ IntBinary \cap IntAnalog = {}
       /\ BinaryDevices \cap AnalogDevices = {}
       /\ NoValue \notin AnalogValues /\ NoValue \notin BOOLEAN /\ 0 \in AnalogValues

VARIABLES
    updated,          \* updatedBinaryTags, updatedAnalogTags: pending outputs
    internal,         \* internalBinaryTags, internalAnalogTags
    device,           \* binaryDeviceStatuses, analogDeviceValues
    frozen,           \* frozen
    frozenUpdated,    \* frozenUpdatedBinaryTags, frozenUpdatedAnalogTags
    frozenInternal    \* frozenInternalBinaryTags, frozenInternalAnalogTags

memVars == <<updated, internal, device, frozen, frozenUpdated, frozenInternal>>

\* f maps every tag of T to a value of the tag's kind (or to NoValue).
TagMap(f, T, absent) ==
    /\ DOMAIN f = T
    /\ \A t \in T : f[t] \in ValuesOf(KindOfTag(t)) \/ (absent /\ f[t] = NoValue)

TypeOK ==
    /\ TagMap(updated, ExtTags, TRUE)
    /\ TagMap(internal, IntTags, FALSE)
    /\ DOMAIN device = Devices
    /\ \A d \in BinaryDevices : device[d] \in BOOLEAN
    /\ \A d \in AnalogDevices : device[d] \in AnalogValues
    /\ frozen \in BOOLEAN
    /\ TagMap(frozenUpdated, ExtTags, TRUE)
    /\ TagMap(frozenInternal, IntTags, TRUE)

\* NewMemory, HandleTreeData (internal tags with their configured values),
\* AddBinaryDevice / AddAnalogDevice (every device starts false / 0.0).
\* The frozen maps are nil until the first Freeze: nothing is in them.
MemInit ==
    /\ updated = [t \in ExtTags |-> NoValue]
    /\ internal = InternalBinaryInit @@ InternalAnalogInit
    /\ device = [d \in Devices |-> IF d \in BinaryDevices THEN FALSE ELSE 0]
    /\ frozen = FALSE
    /\ frozenUpdated = [t \in ExtTags |-> NoValue]
    /\ frozenInternal = [t \in IntTags |-> NoValue]

-----------------------------------------------------------------------------
(* Name resolution: tag -> IO module -> device.                            *)

\* The device an external tag resolves to, or NoValue when its IO module is
\* not bound in binaryModules / analogModules ("unknown IO module").
DeviceOfTag(t) ==
    LET mods == IF t \in ExtBinary THEN BinaryModules ELSE AnalogModules
        m    == IF t \in ExtBinary THEN BinaryTags[t] ELSE AnalogTags[t]
    IN  IF m \in DOMAIN mods THEN mods[m] ELSE NoValue

\* getBinaryStatusForTag / getAnalogValueForTag succeed for tag t of kind k.
Readable(k, t) ==
    \/ t \in ExtOf(k) /\ DeviceOfTag(t) # NoValue
    \/ t \in IntOf(k)

\* The value those getters return (for a tag that is Readable).
ReadTag(t) == IF t \in ExtTags THEN device[DeviceOfTag(t)] ELSE internal[t]

-----------------------------------------------------------------------------
(* Writes.                                                                 *)

\* UpdateBinaryTag / UpdateAnalogTag: a tag of kind k exists to be written.
Writable(k, t) == t \in ExtOf(k) \cup IntOf(k)

\* The body of UpdateBinaryTag (k = "binary") or UpdateAnalogTag: a write
\* to an external tag becomes a pending output, one to an internal tag
\* updates the store, and while frozen both go to the shadow maps.
UpdateTag(k, t, v) ==
    /\ Writable(k, t)
    /\ updated' = IF t \in ExtOf(k) /\ ~frozen
                    THEN [updated EXCEPT ![t] = v] ELSE updated
    /\ frozenUpdated' = IF t \in ExtOf(k) /\ frozen
                          THEN [frozenUpdated EXCEPT ![t] = v] ELSE frozenUpdated
    /\ internal' = IF t \in IntOf(k) /\ ~frozen
                     THEN [internal EXCEPT ![t] = v] ELSE internal
    /\ frozenInternal' = IF t \in IntOf(k) /\ frozen
                           THEN [frozenInternal EXCEPT ![t] = v] ELSE frozenInternal
    /\ UNCHANGED <<device, frozen>>

UpdateBinaryTag(t, v) == UpdateTag("binary", t, v)
UpdateAnalogTag(t, v) == UpdateTag("analog", t, v)

\* SetBinaryDeviceStatus / SetAnalogDeviceValue: the reading of a device.
SetDevice(k, d, v) ==
    /\ d \in DevicesOf(k)
    /\ device' = [device EXCEPT ![d] = v]
    /\ UNCHANGED <<updated, internal, frozen, frozenUpdated, frozenInternal>>

-----------------------------------------------------------------------------
(* Freeze and Unfreeze.                                                    *)

\* Freeze: set frozen and allocate empty shadow maps (whatever they held is
\* dropped).
\* Mutant: Freeze makes fresh pending-output shadows but keeps the last
\* freeze's internal shadows.
FreezeKeepingInternalShadows ==
    /\ frozen' = TRUE
    /\ frozenUpdated' = [t \in ExtTags |-> NoValue]
    /\ UNCHANGED <<updated, internal, device, frozenInternal>>

Freeze ==
    /\ frozen' = TRUE
    /\ frozenUpdated' = [t \in ExtTags |-> NoValue]
    /\ frozenInternal' = [t \in IntTags |-> NoValue]
    /\ UNCHANGED <<updated, internal, device>>

\* Copy every entry of a shadow map into its primary map.
Merge(primary, shadow) ==
    [t \in DOMAIN primary |-> IF shadow[t] = NoValue THEN primary[t] ELSE shadow[t]]

\* Mutant: Unfreeze merges the pending outputs but forgets the internal maps.
UnfreezeMergeOutputsOnly ==
    /\ updated' = Merge(updated, frozenUpdated)
    /\ UNCHANGED <<internal, device, frozen, frozenUpdated, frozenInternal>>

\* The map-merging loops of Unfreeze.  The shadow maps are left as they are;
\* nothing reads them until the next Freeze replaces them.
UnfreezeMerge ==
    /\ updated' = Merge(updated, frozenUpdated)
    /\ internal' = Merge(internal, frozenInternal)
    /\ UNCHANGED <<device, frozen, frozenUpdated, frozenInternal>>

\* The last statement of Unfreeze.
UnfreezeClear ==
    /\ frozen' = FALSE
    /\ UNCHANGED <<updated, internal, device, frozenUpdated, frozenInternal>>

-----------------------------------------------------------------------------
(* Draining pending outputs: UpdateBinaryDevices / UpdateAnalogDevices.    *)
(* The loop runs over a Go map, in an order the program cannot predict,    *)
(* so the drain is a fold over one ordering of the pending tags.  The only *)
(* yield the program passes (OutputModule.Update) appends to the batch and *)
(* always succeeds.                                                        *)

\* One iteration of the drain loop for tag t over st = [updated, device,
\* batch]: unresolvable tags stay pending; an unchanged value is dropped;
\* a changed one is yielded, written to the device reading and dropped.
DrainStep(st, t) ==
    LET d == DeviceOfTag(t)
        v == st.updated[t]
    IN  IF d = NoValue THEN st
        ELSE IF v = st.device[d]
             THEN [st EXCEPT !.updated[t] = NoValue]
             ELSE [updated |-> [st.updated EXCEPT ![t] = NoValue],
                   device  |-> [st.device EXCEPT ![d] = v],
                   batch   |-> Append(st.batch, <<d, v>>)]

PendingOf(k) == {t \in ExtOf(k) : updated[t] # NoValue}

\* The outcome of running the drain loop over the tags in the given order,
\* appending the yielded <<device, value>> pairs to batch b.
DrainResult(order, b) ==
    FoldLeft(DrainStep, [updated |-> updated, device |-> device, batch |-> b], order)

=============================================================================
