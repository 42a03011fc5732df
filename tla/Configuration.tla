--------------------------- MODULE Configuration ---------------------------
(***************************************************************************)
(* Start-up of the program: bennu.ParseConfigFile hands each child of the  *)
(* root element to its registered TreeDataHandler; the only one registered *)
(* is the FieldDevice singleton (field-device.go init), whose               *)
(* HandleTreeData configures the memory, the input and output modules, the *)
(* logic and the comms from its children, then starts them and blocks      *)
(* until the cancellation signal.                                          *)
(*                                                                         *)
(* An XML element is a record [tag, text, kids] (etree.Element's Tag,      *)
(* Text() and ChildElements()).  Texts are model strings; the numerals     *)
(* among them are the domain of Numbers, and strconv.Atoi, ParseFloat and  *)
(* time.ParseDuration fail on every other text.  The memory's Go maps are  *)
(* functions whose domain grows with each assignment.                      *)
(***************************************************************************)
EXTENDS Integers, Sequences, SequencesExt, FiniteSetsExt

CONSTANTS
    Roots,     \* the configuration files to try: the root's child elements
    Numbers    \* base-10 numeral text -> its value

VARIABLES
    root,        \* the root's children, as read from the file
    pc,          \* where ParseConfigFile / FieldDevice.HandleTreeData are
    ri,          \* ParseConfigFile: index of the root child being handled
    ci,          \* HandleTreeData: index of the field-device child
    handled,     \* calls of the FieldDevice singleton's HandleTreeData
    mem,         \* the Memory's configuration maps and device names
    inputs,      \* InputModule: [endpoint, configured]
    outputs,     \* OutputModule: [endpoint, configured]
    outstations, \* CommsModule.outstations: the SunSpecRTUs
    cycleTime,   \* FieldDevice.cycleTime, in ms
    subs,        \* ZMQSubscriber.handlers: the points subscribed to
    result       \* the error HandleTreeData returns

vars == <<root, pc, ri, ci, handled, mem, inputs, outputs, outstations,
          cycleTime, subs, result>>

\* Go's m[k] = v.
Put(f, k, v) == (k :> v) @@ f

\* The loop `for _, child := range e.ChildElements() { case t: x = child.Text() }`
\* leaves x with the text of the last child named t, or "".
KidsNamed(e, t) == SelectSeq(e.kids, LAMBDA c : c.tag = t)
LastText(e, t) ==
    LET s == KidsNamed(e, t) IN IF s = <<>> THEN "" ELSE s[Len(s)].text

ParsesNumber(s) == s \in DOMAIN Numbers

-----------------------------------------------------------------------------
(* The memory's configuration (memory.go).                                 *)

\* NewMemory: every map empty.
EmptyMap == [k \in {} |-> ""]
NoMemory ==
    [binaryTags |-> EmptyMap, analogTags |-> EmptyMap,
     binaryModules |-> EmptyMap, analogModules |-> EmptyMap,
     internalBinaryTags |-> EmptyMap, internalAnalogTags |-> EmptyMap,
     internalStringTags |-> EmptyMap,
     binaryDevices |-> {}, analogDevices |-> {}]

\* handleExternalTag: the tag goes into binaryTags or analogTags with its IO
\* module id; any other type is ignored.
HandleExternalTag(m, e) ==
    LET name == LastText(e, "name")
        io   == LastText(e, "io")
        type == LastText(e, "type")
    IN  CASE type = "binary" -> [m EXCEPT !.binaryTags = Put(@, name, io)]
          [] type = "analog" -> [m EXCEPT !.analogTags = Put(@, name, io)]
          [] OTHER -> m

\* handleInternalTag: the last status, value or string child sets the
\* kind and the value; a value that ParseFloat rejects returns the error.
HandleInternalTag(m, e) ==
    LET typed == SelectSeq(e.kids, LAMBDA c : c.tag \in {"status", "value", "string"})
        last  == typed[Len(typed)]
        name  == LastText(e, "name")
    IN  IF \E i \in DOMAIN typed : typed[i].tag = "value" /\ ~ParsesNumber(typed[i].text)
        THEN [m |-> m, err |-> TRUE]
        ELSE [err |-> FALSE,
              m |-> CASE typed = <<>> -> m
                      [] last.tag = "status" ->
                            [m EXCEPT !.internalBinaryTags = Put(@, name, last.text = "true")]
                      [] last.tag = "value" ->
                            [m EXCEPT !.internalAnalogTags = Put(@, name, Numbers[last.text])]
                      [] OTHER ->
                            [m EXCEPT !.internalStringTags = Put(@, name, last.text)]]

\* Memory.HandleTreeData: the <tags> children in order, stopping at the
\* first error.
MemoryHandleTreeData(m, e) ==
    LET step(acc, c) ==
          IF acc.err THEN acc
          ELSE CASE c.tag = "external-tag" -> [acc EXCEPT !.m = HandleExternalTag(@, c)]
                 [] c.tag = "internal-tag" -> HandleInternalTag(acc.m, c)
                 [] OTHER -> acc
    IN  FoldLeft(step, [m |-> m, err |-> FALSE], e.kids)

\* HasTag: the name is a key of any of the five tag maps.
HasTag(m, t) ==
    t \in DOMAIN m.binaryTags \cup DOMAIN m.analogTags \cup DOMAIN m.internalBinaryTags
          \cup DOMAIN m.internalAnalogTags \cup DOMAIN m.internalStringTags

\* GetDevicePoints: the names of every binary and analog device.
GetDevicePoints(m) == m.binaryDevices \cup m.analogDevices

-----------------------------------------------------------------------------
(* The input and output modules' configuration (io/*.go).                  *)

\* AddBinaryDevice / AddAnalogDevice, and AddBinaryModule / AddAnalogModule.
AddDevice(m, k, d) ==
    IF k = "binary" THEN [m EXCEPT !.binaryDevices = @ \cup {d}]
    ELSE [m EXCEPT !.analogDevices = @ \cup {d}]
AddModule(m, k, id, d) ==
    IF k = "binary" THEN [m EXCEPT !.binaryModules = Put(@, id, d)]
    ELSE [m EXCEPT !.analogModules = Put(@, id, d)]

\* Mutant: the id is bound as soon as the <id> child is met, to the point
\* read so far.
HandleEntryBindAtId(m, k, e) ==
    LET step(acc, c) ==
          CASE c.tag = "id" -> [acc EXCEPT !.m = AddModule(@, k, c.text, acc.point)]
            [] c.tag = "name" -> [m |-> AddDevice(acc.m, k, c.text), point |-> c.text]
            [] OTHER -> acc
    IN  FoldLeft(step, [m |-> m, point |-> ""], e.kids).m

\* handleBinaryInput / handleAnalogInput (the same in both modules): every
\* <name> child adds a device as it is met; after the loop the id (the last
\* <id>) is bound to the point variable, which holds the last <name>.
HandleEntry(m, k, e) ==
    LET names == KidsNamed(e, "name")
        withDevices == FoldLeft(LAMBDA acc, c : AddDevice(acc, k, c.text), m, names)
    IN  AddModule(withDevices, k, LastText(e, "id"), LastText(e, "name"))

\* InputModule / OutputModule HandleTreeData: endpoint, binary and analog
\* children; anything else is ignored; the module is then configured.
IOHandleTreeData(m, io, e) ==
    LET step(acc, c) ==
          CASE c.tag = "endpoint" -> [acc EXCEPT !.io.endpoint = c.text]
            [] c.tag \in {"binary", "analog"} -> [acc EXCEPT !.m = HandleEntry(@, c.tag, c)]
            [] OTHER -> acc
        r == FoldLeft(step, [m |-> m, io |-> io], e.kids)
    IN  [r EXCEPT !.io.configured = TRUE]

-----------------------------------------------------------------------------
(* The comms module and its SunSpec outstations (comms.go, sunspec.go).    *)

NoRTU == [ip |-> "", port |-> 0, registers |-> [a \in {} |-> ""],
          scalings |-> [a \in {} |-> 0], types |-> EmptyMap]

\* Mutant: the register is mapped to its tag, but its scaling is not stored.
HandleRegisterNoScaling(m, rtu, e) ==
    LET step(acc, c) ==
          IF acc.err THEN acc
          ELSE IF c.tag \in {"address", "scaling-factor"}
               THEN IF ~ParsesNumber(c.text) THEN [acc EXCEPT !.err = TRUE]
                    ELSE IF c.tag = "address" THEN [acc EXCEPT !.addr = Numbers[c.text]]
                    ELSE [acc EXCEPT !.scale = Numbers[c.text]]
          ELSE IF ~HasTag(m, c.text) THEN [acc EXCEPT !.err = TRUE]
          ELSE [acc EXCEPT !.tag = c.text, !.rtu.types = Put(@, c.text, c.tag)]
        r == FoldLeft(step, [err |-> FALSE, addr |-> 0, scale |-> 0, tag |-> "", rtu |-> rtu],
                      e.kids)
    IN  IF r.err \/ r.addr = 0 \/ r.tag = "" THEN [err |-> TRUE, rtu |-> r.rtu]
        ELSE [err |-> FALSE, rtu |-> [r.rtu EXCEPT !.registers = Put(@, r.addr, r.tag)]]

\* handleRegister: address and scaling-factor through Atoi; any other child
\* names the SunSpec type and, as text, the tag, which HasTag must know and
\* whose type is recorded at once; finally both address and tag are needed.
HandleRegister(m, rtu, e) ==
    LET step(acc, c) ==
          IF acc.err THEN acc
          ELSE IF c.tag \in {"address", "scaling-factor"}
               THEN IF ~ParsesNumber(c.text) THEN [acc EXCEPT !.err = TRUE]
                    ELSE IF c.tag = "address" THEN [acc EXCEPT !.addr = Numbers[c.text]]
                    ELSE [acc EXCEPT !.scale = Numbers[c.text]]
          ELSE IF ~HasTag(m, c.text) THEN [acc EXCEPT !.err = TRUE]
          ELSE [acc EXCEPT !.tag = c.text, !.rtu.types = Put(@, c.text, c.tag)]
        r == FoldLeft(step, [err |-> FALSE, addr |-> 0, scale |-> 0, tag |-> "", rtu |-> rtu],
                      e.kids)
    IN  IF r.err \/ r.addr = 0 \/ r.tag = "" THEN [err |-> TRUE, rtu |-> r.rtu]
        ELSE [err |-> FALSE,
              rtu |-> [r.rtu EXCEPT !.scalings = Put(@, r.addr, r.scale),
                                    !.registers = Put(@, r.addr, r.tag)]]

\* SunSpecRTU.HandleTreeData: ip, port (Atoi), event-logging (nothing yet)
\* and the registers, up to the first error.
RTUHandleTreeData(m, e) ==
    LET step(acc, c) ==
          IF acc.err THEN acc
          ELSE CASE c.tag = "ip" -> [acc EXCEPT !.rtu.ip = c.text]
                 [] c.tag = "port" ->
                        IF ParsesNumber(c.text) THEN [acc EXCEPT !.rtu.port = Numbers[c.text]]
                        ELSE [acc EXCEPT !.err = TRUE]
                 [] c.tag = "register" -> HandleRegister(m, acc.rtu, c)
                 [] OTHER -> acc
    IN  FoldLeft(step, [err |-> FALSE, rtu |-> NoRTU], e.kids)

\* CommsModule.HandleTreeData: a new outstation per sunspec-tcp-server,
\* appended once configured; any other child is an error.
CommsHandleTreeData(m, rtus, e) ==
    LET step(acc, c) ==
          IF acc.err THEN acc
          ELSE IF c.tag # "sunspec-tcp-server" THEN [acc EXCEPT !.err = TRUE]
          ELSE LET r == RTUHandleTreeData(m, c)
               IN  IF r.err THEN [acc EXCEPT !.err = TRUE]
                   ELSE [acc EXCEPT !.rtus = Append(@, r.rtu)]
    IN  FoldLeft(step, [err |-> FALSE, rtus |-> rtus], e.kids)

-----------------------------------------------------------------------------
(* The sockets (distributed/zmq-*.go).                                     *)

\* ZMQSubscriber.Init: a new DISH socket, Bind to the endpoint, Join its
\* group; ZMQUpdater.Init: a new REQ socket, Connect.  Any of the calls may
\* fail (ok = FALSE), and every one of them fails for an empty endpoint.
SubscriberInit(endpoint, ok) == ok /\ endpoint # ""
UpdaterInit(endpoint, ok) == ok /\ endpoint # ""

\* SubscribeToPoint: the input module's handler is appended to the point's.
SubscribeToPoint(s, point) == s \cup {point}

-----------------------------------------------------------------------------
(* ParseConfigFile and FieldDevice.HandleTreeData.                         *)

Init ==
    /\ root \in Roots
    /\ pc = "parse"
    /\ ri = 1
    /\ ci = 0
    /\ handled = 0
    /\ mem = NoMemory
    /\ inputs = [endpoint |-> "", configured |-> FALSE]
    /\ outputs = [endpoint |-> "", configured |-> FALSE]
    /\ outstations = <<>>
    /\ cycleTime = 0
    /\ subs = {}
    /\ result = "none"

\* HandleTreeData returns an error (configuration or start-up).
Fail ==
    /\ pc' = "returned"
    /\ result' = "error"

\* ParseConfigFile's loop: a child with a registered handler (only
\* "field-device") is handed to it; any other child is skipped; past the
\* last child ParseConfigFile returns nil.
ParseChild ==
    /\ pc = "parse"
    /\ \/ /\ ri <= Len(root) /\ root[ri].tag = "field-device"
          /\ pc' = "device" /\ ci' = 1 /\ handled' = handled + 1
          /\ UNCHANGED ri
       \/ /\ ri <= Len(root) /\ root[ri].tag # "field-device"
          /\ ri' = ri + 1
          /\ UNCHANGED <<pc, ci, handled>>
       \/ /\ ri > Len(root)
          /\ pc' = "exited"
          /\ UNCHANGED <<ri, ci, handled>>
    /\ UNCHANGED <<root, mem, inputs, outputs, outstations, cycleTime, subs, result>>

\* The field-device element being handled, and its current child.
Device == root[ri]
Child == Device.kids[ci]

\* The switch of FieldDevice.HandleTreeData over one child.  The logic's
\* expressions are abstracted to whether expr.Compile accepts them: a
\* <logic> whose text is "uncompilable" fails.
HandleChild ==
    /\ pc = "device" /\ ci <= Len(Device.kids)
    /\ \/ /\ Child.tag = "name"
          /\ ci' = ci + 1 /\ UNCHANGED <<pc, result, mem, inputs, outputs, outstations, cycleTime>>
       \/ /\ Child.tag = "cycle-time" /\ ParsesNumber(Child.text)
          /\ cycleTime' = Numbers[Child.text]
          /\ ci' = ci + 1 /\ UNCHANGED <<pc, result, mem, inputs, outputs, outstations>>
       \/ /\ Child.tag = "tags"
          /\ LET r == MemoryHandleTreeData(mem, Child)
             IN  /\ mem' = r.m
                 /\ IF r.err THEN Fail /\ ci' = ci
                    ELSE ci' = ci + 1 /\ UNCHANGED <<pc, result>>
          /\ UNCHANGED <<inputs, outputs, outstations, cycleTime>>
       \/ /\ Child.tag = "input"
          /\ LET r == IOHandleTreeData(mem, inputs, Child)
             IN  mem' = r.m /\ inputs' = r.io
          /\ ci' = ci + 1 /\ UNCHANGED <<pc, result, outputs, outstations, cycleTime>>
       \/ /\ Child.tag = "output"
          /\ LET r == IOHandleTreeData(mem, outputs, Child)
             IN  mem' = r.m /\ outputs' = r.io
          /\ ci' = ci + 1 /\ UNCHANGED <<pc, result, inputs, outstations, cycleTime>>
       \/ /\ Child.tag = "logic" /\ Child.text # "uncompilable"
          /\ ci' = ci + 1 /\ UNCHANGED <<pc, result, mem, inputs, outputs, outstations, cycleTime>>
       \/ /\ Child.tag = "comms"
          /\ LET r == CommsHandleTreeData(mem, outstations, Child)
             IN  /\ outstations' = r.rtus
                 /\ IF r.err THEN Fail /\ ci' = ci
                    ELSE ci' = ci + 1 /\ UNCHANGED <<pc, result>>
          /\ UNCHANGED <<mem, inputs, outputs, cycleTime>>
       \/ /\ \/ Child.tag = "cycle-time" /\ ~ParsesNumber(Child.text)
             \/ Child.tag = "logic" /\ Child.text = "uncompilable"
             \/ Child.tag \notin {"name", "cycle-time", "tags", "input", "output", "logic", "comms"}
          /\ Fail
          /\ UNCHANGED <<ci, mem, inputs, outputs, outstations, cycleTime>>
    /\ UNCHANGED <<root, ri, handled, subs>>

\* inputs.Init: an unconfigured module is an error; then the subscriber's
\* Init, and one subscription per name GetDevicePoints returns, output
\* devices included.
InitInputs ==
    /\ pc = "device" /\ ci > Len(Device.kids)
    /\ \/ /\ inputs.configured
          /\ \E ok \in BOOLEAN :
               IF SubscriberInit(inputs.endpoint, ok)
               THEN /\ subs' = FoldSet(LAMBDA p, s : SubscribeToPoint(s, p), subs,
                                       GetDevicePoints(mem))
                    /\ pc' = "startInputs" /\ result' = result
               ELSE Fail /\ subs' = subs
       \/ ~inputs.configured /\ Fail /\ subs' = subs
    /\ UNCHANGED <<root, ri, ci, handled, mem, inputs, outputs, outstations, cycleTime>>

\* inputs.Start starts the input goroutine and the subscriber's; outputs.Init
\* needs the module configured, then the updater's Init.
StartInputsInitOutputs ==
    /\ pc = "startInputs"
    /\ \/ /\ outputs.configured
          /\ \E ok \in BOOLEAN :
               IF UpdaterInit(outputs.endpoint, ok)
               THEN pc' = "ticker" /\ result' = result
               ELSE Fail
       \/ ~outputs.configured /\ Fail
    /\ UNCHANGED <<root, ri, ci, handled, mem, inputs, outputs, outstations, cycleTime, subs>>

\* time.NewTicker(cycleTime) panics for a non-positive duration, which is
\* what a missing <cycle-time> leaves.
StartTicker ==
    /\ pc = "ticker"
    /\ pc' = IF cycleTime > 0 THEN "comms" ELSE "panic"
    /\ UNCHANGED <<root, ri, ci, handled, mem, inputs, outputs, outstations,
                   cycleTime, subs, result>>

\* comms.Start: each outstation's ListenTCP, which may fail to listen.
StartComms ==
    /\ pc = "comms"
    /\ \/ pc' = "running" /\ result' = result
       \/ outstations # <<>> /\ Fail
    /\ UNCHANGED <<root, ri, ci, handled, mem, inputs, outputs, outstations, cycleTime, subs>>

\* SIGTERM cancels the context; HandleTreeData returns ctx.Err().
Cancel ==
    /\ pc = "running"
    /\ pc' = "returned"
    /\ result' = "canceled"
    /\ UNCHANGED <<root, ri, ci, handled, mem, inputs, outputs, outstations, cycleTime, subs>>

\* ParseConfigFile returns the error HandleTreeData returned, and main
\* returns.  Every return of HandleTreeData is an error, context.Canceled
\* included.
Return ==
    /\ pc = "returned"
    /\ pc' = "exited"
    /\ UNCHANGED <<root, ri, ci, handled, mem, inputs, outputs, outstations,
                   cycleTime, subs, result>>

Next ==
    \/ ParseChild \/ HandleChild \/ InitInputs \/ StartInputsInitOutputs
    \/ StartTicker \/ StartComms \/ Cancel \/ Return

Spec == Init /\ [][Next]_vars

-----------------------------------------------------------------------------
(* Properties.                                                             *)

Kinds == {"binary", "analog"}
Pcs == {"parse", "device", "startInputs", "ticker", "comms", "running",
        "returned", "panic", "exited"}

ConfTypeOK ==
    /\ pc \in Pcs
    /\ ri \in 1..Len(root) + 1
    /\ handled \in 0..1
    /\ result \in {"none", "error", "canceled"}
    /\ inputs.configured \in BOOLEAN /\ outputs.configured \in BOOLEAN
    /\ subs \subseteq GetDevicePoints(mem)
    /\ \A i \in DOMAIN outstations :
          DOMAIN outstations[i].registers = DOMAIN outstations[i].scalings

\* The children of the field device HandleTreeData has handled so far, and
\* the <binary> / <analog> entries of their <input> and <output> blocks.
HandledKids == IF handled = 0 THEN <<>> ELSE SubSeq(Device.kids, 1, ci - 1)
IOBlocks ==
    {b \in {HandledKids[i] : i \in DOMAIN HandledKids} : b.tag \in {"input", "output"}}
Entries(k) ==
    {e \in UNION {{b.kids[j] : j \in DOMAIN b.kids} : b \in IOBlocks} : e.tag = k}

\* An entry with one <id> and one <name>, whose id no other entry of its
\* kind declares, in the input block or the output block.
WellFormed(e) == Len(KidsNamed(e, "id")) = 1 /\ Len(KidsNamed(e, "name")) = 1
IdOnce(k, e) == \A f \in Entries(k) : LastText(f, "id") = LastText(e, "id") => f = e
Modules(k) == IF k = "binary" THEN mem.binaryModules ELSE mem.analogModules

\* The open question of the spec (section 9) about handleBinaryInput /
\* handleAnalogInput (input-module.go 94-132, output-module.go 111-151):
\* however many <binary> and <analog> entries the <input> and <output>
\* blocks declare, in whatever order their children come, each well-formed
\* entry whose id is its own leaves that id bound to its own device.
BindingFollowsEntry ==
    \A k \in Kinds : \A e \in Entries(k) :
        WellFormed(e) /\ IdOnce(k, e) =>
            /\ LastText(e, "id") \in DOMAIN Modules(k)
            /\ Modules(k)[LastText(e, "id")] = LastText(e, "name")

=============================================================================
