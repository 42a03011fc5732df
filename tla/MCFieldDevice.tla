--------------------------- MODULE MCFieldDevice ---------------------------
(***************************************************************************)
(* A device configuration for TLC: one external binary output, one         *)
(* external analog output, an analog input device the simulator moves,    *)
(* one external tag whose IO module is bound to nothing, and one internal  *)
(* analog tag.  The program writes the analog output and the internal      *)
(* tag; Modbus writes reach the binary output.  The SunSpec map puts       *)
(* the internal tag, the analog output and the binary output at registers  *)
(* 1..3 and the unbound tag at 5, and leaves register 4 unmapped.          *)
(***************************************************************************)
EXTENDS FieldDevice

MCBinaryTags    == "tB" :> "mB"
MCAnalogTags    == ("tA" :> "mA") @@ ("tU" :> "mU")
MCBinaryModules == "mB" :> "dB"
MCAnalogModules == ("mA" :> "dA") @@ ("mI" :> "dI")
MCInternalBinaryInit == [t \in {} |-> FALSE]
MCInternalAnalogInit == "iA" :> 0
MCBinaryDevices == {"dB"}
MCAnalogDevices == {"dA", "dI"}
MCOutputDevices == {"dB", "dA"}
MCAnalogValues  == {0, 1}

MCProgram   == <<"tA", "iA">>
MCRegisters == (1 :> "iA") @@ (2 :> "tA") @@ (3 :> "tB") @@ (5 :> "tU")
MCRegType   == [t \in {"iA", "tA", "tB", "tU"} |-> "uint16"]
MCRequests  ==
    { [fn |-> "write", start |-> 1, count |-> 3],
      [fn |-> "write", start |-> 3, count |-> 2],
      [fn |-> "read",  start |-> 1, count |-> 3],
      [fn |-> "read",  start |-> 5, count |-> 1],
      [fn |-> "write", start |-> 5, count |-> 1] }

\* The unbound tag's register typed "sunssf", a scale-factor register that
\* Register.Value does not decode.
MCRegTypeSunssf == [MCRegType EXCEPT !["tU"] = "sunssf"]

\* The liveness run's request: a write over the internal, analog and binary
\* registers, which takes the caller lock and then the map lock per
\* register, with the UpdateBinaryTag fallback for the binary one.
MCLiveRequests == { [fn |-> "write", start |-> 1, count |-> 3] }

\* The liveness run's program: one line, so Execute goes through the
\* points (and their nested RLock) and writes an output back.
MCLiveProgram == <<"tA">>

\* No logic program: the liveness runs need the smaller state space.
MCNoProgram == <<>>
=============================================================================
