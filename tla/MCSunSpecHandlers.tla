------------------------- MODULE MCSunSpecHandlers -------------------------
(***************************************************************************)
(* SunSpec maps for TLC.  Values are in tenths (Decimals = 1).             *)
(*                                                                         *)
(* The main map covers a signed, an unsigned 32-bit, a scaled 16-bit, an   *)
(* enum holding a binary tag, a 64-bit and a signed 32-bit register, with  *)
(* scalings -1, 0 and 1, and leaves registers 3 and 12 unmapped.  The      *)
(* stored values include negatives, values a register cannot hold and      *)
(* values its scaling truncates.                                           *)
(***************************************************************************)
EXTENDS SunSpecHandlers

MCRegisters ==
    (1 :> "a") @@ (2 :> "b") @@ (4 :> "c") @@ (5 :> "d") @@ (6 :> "e") @@ (10 :> "g")
MCTypes ==
    ("a" :> "int16") @@ ("b" :> "uint32") @@ ("c" :> "acc16") @@ ("d" :> "enum16")
    @@ ("e" :> "acc64") @@ ("g" :> "int32")
MCScalings ==
    (1 :> 0) @@ (2 :> -1) @@ (4 :> 1) @@ (5 :> 0) @@ (6 :> 0) @@ (10 :> -1)
MCMemories ==
    { [analog |-> ("a" :> a) @@ ("b" :> b) @@ ("c" :> c) @@ ("e" :> e) @@ ("g" :> g),
       binary |-> "d" :> d] :
        a \in {-10, 0, 400000}, b \in {0, 25, 400000}, c \in {25, 1000},
        e \in {0, 30}, g \in {-25, 7}, d \in BOOLEAN }
Read(s, c) == [fn |-> "read", start |-> s, count |-> c, payload |-> <<>>]
MCRequests ==
    {Read(1, 11), Read(1, 1), Read(2, 1), Read(3, 1), Read(4, 3), Read(10, 3)}

\* Thirty-two acc64 registers at 1, 5, .., 125, read in one request of the
\* Modbus maximum of 125 registers.
MCWideRegisters == [i \in {1 + 4 * k : k \in 0..31} |-> "e"]
MCWideTypes     == "e" :> "acc64"
MCWideScalings  == [i \in DOMAIN MCWideRegisters |-> 0]
MCWideMemories  == {[analog |-> "e" :> 0, binary |-> [t \in {} |-> FALSE]]}
MCWideRequests  == {Read(1, 125)}

\* One uint32 register written with a one-register request.
MCShortRegisters == 1 :> "b"
MCShortTypes     == "b" :> "uint32"
MCShortScalings  == 1 :> 0
MCShortMemories  == {[analog |-> "b" :> 0, binary |-> [t \in {} |-> FALSE]]}
MCShortRequests  ==
    {[fn |-> "write", start |-> 1, count |-> 1, payload |-> <<0, 7>>]}

=============================================================================
