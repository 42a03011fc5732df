------------------------- MODULE MCConfiguration -------------------------
(***************************************************************************)
(* Configuration files for TLC.  The full device has two external tags    *)
(* bound through the <input> block (two binary entries with distinct ids  *)
(* and an analog one), one bound through the <output> block by an entry   *)
(* that lists <name> before <id>, an output entry with two names, an       *)
(* internal tag and an outstation with two registers.  The other files     *)
(* reorder, drop or break children, reuse an id across the two blocks, or  *)
(* put a second field device, or none, under the root.                     *)
(***************************************************************************)
EXTENDS Configuration

El(t, x, k) == [tag |-> t, text |-> x, kids |-> k]
Leaf(t, x) == El(t, x, <<>>)

MCNumbers ==
    ("100" :> 100) @@ ("0" :> 0) @@ ("-1" :> -1) @@ ("502" :> 502)
    @@ ("40001" :> 40001) @@ ("40002" :> 40002)

External(n, io, ty) == El("external-tag", "", <<Leaf("name", n), Leaf("io", io), Leaf("type", ty)>>)
Internal(n, v) == El("internal-tag", "", <<Leaf("name", n), Leaf("value", v)>>)
Entry(k, id, n) == El(k, "", <<Leaf("id", id), Leaf("name", n)>>)
EntryNameFirst(k, id, n) == El(k, "", <<Leaf("name", n), Leaf("id", id)>>)
Register(a, s, ty, t) ==
    El("register", "", <<Leaf("address", a), Leaf("scaling-factor", s), Leaf(ty, t)>>)

TagsOK ==
    El("tags", "", <<External("tB", "m1", "binary"), External("tA", "m2", "analog"),
                     External("tC", "m4", "analog"), Internal("iA", "100")>>)
\* An internal tag whose value ParseFloat rejects.
TagsBad == El("tags", "", <<External("tB", "m1", "binary"), Internal("iA", "1e")>>)

Inputs ==
    El("input", "", <<Leaf("endpoint", "udp://eth0;239.0.0.1:40000"),
                      Entry("binary", "m1", "d1"), Entry("binary", "m3", "d3"),
                      Entry("analog", "m2", "d2")>>)
Outputs ==
    El("output", "", <<Leaf("endpoint", "tcp://10.0.0.2:1330"),
                       EntryNameFirst("analog", "m4", "d4"),
                       El("binary", "", <<Leaf("id", "m5"), Leaf("name", "d5"), Leaf("name", "d6")>>)>>)
\* An output block that reuses the input's binary id m1 for another device.
OutputsSharedId ==
    El("output", "", <<Leaf("endpoint", "tcp://10.0.0.2:1330"), Entry("binary", "m1", "d7")>>)

Comms ==
    El("comms", "", <<El("sunspec-tcp-server", "",
                         <<Leaf("ip", "10.0.0.1"), Leaf("port", "502"),
                           Register("40001", "0", "uint16", "iA"),
                           Register("40002", "-1", "int16", "tA")>>)>>)
\* A register without an address.
CommsNoAddress ==
    El("comms", "", <<El("sunspec-tcp-server", "",
                         <<Leaf("port", "502"),
                           El("register", "", <<Leaf("uint16", "iA")>>)>>)>>)

Cycle == Leaf("cycle-time", "100")
Name == Leaf("name", "rtu-1")
FD(k) == El("field-device", "", k)

MCRoots ==
    { <<FD(<<Name, Cycle, TagsOK, Inputs, Outputs, Leaf("logic", "tA = iA"), Comms>>)>>,
      \* <comms> before <tags>: HasTag does not know the registers' tags yet.
      <<FD(<<Name, Cycle, Comms, TagsOK, Inputs, Outputs>>)>>,
      <<Leaf("version", "2"), FD(<<TagsOK, Outputs, Inputs, Cycle>>)>>,
      <<FD(<<TagsOK, Inputs, Cycle>>)>>,
      <<FD(<<TagsOK, Outputs, Cycle>>)>>,
      <<FD(<<TagsOK, Inputs, Outputs>>)>>,
      <<FD(<<TagsBad, Inputs, Outputs, Cycle>>)>>,
      <<FD(<<Name, Leaf("cycle-time", "fast")>>)>>,
      <<FD(<<Name, Leaf("modbus", "")>>)>>,
      <<FD(<<TagsOK, Inputs, OutputsSharedId, Cycle, Leaf("logic", "uncompilable")>>)>>,
      <<FD(<<TagsOK, Inputs, Outputs, Cycle, CommsNoAddress>>)>>,
      <<FD(<<TagsOK, Inputs, Outputs, Cycle>>), FD(<<TagsOK, Inputs, Outputs, Cycle, Comms>>)>>,
      <<Leaf("version", "2")>> }
=============================================================================
