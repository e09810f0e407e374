--------------------------- MODULE MCPar2Packets ---------------------------
(***************************************************************************)
(* A set of two files, one of them empty, with two recovery slices; the    *)
(* same set around a recovery slice that holds another set's main packet   *)
(* and one that holds the first half of it; and that other set, which has  *)
(* the file of the first one, next to it.                                  *)
(***************************************************************************)
EXTENDS Par2Packets, TLC

FileA == [id |-> 1, size |-> 5, name |-> "a", slices |-> <<"x", "y">>]
FileB == [id |-> 2, size |-> 0, name |-> "b", slices |-> << >>]
FileC == [id |-> 3, size |-> 4, name |-> "c", slices |-> <<"z">>]

Data(n) == <<[kind |-> "data", value |-> n]>>

Other == [id |-> "other", slice |-> 8, files |-> <<FileC, [FileA EXCEPT !.slices = <<"w">>]>>,
          recovery |-> (1 :> Data(9)), creator |-> ""]
Plain == [id |-> "set", slice |-> 4, files |-> <<FileA, FileB>>,
          recovery |-> (0 :> Data(7)) @@ (1 :> Data(8)), creator |-> "parchive"]
Nesting == [Plain EXCEPT !.recovery =
    (0 :> Bytes(MainPacket(Other))) @@ (1 :> Data(8) \o <<Head(Bytes(MainPacket(Other)))>>)]

MCSets == {Plain, Nesting, Other}
MCStored == {
    <<WriteIndex(Plain), WriteVolume(Plain, <<0, 1>>)>>,
    <<WriteVolume(Plain, <<1>>), WriteIndex(Plain)>>,
    <<WriteVolume(Nesting, <<0>>), WriteVolume(Nesting, <<1>>)>>,
    <<WriteIndex(Plain), WriteVolume(Other, <<1>>), Bytes(Packet("set", "Unknown", << >>))>> }
=============================================================================
