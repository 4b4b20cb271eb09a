------------------------------ MODULE MCPackets ------------------------------
(***************************************************************************)
(* A small instance of PacketDispatch: a device that reports and answers,  *)
(* two futures and a callback that wait for its reports.                   *)
(***************************************************************************)
EXTENDS PacketDispatch

MCFrame(kind) == [from |-> "lamp", kind |-> kind]
MCFrames == {MCFrame("report"), MCFrame("address"), MCFrame("reply")}

MCListener(name, isFuture, from) ==
  [name |-> name, future |-> isFuture, from |-> from, wants |-> {"report"}]
MCListeners == {MCListener("one", TRUE, "lamp"), MCListener("other", TRUE, Anybody),
                MCListener("callback", FALSE, "lamp")}
=============================================================================
