----------------------------- MODULE MCConnection -----------------------------
(* One chunk of each interesting shape: several packets may share a read.   *)
EXTENDS Connection

MCChunks ==
  {<<>>, <<"Send">>, <<"DeliverIpPacket">>,
   <<"Send", "Established", "DeliverIpPacket">>,
   <<"EstablishedNoAddress">>, <<"Send", "Disconnected">>, <<"Fatal">>,
   <<"Send", "Malformed">>}
===============================================================================
