---------------------------- MODULE MCLibusbEmu ----------------------------
(* One side of the emulation at a time: the transfers of an open stream, the   *)
(* devices and handles, or the packets of one transfer.  They share only the   *)
(* context's lock, which every call of a single client finds free.             *)
EXTENDS EmuTransfers, EmuDevices

VARIABLE part
vars == <<emuVars, emuDevVars, part>>

Init == EmuInit /\ EmuDevInit /\ part \in {"transfers", "devices", "packets"}
TransfersSide == part = "transfers" /\ EmuNext /\ UNCHANGED <<emuDevVars, part>>
DevicesSide == part = "devices" /\ RegistryNext /\ UNCHANGED <<emuVars, tx, part>>
PacketsSide == part = "packets" /\ PacketsNext /\ UNCHANGED <<emuVars, regVars, part>>
Spec == Init /\ [][TransfersSide \/ DevicesSide \/ PacketsSide]_vars /\ EmuFairness /\ ExitFairness

MCOf == [t \in Transfers |-> "video"]

\* Handling events, stopping a stream and ending the context come to an end,
\* whichever of client and thread goes first.
EmuCallsEnd == HandleReturns /\ StopEnds /\ ExitEnds
=============================================================================
