---------------------------- MODULE EmuDevices ----------------------------
(* Devices, handles and the packets of a transfer in the emulation of          *)
(* libusb-1.0 on Windows.  libusb-win32 has no reference counts, no contexts   *)
(* and no descriptors of isochronous packets; all three are made here.         *)
EXTENDS Integers, Sequences, FiniteSets, FiniteSetsExt, SequencesExt

CONSTANTS EmuDevs,
          Wanted,       \* those of the product that is opened by its number
          MaxLists, MaxHandles,
          Slots, PktLen, PktEnd

ASSUME PacketsAssumption == Slots \in Nat /\ PktLen \in Nat /\ PktEnd \in Nat

VARIABLES present,      \* the devices libusb-win32 finds
          record,       \* ctx->devices: [ref, open], or Unregistered
          opened,       \* the handles open at libusb-win32
          lists,        \* the device lists a client has not freed
          context,      \* "in use", "exiting", "deleted" or "crashed"
          counted,      \* the handles libusb_exit() has counted and not closed
          tx            \* a transfer: what the device sent and the packets' lengths

regVars == <<present, record, opened, lists, context, counted>>
emuDevVars == <<regVars, tx>>

Unregistered == [ref |-> 0, open |-> 0]
Registered == {d \in EmuDevs : record[d] # Unregistered}
Unsent == [slot \in 1 .. Slots |-> [kind |-> "none", bytes |-> 0]]
Zero == [slot \in 1 .. Slots |-> 0]

EmuDevInit ==
  /\ present = EmuDevs /\ record = [d \in EmuDevs |-> Unregistered]
     /\ opened = [d \in EmuDevs |-> 0]
  /\ lists = <<>> /\ context = "in use" /\ counted = [d \in EmuDevs |-> 0]
  /\ tx = [sent |-> Unsent, read |-> 0, lengths |-> Zero, out |-> FALSE]

----------------------------------------------------------------------------
(* Reference counts: one for each list a device was found for, one for each   *)
(* handle.  At zero the record goes, with its handles and transfers.          *)

Ref(r) == [r EXCEPT !.ref = @ + 1]
Unref(r) == IF r.ref <= 1 THEN Unregistered ELSE [r EXCEPT !.ref = @ - 1]

\* All the records are listed, but only those of devices that were found now
\* are counted.
Listed == Registered \cup present
WithFound(rec) == [d \in EmuDevs |-> IF d \in present THEN Ref(rec[d]) ELSE rec[d]]
WithFreed(rec, list) == [d \in EmuDevs |-> IF d \in list THEN Unref(rec[d]) ELSE rec[d]]

GetDeviceList ==
  /\ context = "in use" /\ Len(lists) < MaxLists
  /\ lists' = Append(lists, Listed) /\ record' = WithFound(record)
  /\ UNCHANGED <<present, opened, context, counted>>

FreeDeviceList(i) ==
  /\ record' = WithFreed(record, lists[i]) /\ lists' = RemoveAt(lists, i)
  /\ UNCHANGED <<present, opened, context, counted>>

\* A mutant: a handle is not counted.
MutWithHandle(r) == [r EXCEPT !.open = @ + 1]
WithHandle(r) == [r EXCEPT !.open = @ + 1, !.ref = @ + 1]

\* A device is opened from a list.  Opening that fails leaves everything alone.
OpenListed(d) ==
  /\ context = "in use" /\ opened[d] < MaxHandles /\ d \in present \cap Registered
  /\ \E i \in 1 .. Len(lists) : d \in lists[i]
  /\ record' = [record EXCEPT ![d] = WithHandle(@)] /\ opened' = [opened EXCEPT ![d] = @ + 1]
  /\ UNCHANGED <<present, lists, context, counted>>

\* libusb_open_device_with_vid_pid() goes on after a device it has opened until
\* one cannot be opened, and returns the last.
OpenWanted ==
  /\ context = "in use"
  /\ \E some \in SUBSET (Wanted \cap present) :
       /\ \A d \in some : opened[d] < MaxHandles
       /\ record' = LET rec == WithFound(record)
                        held == [d \in EmuDevs |-> IF d \in some THEN WithHandle(rec[d]) ELSE rec[d]]
                    IN  WithFreed(held, Listed)
       /\ opened' = [d \in EmuDevs |-> IF d \in some THEN opened[d] + 1 ELSE opened[d]]
  /\ UNCHANGED <<present, lists, context, counted>>

\* A handle of a record that is gone is gone with it.
WithoutHandle(r) == Unref([r EXCEPT !.open = @ - 1])
Close(d) ==
  /\ record[d].open > 0
  /\ record' = [record EXCEPT ![d] = WithoutHandle(@)] /\ opened' = [opened EXCEPT ![d] = @ - 1]
  /\ UNCHANGED <<present, lists>>

CloseHandle(d) == context = "in use" /\ Close(d) /\ UNCHANGED <<context, counted>>

\* libusb_exit() takes a record after the other until none is left, and closes
\* as many of its handles as it has counted beforehand.
BeginExit ==
  /\ context = "in use" /\ lists = <<>> /\ context' = "exiting"
  /\ UNCHANGED <<present, record, opened, lists, counted>>

Closing == {d \in EmuDevs : counted[d] > 0}
ExitCount(d) ==
  /\ context = "exiting" /\ Closing = {} /\ d \in Registered
  /\ counted' = [counted EXCEPT ![d] = record[d].open]
  /\ UNCHANGED <<present, record, opened, lists, context>>

\* The record may have gone with a handle before the last, and is used all the
\* same.
ExitClose(d) ==
  /\ context = "exiting" /\ d \in Closing /\ counted' = [counted EXCEPT ![d] = @ - 1]
  /\ IF d \in Registered THEN Close(d) /\ UNCHANGED context
     ELSE context' = "crashed" /\ UNCHANGED <<present, record, opened, lists>>

ExitDone ==
  /\ context = "exiting" /\ Closing = {} /\ Registered = {} /\ context' = "deleted"
  /\ UNCHANGED <<present, record, opened, lists, counted>>

UnplugDevice(d) ==
  /\ d \in present /\ present' = present \ {d}
  /\ UNCHANGED <<record, opened, lists, context, counted>>

----------------------------------------------------------------------------
(* The packets of a transfer.  libusb-win32 says how many bytes came in all;   *)
(* each packet's share is inferred from the header at its place.               *)

\* What a camera sends in a packet's time: nothing, or a packet of a frame.
Packets == {[kind |-> "none", bytes |-> 0], [kind |-> "part", bytes |-> PktLen],
            [kind |-> "last", bytes |-> PktEnd]}
Total(sent) ==
  LET bytes[n \in 0 .. Slots] == IF n = 0 THEN 0 ELSE bytes[n - 1] + sent[n].bytes
  IN  bytes[Slots]

\* A mutant: the transfer is submitted as it is.
MutCleared(t) == t

\* libusbemu_clear_transfer(), of a transfer that has brought something.
Cleared(t) == IF t.read > 0 THEN [t EXCEPT !.read = 0, !.sent = Unsent, !.lengths = Zero] ELSE t

SubmitAgain == ~tx.out /\ tx' = [Cleared(tx) EXCEPT !.out = TRUE]

Least(a, b) == IF a < b THEN a ELSE b
Share(kind, remaining) ==
  CASE kind = "part" -> Least(remaining, PktLen)
    [] kind = "last" -> Least(remaining, PktEnd)
    [] OTHER -> 0

\* The packets are taken in their order, each from what the ones before left.
Lengths(sent, read) ==
  LET remaining[n \in 0 .. Slots] ==
        IF n = 0 THEN read
        ELSE remaining[n - 1] - Share(sent[n].kind, remaining[n - 1])
  IN  [slot \in 1 .. Slots |-> Share(sent[slot].kind, remaining[slot - 1])]

\* PreprocessTransfer() is called when anything was read.
Reaped(t, sent) ==
  [t EXCEPT !.out = FALSE, !.sent = sent, !.read = Total(sent),
            !.lengths = IF Total(sent) > 0 THEN Lengths(sent, Total(sent)) ELSE t.lengths]

ReapPackets == tx.out /\ \E sent \in [1 .. Slots -> Packets] : tx' = Reaped(tx, sent)

----------------------------------------------------------------------------

RegistryNext ==
  \/ GetDeviceList \/ OpenWanted \/ BeginExit \/ ExitDone
  \/ \E i \in 1 .. Len(lists) : FreeDeviceList(i)
  \/ \E d \in EmuDevs : OpenListed(d) \/ CloseHandle(d) \/ ExitCount(d) \/ ExitClose(d)
     \/ UnplugDevice(d)
PacketsNext == SubmitAgain \/ ReapPackets

ExitFairness ==
  /\ WF_regVars(ExitDone) /\ WF_regVars(\E d \in EmuDevs : ExitCount(d) \/ ExitClose(d))

----------------------------------------------------------------------------

\* The records of the devices that are there count what refers to them, the
\* lists they are in and their handles, in whatever order lists are taken and
\* freed: none goes while a client has a pointer to it.
RefsExact == context = "in use" => \A d \in present :
  /\ record[d].ref = Cardinality({i \in 1 .. Len(lists) : d \in lists[i]}) + opened[d]
  /\ record[d].open = opened[d]

\* Whatever a transfer brought before, each packet has the length that the
\* camera sent: no packet takes bytes of another and none is left over.
LengthsExact == ~tx.out => \A slot \in 1 .. Slots : tx.lengths[slot] = tx.sent[slot].bytes

\* libusb_exit() ends: the handles it can close are all that keeps a record.
\* Only the record of a device that was unplugged goes before its handles do.
ExitEnds ==
  context = "exiting" ~> (context = "deleted" \/ (context = "crashed" /\ present # EmuDevs))

\* The safety of the registry and of a transfer's packets: references and lengths
\* are exact.
EmuDevInv == RefsExact /\ LengthsExact
=============================================================================
