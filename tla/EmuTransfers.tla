--------------------------- MODULE EmuTransfers ---------------------------
(* Asynchronous transfers in the emulation of libusb-1.0 on Windows.  A thread *)
(* for each endpoint reaps the requests of libusb-win32 and calls back; three  *)
(* manual-reset events for each thread are meant to make it wait until a       *)
(* client is in libusb_handle_events().  The client is libfreenect's stream:   *)
(* it submits its transfers, submits each again in its callback until the      *)
(* stream is dead, cancels them all and waits until every one has died.        *)
EXTENDS Integers, Sequences, FiniteSets

CONSTANTS Endpoints, Transfers,
          Of,         \* a transfer's endpoint
          Faults      \* of {"lost", "error", "refused"}

ASSUME EmuAssumption == Of \in [Transfers -> Endpoints]

VARIABLES xfer,       \* the transfers: the client's view, the status, libusb-win32's
          ep,         \* the endpoints: lists, thread, events and the client's stream
          handler,    \* where libusb_handle_events() is
          waits,      \* the endpoints whose doneDelivering it waits for
          lost        \* the device was unplugged

emuVars == <<xfer, ep, handler, waits, lost>>

Xfers(e) == {t \in Transfers : Of[t] = e}
NoReap == [list |-> <<>>, ready |-> <<>>, thr |-> "none", ptr |-> FALSE, requested |-> FALSE,
           want |-> FALSE, allow |-> FALSE, done |-> FALSE, phase |-> "stopped"]
Fresh == [state |-> "idle", status |-> "completed", usb |-> "idle"]

EmuInit ==
  /\ xfer = [t \in Transfers |-> Fresh] /\ ep = [e \in Endpoints |-> NoReap]
  /\ handler = "out" /\ waits = {} /\ lost = FALSE

----------------------------------------------------------------------------
(* The client.  It starts and stops a stream in the thread that handles       *)
(* events; its callback runs in the reaping thread.                           *)

Idle == handler = "out" /\ \A e \in Endpoints : ep[e].phase # "starting"
Free == Idle /\ \A e \in Endpoints : ep[e].phase # "stopping"
Same == UNCHANGED <<handler, waits, lost>>

StartStream(e) ==
  /\ Free /\ ep[e].phase = "stopped" /\ ep' = [ep EXCEPT ![e].phase = "starting"]
  /\ UNCHANGED xfer /\ Same

\* The thread is created with the first transfer, and whenever it is gone.
WithThread(p) == IF p.ptr THEN p ELSE [p EXCEPT !.ptr = TRUE, !.thr = "attach", !.requested = FALSE]

\* The list has no lock.  Between two writes of an Append() (libusbemu_internal.h:
\* 92-96) the thread may remove a node (134-138), take the new one for the head or
\* append another: a node is then in no list, in two of them, or beyond the list's
\* end.  What the thread does from there is not followed: it is "wild".
Wild(e) == ep[e].thr = "wild"
Racing(p) == p.thr \in {"top", "reap", "deliver", "losing", "wild"}
GoneWild(p) == [p EXCEPT !.list = <<>>, !.ready = <<>>, !.thr = "wild"]

Submit(t) ==
  LET e == Of[t]
  IN  /\ ep[e].phase = "starting" /\ xfer[t].state = "idle" /\ Same
      /\ \/ /\ "refused" \in Faults /\ xfer' = [xfer EXCEPT ![t].state = "dead"]
            /\ UNCHANGED ep
         \/ /\ xfer' = [xfer EXCEPT ![t].state = "out", ![t].usb = "queued"]
            /\ \/ /\ ~Wild(e)
                  /\ ep' = [ep EXCEPT ![e] = WithThread([ep[e] EXCEPT !.list = Append(@, t)])]
               \/ Racing(ep[e]) /\ ep' = [ep EXCEPT ![e] = GoneWild(@)]

Started(e) ==
  /\ ep[e].phase = "starting" /\ \A t \in Xfers(e) : xfer[t].state # "idle"
  /\ ep' = [ep EXCEPT ![e].phase = "streaming"] /\ UNCHANGED xfer /\ Same

\* All the transfers are cancelled: one that has completed in the meantime is
\* marked all the same.
Cancelled(x) == [x EXCEPT !.status = "cancelled", !.usb = IF @ = "queued" THEN "cancelled" ELSE @]

StopStream(e) ==
  /\ Free /\ ep[e].phase = "streaming" /\ ep' = [ep EXCEPT ![e].phase = "stopping"] /\ Same
  /\ \E late \in SUBSET {t \in Xfers(e) : xfer[t].usb = "queued"} :
       xfer' = [t \in Transfers |->
                  IF t \in Xfers(e)
                  THEN IF t \in late THEN [xfer[t] EXCEPT !.status = "cancelled"] ELSE Cancelled(xfer[t])
                  ELSE xfer[t]]

\* Every transfer has died and is freed, one too that a thread which lost the
\* device is about to cancel.
\* A mutant: the transfers are freed when they are cancelled.
MutAllDead(e) == \A t \in Xfers(e) : xfer[t].state = "dead" \/ xfer[t].status = "cancelled"
AllDead(e) == \A t \in Xfers(e) : xfer[t].state = "dead"

Stopped(e) ==
  /\ handler = "out" /\ ep[e].phase = "stopping" /\ AllDead(e)
  /\ xfer' = [t \in Transfers |-> IF t \in Xfers(e) THEN Fresh ELSE xfer[t]]
  /\ LET p == IF ep[e].thr = "losing" THEN GoneWild(ep[e]) ELSE ep[e]
     IN  ep' = [ep EXCEPT ![e] = [p EXCEPT !.phase = "stopped"]]
  /\ Same

\* The callback: a dead stream counts the transfer, a live one submits it again.
CallBack(t, p, st) ==
  \/ /\ st = "completed" /\ p.phase # "stopping"
     /\ xfer' = [xfer EXCEPT ![t].status = st, ![t].usb = "queued"]
     /\ ep' = [ep EXCEPT ![Of[t]] = [p EXCEPT !.list = Append(@, t)]]
  \/ /\ st # "completed" \/ p.phase = "stopping" \/ "refused" \in Faults
     /\ xfer' = [xfer EXCEPT ![t].status = st, ![t].usb = "idle", ![t].state = "dead"]
     /\ ep' = [ep EXCEPT ![Of[t]] = p]

----------------------------------------------------------------------------
(* libusb_handle_events(), which holds the pool's lock throughout.            *)

Pool == {e \in Endpoints : ep[e].thr \notin {"none", "attach", "leaving"}}
Wanting == {e \in Pool : ep[e].want}

\* While a stream stops it is called as long as a transfer is alive.
HandleEvents ==
  /\ Idle /\ (\A e \in Endpoints : ep[e].phase = "stopping" => ~AllDead(e))
  /\ handler' = "waiting" /\ UNCHANGED <<xfer, ep, waits, lost>>

Awake ==
  /\ handler = "waiting" /\ handler' = IF Wanting = {} THEN "out" ELSE "allowing"
  /\ UNCHANGED <<xfer, ep, waits, lost>>

Allow(e) ==
  /\ handler = "allowing" /\ e \in Wanting
  /\ ep' = [ep EXCEPT ![e].allow = TRUE, ![e].want = FALSE] /\ waits' = waits \cup {e}
  /\ UNCHANGED <<xfer, handler, lost>>

AllAllowed ==
  /\ handler = "allowing" /\ Wanting = {} /\ handler' = "delivery"
  /\ UNCHANGED <<xfer, ep, waits, lost>>

\* WaitAll(), which waits for any one.
Delivered ==
  /\ handler = "delivery" /\ (\E e \in waits : ep[e].done)
  /\ handler' = "out" /\ waits' = {} /\ UNCHANGED <<xfer, ep, lost>>

----------------------------------------------------------------------------
(* ReapThreadProc().                                                          *)

Request(p) == [p EXCEPT !.requested = TRUE, !.done = FALSE, !.want = TRUE]

Attach(e) ==
  /\ ep[e].thr = "attach" /\ handler = "out" /\ ep' = [ep EXCEPT ![e].thr = "top"]
  /\ UNCHANGED xfer /\ Same

Top(e) ==
  LET p == ep[e]
  IN  /\ p.thr = "top" /\ UNCHANGED xfer /\ Same
      /\ ep' = [ep EXCEPT ![e] =
           CASE p.list = <<>> /\ p.ready = <<>> -> [p EXCEPT !.thr = "exit"]
             [] p.ready # <<>> /\ ~p.requested -> [Request(p) EXCEPT !.thr = "reap"]
             [] p.ready # <<>> /\ p.requested /\ p.allow ->
                  [p EXCEPT !.requested = FALSE, !.thr = "deliver"]
             [] OTHER -> [p EXCEPT !.thr = "reap"]]

Deliver(e) ==
  LET p == ep[e]
  IN  /\ p.thr = "deliver" /\ Same
      /\ IF p.ready = <<>>
         THEN ep' = [ep EXCEPT ![e] = [p EXCEPT !.done = TRUE, !.thr = "reap"]]
            /\ UNCHANGED xfer
         ELSE LET t == Head(p.ready)
              IN  CallBack(t, [p EXCEPT !.ready = Tail(@)], xfer[t].status)

\* ReapTransfer() of the head: it completed,
ReapCompleted(e) ==
  LET p == ep[e]
      t == Head(p.list)
  IN  /\ p.thr = "reap" /\ p.list # <<>> /\ ~lost /\ xfer[t].usb = "queued" /\ Same
      /\ xfer' = [xfer EXCEPT ![t].status = "completed", ![t].usb = "idle"]
      /\ ep' = [ep EXCEPT ![e] = [p EXCEPT !.list = Tail(@), !.ready = Append(@, t),
         !.thr = "top"]]

\* the wait for it ended, which a cancelled one is called back for,
ReapTimeout(e) ==
  LET p == ep[e]
      t == Head(p.list)
  IN  /\ p.thr = "reap" /\ p.list # <<>> /\ ~lost /\ Same
      /\ IF xfer[t].status = "cancelled"
         THEN CallBack(t, [p EXCEPT !.list = Tail(@), !.thr = "top"], "cancelled")
         ELSE ep' = [ep EXCEPT ![e].thr = "top"] /\ UNCHANGED xfer

\* it failed and is cancelled,
ReapError(e) ==
  LET p == ep[e]
      t == Head(p.list)
  IN  /\ "error" \in Faults /\ p.thr = "reap" /\ p.list # <<>> /\ ~lost
     /\ xfer[t].usb = "queued" /\ Same
      /\ xfer' = [xfer EXCEPT ![t] = Cancelled(@)] /\ ep' = [ep EXCEPT ![e].thr = "top"]

\* or the device is lost: the client hears of this transfer, which is cancelled
\* and marked once more after that,
ReapLost(e) ==
  LET p == ep[e]
  IN  /\ p.thr = "reap" /\ p.list # <<>> /\ lost /\ Same
      /\ CallBack(Head(p.list), [p EXCEPT !.list = Tail(@), !.thr = "losing"], "no device")

\* and the others are dropped from both lists.
LoseRest(e) ==
  /\ ep[e].thr = "losing" /\ UNCHANGED xfer /\ Same
  /\ ep' = [ep EXCEPT ![e] = [@ EXCEPT !.list = <<>>, !.ready = <<>>, !.thr = "top"]]

\* With no transfer left to reap it waits for the permission to deliver.
ReapNone(e) ==
  LET p == ep[e]
  IN  /\ p.thr = "reap" /\ p.list = <<>> /\ UNCHANGED xfer /\ Same
      /\ ep' = [ep EXCEPT ![e] = [(IF p.requested THEN p ELSE Request(p)) EXCEPT !.thr = "wait"]]

Wait(e) ==
  /\ ep[e].thr = "wait" /\ ep[e].allow /\ ep' = [ep EXCEPT ![e].thr = "top"]
  /\ UNCHANGED xfer /\ Same

\* A mutant: it waits for the lock without waking the client that holds it.
MutExitSilent(e) ==
  /\ ep[e].thr = "exit" /\ handler = "out" /\ UNCHANGED xfer /\ Same
  /\ ep' = [ep EXCEPT ![e] = [@ EXCEPT !.want = FALSE, !.allow = FALSE, !.done = FALSE,
     !.thr = "leaving"]]

\* It takes its events out of the pool, waking a client that holds the pool.
Exit(e) ==
  /\ ep[e].thr = "exit" /\ UNCHANGED xfer /\ Same
  /\ ep' = [ep EXCEPT ![e] =
       IF handler = "out" THEN [@ EXCEPT !.want = FALSE, !.allow = FALSE, !.done = FALSE,
          !.thr = "leaving"]
       ELSE [@ EXCEPT !.want = TRUE, !.done = TRUE]]

Leave(e) ==
  /\ ep[e].thr = "leaving" /\ ep' = [ep EXCEPT ![e].thr = "none", ![e].ptr = FALSE]
  /\ UNCHANGED xfer /\ Same

Unplug ==
  /\ "lost" \in Faults /\ ~lost /\ lost' = TRUE /\ UNCHANGED <<xfer, ep, handler, waits>>

Reaper(e) ==
  \/ Attach(e) \/ Top(e) \/ Deliver(e) \/ ReapCompleted(e) \/ ReapTimeout(e) \/ ReapLost(e)
  \/ LoseRest(e) \/ ReapNone(e) \/ Wait(e) \/ Exit(e) \/ Leave(e)

EmuNext ==
  \/ HandleEvents \/ Awake \/ AllAllowed \/ Delivered \/ Unplug
  \/ \E t \in Transfers : Submit(t)
  \/ \E e \in Endpoints :
       \/ StartStream(e) \/ Started(e) \/ StopStream(e) \/ Stopped(e) \/ Allow(e)
       \/ Reaper(e) \/ ReapError(e)

\* An isochronous request completes in its time, data or none.  Setting an event
\* releases whoever waits for it, and a lock that is free again and again is
\* taken in the end; a thread that leaves does not win every race for it.
EmuFairness ==
  /\ WF_emuVars(Awake) /\ SF_emuVars(Delivered) /\ SF_emuVars(AllAllowed)
  /\ WF_emuVars(HandleEvents /\ ~Free) /\ WF_emuVars(\E t \in Transfers : Submit(t))
  /\ \A e \in Endpoints :
       /\ WF_emuVars(Allow(e)) /\ WF_emuVars(Reaper(e)) /\ WF_emuVars(Started(e))
       /\ WF_emuVars(Stopped(e)) /\ SF_emuVars(Attach(e)) /\ SF_emuVars(ReapCompleted(e))
       /\ SF_emuVars(Exit(e) /\ handler = "out")

----------------------------------------------------------------------------

Held(e) == ep[e].list \o ep[e].ready
Places(t) == {i \in 1 .. Len(Held(Of[t])) : Held(Of[t])[i] = t}

\* While a thread has not gone wild, a transfer is in one of its endpoint's lists
\* at most, and in one exactly as long as the client waits for its callback: no
\* callback is made twice, and none is forgotten unless the device was lost.
EmuTypeOK ==
  /\ \A e \in Endpoints : ~Wild(e) => \A i \in 1 .. Len(Held(e)) : Of[Held(e)[i]] = e
  /\ \A t \in Transfers : ~Wild(Of[t]) =>
       /\ Cardinality(Places(t)) <= 1
       /\ Places(t) # {} => xfer[t].state = "out"
       /\ xfer[t].state = "out" /\ ~lost => Places(t) # {}

\* libusb_handle_events() waits only for threads that are still in the pool: a
\* thread does not destroy an event somebody waits for.
WaitsForLiving == waits \subseteq Pool

\* The transfers a stream frees when it has stopped are in no list, not with
\* libusb-win32 any more and not in the hands of the thread, unless it is wild.
FreedIsDone == \A e \in Endpoints :
  ep[e].phase = "stopped" /\ ~Wild(e) =>
    /\ Held(e) = <<>> /\ ep[e].thr # "losing"
    /\ \A t \in Xfers(e) : xfer[t].usb = "idle"

\* libusb_handle_events() returns: a thread that leaves wakes the client that
\* waits for it.  A wild one may not.
HandleReturns == handler # "out" ~> (handler = "out" \/ \E e \in Endpoints : Wild(e))

\* A stream that is stopped comes to its end, unless the device was lost, a
\* thread is wild, or one left while transfers were submitted.
Stranded(e) == ep[e].list # <<>> /\ ep[e].thr \in {"exit", "leaving", "none"}
StopEnds == \A e \in Endpoints :
  ep[e].phase = "stopping" ~>
    (ep[e].phase = "stopped" \/ lost \/ (\E f \in Endpoints : Wild(f)) \/ Stranded(e))

\* The transfers' safety: each is in one list as long as a callback is due,
\* nobody waits for a thread that is gone, and nothing is freed that is listed.
EmuInv == EmuTypeOK /\ WaitsForLiving /\ FreedIsDone
=============================================================================
