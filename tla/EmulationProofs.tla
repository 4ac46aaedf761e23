-------------------------- MODULE EmulationProofs --------------------------
(***************************************************************************)
(* What stands in for a library.                                            *)
(*                                                                          *)
(* The emulation of libusb-1.0 on Windows, for any number of endpoints, of  *)
(* transfers, of devices, lists and handles, and with every fault: each     *)
(* transfer is in one list as long as a callback is due, nobody waits for a *)
(* thread that is gone, references to devices are counted exactly, and each *)
(* packet of a transfer has the length it was sent with.                    *)
(*                                                                          *)
(* fakenect, which stands in for libfreenect, for recordings of any length  *)
(* and any fate: they play without a bad end that their fate does not       *)
(* explain, never too fast, and in a loop like a tape.                      *)
(***************************************************************************)
EXTENDS EmuTransfers, EmuDevices, Player, SequenceTheorems, FiniteSetTheorems,
        WellFoundedInduction, TLAPS

-----------------------------------------------------------------------------
(* Lists of transfers. *)

In(t, s) == \E i \in 1 .. Len(s) : s[i] = t
OneEach(s) == \A i, j \in 1 .. Len(s) : s[i] = s[j] => i = j

LEMMA AppendTo ==
  ASSUME NEW S, NEW s \in Seq(S), NEW t \in S
  PROVE  /\ Append(s, t) \in Seq(S)
         /\ \A u : In(u, Append(s, t)) <=> In(u, s) \/ u = t
         /\ OneEach(s) /\ ~In(t, s) => OneEach(Append(s, t))
<1>1. /\ Append(s, t) \in Seq(S) /\ Len(s) \in Nat /\ Len(Append(s, t)) = Len(s) + 1
      /\ \A i \in 1 .. Len(s) : Append(s, t)[i] = s[i]
      /\ Append(s, t)[Len(s) + 1] = t
  OBVIOUS
<1> DEFINE a == Append(s, t)
<1> HIDE DEF a
<1>2. \A i \in 1 .. Len(a) : i \in 1 .. Len(s) \/ i = Len(s) + 1
  BY <1>1 DEF a
<1>3. \A u : In(u, a) <=> In(u, s) \/ u = t
  <2>1. \A i \in 1 .. Len(s) : i \in 1 .. Len(a) /\ a[i] = s[i]
    BY <1>1 DEF a
  <2>2. Len(s) + 1 \in 1 .. Len(a) /\ a[Len(s) + 1] = t
    BY <1>1 DEF a
  <2>3. QED
    BY <1>2, <2>1, <2>2 DEF In
<1>4. ASSUME OneEach(s), ~In(t, s) PROVE OneEach(a)
  <2>1. SUFFICES ASSUME NEW i \in 1 .. Len(a), NEW j \in 1 .. Len(a), a[i] = a[j]
                 PROVE  i = j
    BY DEF OneEach
  <2>2. CASE i \in 1 .. Len(s) /\ j \in 1 .. Len(s)
    BY <1>1, <1>4, <2>1, <2>2 DEF OneEach, a
  <2>3. CASE i \in 1 .. Len(s) /\ j = Len(s) + 1
    BY <1>1, <1>4, <2>1, <2>3 DEF In, a
  <2>4. CASE i = Len(s) + 1 /\ j \in 1 .. Len(s)
    BY <1>1, <1>4, <2>1, <2>4 DEF In, a
  <2>5. QED
    BY <1>2, <2>2, <2>3, <2>4
<1>5. QED
  BY <1>1, <1>3, <1>4 DEF a

LEMMA WithoutHead ==
  ASSUME NEW S, NEW s \in Seq(S), s # << >>
  PROVE  /\ Head(s) \in S /\ Tail(s) \in Seq(S) /\ In(Head(s), s)
         /\ \A u : In(u, s) => In(u, Tail(s)) \/ u = Head(s)
         /\ \A u : In(u, Tail(s)) => In(u, s)
         /\ OneEach(s) => OneEach(Tail(s)) /\ ~In(Head(s), Tail(s))
<1>1. /\ Len(s) \in Nat /\ Len(s) > 0 /\ Head(s) = s[1] /\ s[1] \in S
      /\ Tail(s) \in Seq(S) /\ Len(Tail(s)) = Len(s) - 1
      /\ \A i \in 1 .. Len(s) - 1 : Tail(s)[i] = s[i + 1]
  OBVIOUS
<1> DEFINE r == Tail(s)
<1>2. Len(r) = Len(s) - 1 /\ \A i \in 1 .. Len(r) : i + 1 \in 1 .. Len(s) /\ r[i] = s[i + 1]
  BY <1>1
<1>3. \A i \in 1 .. Len(s) : i = 1 \/ (i - 1 \in 1 .. Len(r) /\ r[i - 1] = s[i])
  BY <1>1
<1> HIDE DEF r
<1>4. In(Head(s), s)
  BY <1>1 DEF In
<1>5. \A u : In(u, s) => In(u, r) \/ u = Head(s)
  BY <1>1, <1>3 DEF In
<1>6. \A u : In(u, r) => In(u, s)
  BY <1>2 DEF In
<1>7. ASSUME OneEach(s) PROVE OneEach(r) /\ ~In(Head(s), r)
  <2>1. ASSUME NEW i \in 1 .. Len(r), NEW j \in 1 .. Len(r), r[i] = r[j] PROVE i = j
    <3>1. i + 1 = j + 1
      BY <1>2, <1>7, <2>1 DEF OneEach
    <3>2. i \in Int /\ j \in Int
      BY <1>1, <1>2
    <3>3. QED
      BY <3>1, <3>2
  <2>2. ASSUME NEW i \in 1 .. Len(r), r[i] = Head(s) PROVE FALSE
    <3>1. i + 1 = 1
      BY <1>1, <1>2, <1>7, <2>2 DEF OneEach
    <3>2. i \in Int /\ i > 0
      BY <1>1, <1>2
    <3>3. QED
      BY <3>1, <3>2
  <2>3. QED
    BY <2>1, <2>2 DEF OneEach, In
<1>8. QED
  BY <1>1, <1>4, <1>5, <1>6, <1>7 DEF r

LEMMA NoneIn == \A t : ~In(t, << >>)
BY DEF In

-----------------------------------------------------------------------------
(* The transfers' inductive invariant, endpoint by endpoint. *)

Threads == {"none", "attach", "top", "deliver", "reap", "wait", "exit", "leaving",
            "losing", "wild"}
Phases == {"stopped", "starting", "streaming", "stopping"}
Transfer == [state : {"idle", "out", "dead"}, status : {"completed", "cancelled", "no device"},
             usb : {"idle", "queued", "cancelled"}]
Reaping == [list : Seq(Transfers), ready : Seq(Transfers), thr : Threads, ptr : BOOLEAN,
            requested : BOOLEAN, want : BOOLEAN, allow : BOOLEAN, done : BOOLEAN,
            phase : Phases]

EmuTypes ==
  /\ xfer \in [Transfers -> Transfer] /\ ep \in [Endpoints -> Reaping]
  /\ handler \in {"out", "waiting", "allowing", "delivery"} /\ waits \subseteq Endpoints
  /\ lost \in BOOLEAN

\* Two lists without a transfer twice, of some of those that are out.
ListsHold(list, ready, out) ==
  /\ OneEach(list) /\ OneEach(ready)
  /\ \A t : In(t, list) => t \in out /\ ~In(t, ready)
  /\ \A t : In(t, ready) => t \in out

\* Of all of them.
ListsHoldAll(list, ready, out) == \A t \in out : In(t, list) \/ In(t, ready)

Out(e) == {t \in Xfers(e) : xfer[t].state = "out"}

\* The transfers the client waits for are in one of the lists, the others are
\* done with; none is waited for when the stream has stopped, nor in the hands of
\* a thread that lost the device.
EndpointInv(e) ==
  /\ ListsHold(ep[e].list, ep[e].ready, Out(e))
  /\ lost \/ Wild(e) \/ ListsHoldAll(ep[e].list, ep[e].ready, Out(e))
  /\ \A t \in Xfers(e) : t \in Out(e) \/ xfer[t].usb = "idle"
  /\ ep[e].phase = "stopped" => Out(e) = {} /\ ep[e].thr # "losing"
  /\ ep[e].thr = "losing" => lost

\* The events libusb_handle_events() waits for are there as long as it does.
WaitingInv ==
  /\ \A e \in Endpoints : ep[e].ptr <=> ep[e].thr # "none"
  /\ waits \subseteq Pool
  /\ handler \in {"out", "waiting"} => waits = {}

TransfersInv == EmuTypes /\ WaitingInv /\ \A e \in Endpoints : EndpointInv(e)

\* A step that leaves an endpoint's lists and its transfers' states alone.
LEMMA SameLists ==
  ASSUME NEW e \in Endpoints, EndpointInv(e),
         ep'[e].list = ep[e].list, ep'[e].ready = ep[e].ready,
         ep'[e].phase = "stopped" => ep[e].phase = "stopped",
         ep[e].thr = "wild" => ep'[e].thr = "wild",
         ep'[e].thr = "losing" => ep[e].thr = "losing",
         \A t \in Xfers(e) : xfer'[t].state = xfer[t].state
                             /\ (xfer[t].usb = "idle" => xfer'[t].usb = "idle"),
         lost => lost'
  PROVE  EndpointInv(e)'
<1>1. Xfers(e)' = Xfers(e)
  BY DEF Xfers
<1>2. Out(e)' = Out(e)
  BY <1>1 DEF Out
<1>3. QED
  BY <1>1, <1>2 DEF EndpointInv, Wild

\* A step that concerns endpoint d leaves the others' invariant alone.
LEMMA OtherEndpoints ==
  ASSUME NEW d \in Endpoints, \A e \in Endpoints : EndpointInv(e), EndpointInv(d)',
         \A e \in Endpoints \ {d} : ep'[e] = ep[e],
         \A t \in Transfers \ Xfers(d) : xfer'[t] = xfer[t],
         lost => lost'
  PROVE  \A e \in Endpoints : EndpointInv(e)'
<1> SUFFICES ASSUME NEW e \in Endpoints, e # d PROVE EndpointInv(e)'
  OBVIOUS
<1>1. \A t \in Xfers(e) : xfer'[t] = xfer[t]
  BY DEF Xfers
<1>2. QED
  BY <1>1, SameLists

\* A step after which the transfers' states are as they were, and the lists.
LEMMA QuietStep ==
  ASSUME \A e \in Endpoints : EndpointInv(e),
         \A e \in Endpoints :
           /\ ep'[e].list = ep[e].list /\ ep'[e].ready = ep[e].ready
           /\ ep'[e].phase = "stopped" => ep[e].phase = "stopped"
           /\ ep[e].thr = "wild" => ep'[e].thr = "wild"
           /\ ep'[e].thr = "losing" => ep[e].thr = "losing",
         \A t \in Transfers : xfer'[t].state = xfer[t].state
                              /\ (xfer[t].usb = "idle" => xfer'[t].usb = "idle"),
         lost => lost'
  PROVE  \A e \in Endpoints : EndpointInv(e)'
<1> SUFFICES ASSUME NEW e \in Endpoints PROVE EndpointInv(e)'
  OBVIOUS
<1>1. \A t \in Xfers(e) : xfer'[t].state = xfer[t].state
                          /\ (xfer[t].usb = "idle" => xfer'[t].usb = "idle")
  BY DEF Xfers
<1>2. QED
  BY <1>1, SameLists

-----------------------------------------------------------------------------
(* The callback. *)

\* It finds its transfer out of the lists, and leaves it queued again or dead.
LEMMA CallBackStep ==
  ASSUME EmuTypes, \A e \in Endpoints : EndpointInv(e),
         NEW d \in Endpoints, NEW t \in Out(d), NEW p \in Reaping,
         NEW st \in {"completed", "cancelled", "no device"}, CallBack(t, p, st),
         ListsHold(p.list, p.ready, Out(d) \ {t}),
         lost \/ ListsHoldAll(p.list, p.ready, Out(d) \ {t}),
         p.phase = ep[d].phase, p.thr # "wild", p.thr = "losing" => lost, lost' = lost
  PROVE  /\ xfer' \in [Transfers -> Transfer] /\ ep' \in [Endpoints -> Reaping]
         /\ \A e \in Endpoints : EndpointInv(e)'
         /\ \A e \in Endpoints \ {d} : ep'[e] = ep[e]
         /\ ep'[d].thr = p.thr /\ ep'[d].ptr = p.ptr
<1>1. t \in Transfers /\ Of[t] = d /\ xfer[t].state = "out" /\ t \in Xfers(d)
      /\ Xfers(d) \subseteq Transfers /\ Xfers(d)' = Xfers(d)
  BY DEF Out, Xfers
<1>2. xfer \in [Transfers -> Transfer] /\ ep \in [Endpoints -> Reaping]
  BY DEF EmuTypes
<1>3. ep[d].phase # "stopped"
  BY DEF EndpointInv
<1>4. CASE /\ xfer' = [xfer EXCEPT ![t].status = st, ![t].usb = "queued"]
           /\ ep' = [ep EXCEPT ![d] = [p EXCEPT !.list = Append(@, t)]]
  <2>1. p.list \in Seq(Transfers) /\ p.ready \in Seq(Transfers)
    BY DEF Reaping
  <2> DEFINE l == p.list
             a == Append(l, t)
  <2>2. a \in Seq(Transfers) /\ (\A u : In(u, a) <=> In(u, p.list) \/ u = t)
        /\ (OneEach(p.list) /\ ~In(t, p.list) => OneEach(a))
    <3>1. l \in Seq(Transfers)
      BY <2>1
    <3>2. QED
      <4> HIDE DEF l
      <4>1. /\ Append(l, t) \in Seq(Transfers)
            /\ \A u : In(u, Append(l, t)) <=> In(u, l) \/ u = t
            /\ OneEach(l) /\ ~In(t, l) => OneEach(Append(l, t))
        BY <1>1, <3>1, AppendTo
      <4>2. QED
        BY <4>1 DEF l
  <2>3. xfer' \in [Transfers -> Transfer] /\ ep' \in [Endpoints -> Reaping]
    <3>1. [xfer[t] EXCEPT !.status = st, !.usb = "queued"] \in Transfer
      BY <1>1, <1>2 DEF Transfer
    <3>2. xfer' = [xfer EXCEPT ![t] = [xfer[t] EXCEPT !.status = st, !.usb = "queued"]]
      BY <1>1, <1>2, <1>4
    <3>3. [p EXCEPT !.list = a] \in Reaping
      BY <2>2 DEF Reaping
    <3>4. ep' = [ep EXCEPT ![d] = [p EXCEPT !.list = a]]
      BY <1>4
    <3> HIDE DEF a
    <3>5. QED
      BY <1>1, <1>2, <3>1, <3>2, <3>3, <3>4
  <2>4. ep'[d].list = a /\ ep'[d].ready = p.ready /\ ep'[d].phase = ep[d].phase
        /\ ep'[d].thr = p.thr /\ ep'[d].ptr = p.ptr
    BY <1>2, <1>4 DEF Reaping
  <2>5. \A u \in Transfers : xfer'[u].state = xfer[u].state /\ (u # t => xfer'[u] = xfer[u])
    BY <1>1, <1>2, <1>4 DEF Transfer
  <2> HIDE DEF a
  <2>6. Out(d)' = Out(d)
    BY <1>1, <2>5 DEF Out
  <2>7. ListsHold(a, p.ready, Out(d))
    BY <2>2 DEF ListsHold
  <2>8. lost \/ ListsHoldAll(a, p.ready, Out(d))
    BY <2>2 DEF ListsHoldAll
  <2>9. \A u \in Xfers(d) : u \in Out(d) \/ xfer'[u].usb = "idle"
    BY <1>1, <2>5 DEF EndpointInv
  <2>10. EndpointInv(d)'
    BY <1>1, <1>3, <2>4, <2>6, <2>7, <2>8, <2>9 DEF EndpointInv
  <2>11. \A e \in Endpoints \ {d} : ep'[e] = ep[e]
    BY <1>2, <1>4
  <2>12. \A u \in Transfers \ Xfers(d) : xfer'[u] = xfer[u]
    BY <1>1, <2>5
  <2>13. QED
    BY <2>3, <2>4, <2>10, <2>11, <2>12, OtherEndpoints
<1>5. CASE /\ xfer' = [xfer EXCEPT ![t].status = st, ![t].usb = "idle", ![t].state = "dead"]
           /\ ep' = [ep EXCEPT ![d] = p]
  <2>1. xfer' \in [Transfers -> Transfer] /\ ep' \in [Endpoints -> Reaping]
    <3>1. [xfer[t] EXCEPT !.status = st, !.usb = "idle", !.state = "dead"] \in Transfer
      BY <1>1, <1>2 DEF Transfer
    <3>2. xfer' = [xfer EXCEPT ![t] = [xfer[t] EXCEPT !.status = st, !.usb = "idle",
                                                        !.state = "dead"]]
      BY <1>1, <1>2, <1>5
    <3>3. QED
      BY <1>1, <1>2, <1>5, <3>1, <3>2
  <2>2. ep'[d] = p
    BY <1>2, <1>5
  <2>3. xfer'[t].state = "dead" /\ xfer'[t].usb = "idle"
    BY <1>1, <1>2, <1>5 DEF Transfer
  <2>4. \A u \in Transfers : u # t => xfer'[u] = xfer[u]
    BY <1>1, <1>2, <1>5
  <2>5. Out(d)' = Out(d) \ {t}
    BY <1>1, <2>3, <2>4 DEF Out
  <2>6. \A u \in Xfers(d) : u \in Out(d) \ {t} \/ xfer'[u].usb = "idle"
    BY <1>1, <2>3, <2>4 DEF EndpointInv
  <2>7. EndpointInv(d)'
    BY <1>1, <1>3, <2>2, <2>5, <2>6 DEF EndpointInv
  <2>8. \A e \in Endpoints \ {d} : ep'[e] = ep[e]
    BY <1>2, <1>5
  <2>9. \A u \in Transfers \ Xfers(d) : xfer'[u] = xfer[u]
    BY <1>1, <2>4
  <2>10. QED
    BY <2>1, <2>2, <2>7, <2>8, <2>9, OtherEndpoints
<1>6. QED
  BY <1>1, <1>4, <1>5 DEF CallBack

-----------------------------------------------------------------------------
(* TransfersInv is inductive: one lemma per action. *)

RunOver == {"none", "attach", "leaving"}

\* A thread moves on, its lists untouched: it leaves the pool only while nobody
\* handles events.
LEMMA OneThread ==
  ASSUME TransfersInv, NEW d \in Endpoints, NEW q \in Reaping, ep' = [ep EXCEPT ![d] = q],
         q.list = ep[d].list, q.ready = ep[d].ready,
         q.phase = "stopped" => ep[d].phase = "stopped",
         ep[d].thr = "wild" => q.thr = "wild", q.thr = "losing" => ep[d].thr = "losing",
         q.ptr <=> q.thr # "none",
         q.thr \in RunOver => ep[d].thr \in RunOver \/ handler = "out",
         UNCHANGED <<xfer, handler, waits, lost>>
  PROVE  TransfersInv'
<1>1. ep \in [Endpoints -> Reaping] /\ EmuTypes'
  BY DEF TransfersInv, EmuTypes
<1>2. ep'[d] = q /\ \A e \in Endpoints \ {d} : ep'[e] = ep[e]
  BY <1>1
<1>3. WaitingInv'
  BY <1>2 DEF TransfersInv, WaitingInv, Pool, RunOver
<1>4. \A e \in Endpoints :
           /\ ep'[e].list = ep[e].list /\ ep'[e].ready = ep[e].ready
           /\ ep'[e].phase = "stopped" => ep[e].phase = "stopped"
           /\ ep[e].thr = "wild" => ep'[e].thr = "wild"
           /\ ep'[e].thr = "losing" => ep[e].thr = "losing"
  BY <1>2
<1>5. \A e \in Endpoints : EndpointInv(e)'
  BY <1>4, QuietStep DEF TransfersInv
<1>6. QED
  BY <1>1, <1>3, <1>5 DEF TransfersInv

LEMMA StreamSteps ==
  ASSUME TransfersInv, NEW e \in Endpoints, StartStream(e) \/ Started(e)
  PROVE  TransfersInv'
<1>1. PICK ph \in {"starting", "streaming"} : ep' = [ep EXCEPT ![e].phase = ph]
  BY DEF StartStream, Started
<1> DEFINE q == [ep[e] EXCEPT !.phase = ph]
<1>2. ep[e] \in Reaping /\ (ep[e].ptr <=> ep[e].thr # "none")
  BY DEF TransfersInv, EmuTypes, WaitingInv
<1>3. /\ q \in Reaping /\ q.list = ep[e].list /\ q.ready = ep[e].ready /\ q.phase # "stopped"
      /\ q.ptr = ep[e].ptr /\ q.thr = ep[e].thr
  BY <1>2 DEF Reaping, Phases
<1>4. ep' = [ep EXCEPT ![e] = q] /\ UNCHANGED <<xfer, handler, waits, lost>>
  BY <1>1 DEF StartStream, Started, Same
<1> HIDE DEF q
<1>5. QED
  BY <1>2, <1>3, <1>4, OneThread

LEMMA AttachStep ==
  ASSUME TransfersInv, NEW e \in Endpoints, Attach(e)
  PROVE  TransfersInv'
<1> DEFINE q == [ep[e] EXCEPT !.thr = "top"]
<1>1. ep[e] \in Reaping /\ (ep[e].ptr <=> ep[e].thr # "none") /\ ep[e].thr = "attach"
  BY DEF TransfersInv, EmuTypes, WaitingInv, Attach
<1>2. /\ q \in Reaping /\ q.list = ep[e].list /\ q.ready = ep[e].ready
      /\ q.phase = ep[e].phase /\ q.ptr = ep[e].ptr /\ q.thr = "top"
  BY <1>1 DEF Reaping, Threads
<1>3. ep' = [ep EXCEPT ![e] = q] /\ UNCHANGED <<xfer, handler, waits, lost>>
  BY DEF Attach, Same
<1> HIDE DEF q
<1>4. QED
  BY <1>1, <1>2, <1>3, OneThread DEF RunOver

LEMMA TopStep ==
  ASSUME TransfersInv, NEW e \in Endpoints, Top(e)
  PROVE  TransfersInv'
<1> DEFINE p == ep[e]
<1>1. p \in Reaping /\ (p.ptr <=> p.thr # "none") /\ p.thr = "top"
  BY DEF TransfersInv, EmuTypes, WaitingInv, Top
<1>2. PICK q \in {[p EXCEPT !.thr = "exit"], [Request(p) EXCEPT !.thr = "reap"],
                  [p EXCEPT !.requested = FALSE, !.thr = "deliver"],
                  [p EXCEPT !.thr = "reap"]} : ep' = [ep EXCEPT ![e] = q]
  BY DEF Top
<1>3. /\ q \in Reaping /\ q.list = p.list /\ q.ready = p.ready
      /\ q.phase = p.phase /\ q.ptr = p.ptr /\ q.thr \in {"exit", "reap", "deliver"}
  BY <1>1 DEF Reaping, Threads, Request
<1>4. UNCHANGED <<xfer, handler, waits, lost>>
  BY DEF Top, Same
<1>5. QED
  BY <1>1, <1>2, <1>3, <1>4, OneThread DEF RunOver

LEMMA ReapNoneStep ==
  ASSUME TransfersInv, NEW e \in Endpoints, ReapNone(e)
  PROVE  TransfersInv'
<1> DEFINE p == ep[e]
<1>1. p \in Reaping /\ (p.ptr <=> p.thr # "none") /\ p.thr = "reap"
  BY DEF TransfersInv, EmuTypes, WaitingInv, ReapNone
<1>2. PICK q \in {[p EXCEPT !.thr = "wait"], [Request(p) EXCEPT !.thr = "wait"]} :
        ep' = [ep EXCEPT ![e] = q]
  BY DEF ReapNone
<1>3. /\ q \in Reaping /\ q.list = p.list /\ q.ready = p.ready
      /\ q.phase = p.phase /\ q.ptr = p.ptr /\ q.thr = "wait"
  BY <1>1 DEF Reaping, Threads, Request
<1>4. UNCHANGED <<xfer, handler, waits, lost>>
  BY DEF ReapNone, Same
<1>5. QED
  BY <1>1, <1>2, <1>3, <1>4, OneThread DEF RunOver

LEMMA WaitStep ==
  ASSUME TransfersInv, NEW e \in Endpoints, Wait(e)
  PROVE  TransfersInv'
<1> DEFINE q == [ep[e] EXCEPT !.thr = "top"]
<1>1. ep[e] \in Reaping /\ (ep[e].ptr <=> ep[e].thr # "none") /\ ep[e].thr = "wait"
  BY DEF TransfersInv, EmuTypes, WaitingInv, Wait
<1>2. /\ q \in Reaping /\ q.list = ep[e].list /\ q.ready = ep[e].ready
      /\ q.phase = ep[e].phase /\ q.ptr = ep[e].ptr /\ q.thr = "top"
  BY <1>1 DEF Reaping, Threads
<1>3. ep' = [ep EXCEPT ![e] = q] /\ UNCHANGED <<xfer, handler, waits, lost>>
  BY DEF Wait, Same
<1> HIDE DEF q
<1>4. QED
  BY <1>1, <1>2, <1>3, OneThread DEF RunOver

\* It leaves the pool only while nobody waits for its events.
LEMMA ExitStep ==
  ASSUME TransfersInv, NEW e \in Endpoints, Exit(e)
  PROVE  TransfersInv'
<1> DEFINE p == ep[e]
<1>1. p \in Reaping /\ (p.ptr <=> p.thr # "none") /\ p.thr = "exit"
  BY DEF TransfersInv, EmuTypes, WaitingInv, Exit
<1>2. PICK q \in {[p EXCEPT !.want = FALSE, !.allow = FALSE, !.done = FALSE,
                           !.thr = "leaving"],
                  [p EXCEPT !.want = TRUE, !.done = TRUE]} :
        ep' = [ep EXCEPT ![e] = q] /\ (q.thr = "leaving" => handler = "out")
  <2>1. CASE handler = "out"
    BY <2>1 DEF Exit
  <2>2. CASE handler # "out"
    <3>1. ep' = [ep EXCEPT ![e] = [p EXCEPT !.want = TRUE, !.done = TRUE]]
      BY <2>2 DEF Exit
    <3>2. [p EXCEPT !.want = TRUE, !.done = TRUE].thr = "exit"
      BY <1>1 DEF Reaping
    <3>3. QED
      BY <3>1, <3>2
  <2>3. QED
    BY <2>1, <2>2
<1>3. /\ q \in Reaping /\ q.list = p.list /\ q.ready = p.ready
      /\ q.phase = p.phase /\ q.ptr = p.ptr /\ q.thr \in {"leaving", "exit"}
  BY <1>1 DEF Reaping, Threads
<1>4. UNCHANGED <<xfer, handler, waits, lost>>
  BY DEF Exit, Same
<1>5. QED
  BY <1>1, <1>2, <1>3, <1>4, OneThread DEF RunOver

LEMMA LeaveStep ==
  ASSUME TransfersInv, NEW e \in Endpoints, Leave(e)
  PROVE  TransfersInv'
<1> DEFINE q == [ep[e] EXCEPT !.thr = "none", !.ptr = FALSE]
<1>1. ep[e] \in Reaping /\ ep[e].thr = "leaving"
  BY DEF TransfersInv, EmuTypes, Leave
<1>2. /\ q \in Reaping /\ q.list = ep[e].list /\ q.ready = ep[e].ready
      /\ q.phase = ep[e].phase /\ q.ptr = FALSE /\ q.thr = "none"
  BY <1>1 DEF Reaping, Threads
<1>3. ep' = [ep EXCEPT ![e] = q] /\ UNCHANGED <<xfer, handler, waits, lost>>
  BY DEF Leave, Same
<1> HIDE DEF q
<1>4. QED
  BY <1>1, <1>2, <1>3, OneThread DEF RunOver

\* libusb_handle_events().
LEMMA HandlerSteps ==
  ASSUME TransfersInv, HandleEvents \/ Awake \/ AllAllowed \/ Delivered \/ Unplug
  PROVE  TransfersInv'
<1>1. UNCHANGED <<xfer, ep>> /\ (lost => lost') /\ lost' \in BOOLEAN
  BY DEF HandleEvents, Awake, AllAllowed, Delivered, Unplug, TransfersInv, EmuTypes
<1>2. handler' \in {"out", "waiting", "allowing", "delivery"} /\ waits' \subseteq waits
  BY DEF HandleEvents, Awake, AllAllowed, Delivered, Unplug, TransfersInv, EmuTypes
<1>3. handler' \in {"out", "waiting"} => waits' = {}
  BY DEF HandleEvents, Idle, Awake, AllAllowed, Delivered, Unplug, TransfersInv, WaitingInv
<1>4. EmuTypes' /\ WaitingInv'
  BY <1>1, <1>2, <1>3 DEF TransfersInv, EmuTypes, WaitingInv, Pool
<1>5. \A e \in Endpoints : EndpointInv(e)'
  BY <1>1, QuietStep DEF TransfersInv
<1>6. QED
  BY <1>4, <1>5 DEF TransfersInv

\* It waits only for threads that are in the pool, whose lock it holds.
LEMMA AllowStep ==
  ASSUME TransfersInv, NEW e \in Endpoints, Allow(e)
  PROVE  TransfersInv'
<1> DEFINE q == [ep[e] EXCEPT !.allow = TRUE, !.want = FALSE]
<1>1. /\ ep[e] \in Reaping /\ ep[e].thr \notin RunOver /\ handler = "allowing"
      /\ ep \in [Endpoints -> Reaping]
  BY DEF TransfersInv, EmuTypes, Allow, Wanting, Pool, RunOver
<1>2. /\ q \in Reaping /\ q.list = ep[e].list /\ q.ready = ep[e].ready
      /\ q.phase = ep[e].phase /\ q.ptr = ep[e].ptr /\ q.thr = ep[e].thr
  BY <1>1 DEF Reaping
<1>3. ep' = [ep EXCEPT ![e] = q] /\ waits' = waits \cup {e}
      /\ UNCHANGED <<xfer, handler, lost>>
  BY <1>1 DEF Allow
<1> HIDE DEF q
<1>4. ep'[e] = q /\ \A f \in Endpoints \ {e} : ep'[f] = ep[f]
  BY <1>1, <1>3
<1>5. EmuTypes'
  BY <1>2, <1>3 DEF TransfersInv, EmuTypes
<1>6. WaitingInv'
  <2>1. \A f \in Endpoints : ep'[f].ptr = ep[f].ptr /\ ep'[f].thr = ep[f].thr
    BY <1>2, <1>4
  <2>2. Pool' = Pool /\ e \in Pool
    BY <1>1, <2>1 DEF Pool, RunOver
  <2>3. QED
    BY <1>1, <1>3, <2>1, <2>2 DEF TransfersInv, WaitingInv
<1>7. \A f \in Endpoints :
           /\ ep'[f].list = ep[f].list /\ ep'[f].ready = ep[f].ready
           /\ ep'[f].phase = "stopped" => ep[f].phase = "stopped"
           /\ ep'[f].thr = ep[f].thr
  BY <1>2, <1>4
<1>8. \A f \in Endpoints : EndpointInv(f)'
  BY <1>3, <1>7, QuietStep DEF TransfersInv
<1>9. QED
  BY <1>5, <1>6, <1>8 DEF TransfersInv

\* A thread calls back, or marks what it reaped: the endpoint's invariant is
\* shown separately, and the events are not touched.
LEMMA ThreadStays ==
  ASSUME TransfersInv, NEW d \in Endpoints, xfer' \in [Transfers -> Transfer],
         ep' \in [Endpoints -> Reaping], \A e \in Endpoints : EndpointInv(e)',
         \A e \in Endpoints \ {d} : ep'[e] = ep[e],
         ep[d].thr \notin RunOver, ep'[d].thr \notin RunOver, ep'[d].ptr = ep[d].ptr,
         UNCHANGED <<handler, waits, lost>>
  PROVE  TransfersInv'
<1>1. EmuTypes'
  BY DEF TransfersInv, EmuTypes
<1>2. WaitingInv'
  BY DEF TransfersInv, WaitingInv, Pool, RunOver
<1>3. QED
  BY <1>1, <1>2 DEF TransfersInv

\* The head of the ready ones is called back for.
LEMMA DeliverStep ==
  ASSUME TransfersInv, NEW e \in Endpoints, Deliver(e)
  PROVE  TransfersInv'
<1>1. /\ ep[e] \in Reaping /\ ep[e].thr = "deliver" /\ (ep[e].ptr <=> ep[e].thr # "none")
      /\ xfer \in [Transfers -> Transfer] /\ ep \in [Endpoints -> Reaping]
      /\ UNCHANGED <<handler, waits, lost>>
  BY DEF TransfersInv, EmuTypes, WaitingInv, Deliver, Same
<1>2. CASE ep[e].ready = << >>
  <2> DEFINE q == [ep[e] EXCEPT !.done = TRUE, !.thr = "reap"]
  <2>1. /\ q \in Reaping /\ q.list = ep[e].list /\ q.ready = ep[e].ready
        /\ q.phase = ep[e].phase /\ q.ptr = ep[e].ptr /\ q.thr = "reap"
    BY <1>1 DEF Reaping, Threads
  <2>2. ep' = [ep EXCEPT ![e] = q] /\ UNCHANGED xfer
    BY <1>2 DEF Deliver
  <2> HIDE DEF q
  <2>3. QED
    BY <1>1, <2>1, <2>2, OneThread DEF RunOver
<1>3. CASE ep[e].ready # << >>
  <2> DEFINE r == ep[e].ready
             t == Head(r)
             p == [ep[e] EXCEPT !.ready = Tail(@)]
             st == xfer[t].status
  <2>1. CallBack(t, p, st)
    BY <1>3 DEF Deliver
  <2>2. /\ t \in Transfers /\ Tail(r) \in Seq(Transfers) /\ In(t, r)
        /\ \A u : In(u, r) => In(u, Tail(r)) \/ u = t
        /\ \A u : In(u, Tail(r)) => In(u, r)
        /\ OneEach(r) => OneEach(Tail(r)) /\ ~In(t, Tail(r))
    <3>1. r \in Seq(Transfers) /\ r # << >>
      BY <1>1, <1>3 DEF Reaping
    <3> HIDE DEF r
    <3>2. QED
      BY <3>1, WithoutHead
  <2>3. /\ p \in Reaping /\ p.list = ep[e].list /\ p.ready = Tail(r)
        /\ p.phase = ep[e].phase /\ p.thr = "deliver" /\ p.ptr = ep[e].ptr
    BY <1>1, <2>2 DEF Reaping
  <2>4. st \in {"completed", "cancelled", "no device"}
    BY <1>1, <2>2 DEF Transfer
  <2>5. ListsHold(ep[e].list, r, Out(e))
        /\ (lost \/ ListsHoldAll(ep[e].list, r, Out(e)))
    BY <1>1 DEF TransfersInv, EndpointInv, Wild
  <2> HIDE DEF r, t, p, st
  <2>6. t \in Out(e)
    BY <2>2, <2>5 DEF ListsHold
  <2>7. ListsHold(p.list, p.ready, Out(e) \ {t})
    BY <2>2, <2>3, <2>5 DEF ListsHold
  <2>8. lost \/ ListsHoldAll(p.list, p.ready, Out(e) \ {t})
    BY <2>2, <2>3, <2>5 DEF ListsHoldAll
  <2>9. EmuTypes /\ \A f \in Endpoints : EndpointInv(f)
    BY DEF TransfersInv
  <2>10. /\ xfer' \in [Transfers -> Transfer] /\ ep' \in [Endpoints -> Reaping]
         /\ \A f \in Endpoints : EndpointInv(f)'
         /\ \A f \in Endpoints \ {e} : ep'[f] = ep[f]
         /\ ep'[e].thr = p.thr /\ ep'[e].ptr = p.ptr
    BY <1>1, <2>1, <2>3, <2>4, <2>6, <2>7, <2>8, <2>9, CallBackStep
  <2>11. QED
    BY <1>1, <2>3, <2>10, ThreadStays DEF RunOver
<1>4. QED
  BY <1>2, <1>3

\* What is at the head of the list of transfers to reap, and what is left.
LEMMA HeadToReap ==
  ASSUME TransfersInv, NEW e \in Endpoints, ep[e].list # << >>
  PROVE  /\ Head(ep[e].list) \in Out(e) /\ Tail(ep[e].list) \in Seq(Transfers)
         /\ \A u : In(u, ep[e].list) => In(u, Tail(ep[e].list)) \/ u = Head(ep[e].list)
         /\ \A u : In(u, Tail(ep[e].list)) => In(u, ep[e].list)
         /\ OneEach(Tail(ep[e].list)) /\ ~In(Head(ep[e].list), Tail(ep[e].list))
         /\ ~In(Head(ep[e].list), ep[e].ready)
<1> DEFINE l == ep[e].list
<1>1. l \in Seq(Transfers) /\ l # << >>
  BY DEF TransfersInv, EmuTypes, Reaping
<1>2. OneEach(l) /\ \A t : In(t, l) => t \in Out(e) /\ ~In(t, ep[e].ready)
  BY DEF TransfersInv, EndpointInv, ListsHold
<1> HIDE DEF l
<1>3. /\ Head(l) \in Out(e) /\ Tail(l) \in Seq(Transfers)
      /\ \A u : In(u, l) => In(u, Tail(l)) \/ u = Head(l)
      /\ \A u : In(u, Tail(l)) => In(u, l)
      /\ OneEach(Tail(l)) /\ ~In(Head(l), Tail(l))
      /\ ~In(Head(l), ep[e].ready)
  BY <1>1, <1>2, WithoutHead
<1>4. QED
  BY <1>3 DEF l

\* The head is moved to the ready ones.
LEMMA ReapCompletedStep ==
  ASSUME TransfersInv, NEW e \in Endpoints, ReapCompleted(e)
  PROVE  TransfersInv'
<1> DEFINE l == ep[e].list
           r == ep[e].ready
           t == Head(l)
           a == Append(r, t)
           q == [ep[e] EXCEPT !.list = Tail(@), !.ready = Append(@, t), !.thr = "top"]
<1>1. /\ ep[e] \in Reaping /\ ep[e].thr = "reap" /\ l # << >>
      /\ xfer \in [Transfers -> Transfer] /\ ep \in [Endpoints -> Reaping]
      /\ r \in Seq(Transfers)
      /\ UNCHANGED <<handler, waits, lost>>
      /\ xfer' = [xfer EXCEPT ![t].status = "completed", ![t].usb = "idle"]
      /\ ep' = [ep EXCEPT ![e] = q]
  BY DEF TransfersInv, EmuTypes, ReapCompleted, Same, Reaping
<1>2. /\ t \in Out(e) /\ Tail(l) \in Seq(Transfers)
      /\ \A u : In(u, l) => In(u, Tail(l)) \/ u = t
      /\ \A u : In(u, Tail(l)) => In(u, l)
      /\ OneEach(Tail(l)) /\ ~In(t, Tail(l)) /\ ~In(t, r)
  BY <1>1, HeadToReap
<1>3. t \in Transfers /\ t \in Xfers(e) /\ Xfers(e) \subseteq Transfers
  BY <1>2 DEF Out, Xfers
<1>4. /\ a \in Seq(Transfers)
      /\ \A u : In(u, a) <=> In(u, r) \/ u = t
      /\ OneEach(r) /\ ~In(t, r) => OneEach(a)
  <2> HIDE DEF r, t
  <2>1. QED
    BY <1>1, <1>3, AppendTo
<1>5. /\ q \in Reaping /\ q.list = Tail(l) /\ q.ready = a
      /\ q.phase = ep[e].phase /\ q.ptr = ep[e].ptr /\ q.thr = "top"
  BY <1>1, <1>2, <1>4 DEF Reaping, Threads
<1> HIDE DEF t, a, q
<1>6. xfer' \in [Transfers -> Transfer]
  <2>1. [xfer[t] EXCEPT !.status = "completed", !.usb = "idle"] \in Transfer
    BY <1>1, <1>3 DEF Transfer
  <2>2. xfer' = [xfer EXCEPT ![t] = [xfer[t] EXCEPT !.status = "completed", !.usb = "idle"]]
    BY <1>1, <1>3
  <2>3. QED
    BY <1>1, <2>1, <2>2
<1>7. \A u \in Transfers : /\ xfer'[u].state = xfer[u].state
                           /\ xfer[u].usb = "idle" => xfer'[u].usb = "idle"
                           /\ u # t => xfer'[u] = xfer[u]
  BY <1>1, <1>3 DEF Transfer
<1>8. ep'[e] = q /\ ep' \in [Endpoints -> Reaping]
      /\ \A f \in Endpoints \ {e} : ep'[f] = ep[f]
  BY <1>1, <1>5
<1>9. Out(e)' = Out(e) /\ Xfers(e)' = Xfers(e)
  BY <1>3, <1>7 DEF Out, Xfers
<1>10. EndpointInv(e)'
  <2>1. ListsHold(l, r, Out(e)) /\ (lost \/ ListsHoldAll(l, r, Out(e)))
    BY <1>1 DEF TransfersInv, EndpointInv, Wild
  <2> HIDE DEF l, r
  <2>2. ListsHold(Tail(l), a, Out(e))
    BY <1>2, <1>4, <2>1 DEF ListsHold
  <2>3. lost \/ ListsHoldAll(Tail(l), a, Out(e))
    BY <1>2, <1>4, <2>1 DEF ListsHoldAll
  <2>4. \A u \in Xfers(e) : u \in Out(e) \/ xfer'[u].usb = "idle"
    BY <1>3, <1>7 DEF TransfersInv, EndpointInv
  <2>5. q.phase = "stopped" => Out(e) = {}
    BY <1>5 DEF TransfersInv, EndpointInv
  <2>6. QED
    BY <1>1, <1>5, <1>8, <1>9, <2>2, <2>3, <2>4, <2>5 DEF EndpointInv
<1>11. \A f \in Endpoints : EndpointInv(f)'
  <2>1. \A u \in Transfers \ Xfers(e) : xfer'[u] = xfer[u]
    BY <1>3, <1>7
  <2>2. QED
    BY <1>1, <1>8, <1>10, <2>1, OtherEndpoints DEF TransfersInv
<1>12. QED
  BY <1>1, <1>5, <1>6, <1>8, <1>11, ThreadStays DEF RunOver

\* A cancelled head is called back for; another is left where it is.
LEMMA ReapTimeoutStep ==
  ASSUME TransfersInv, NEW e \in Endpoints, ReapTimeout(e)
  PROVE  TransfersInv'
<1> DEFINE l == ep[e].list
           t == Head(l)
<1>1. /\ ep[e] \in Reaping /\ ep[e].thr = "reap" /\ l # << >>
      /\ (ep[e].ptr <=> ep[e].thr # "none")
      /\ xfer \in [Transfers -> Transfer] /\ ep \in [Endpoints -> Reaping]
      /\ UNCHANGED <<handler, waits, lost>>
  BY DEF TransfersInv, EmuTypes, WaitingInv, ReapTimeout, Same
<1>2. CASE xfer[t].status = "cancelled"
  <2> DEFINE p == [ep[e] EXCEPT !.list = Tail(@), !.thr = "top"]
  <2>1. CallBack(t, p, "cancelled")
    BY <1>2 DEF ReapTimeout
  <2>2. /\ t \in Out(e) /\ Tail(l) \in Seq(Transfers)
        /\ \A u : In(u, l) => In(u, Tail(l)) \/ u = t
        /\ \A u : In(u, Tail(l)) => In(u, l)
        /\ OneEach(Tail(l)) /\ ~In(t, Tail(l)) /\ ~In(t, ep[e].ready)
    BY <1>1, HeadToReap
  <2>3. /\ p \in Reaping /\ p.list = Tail(l) /\ p.ready = ep[e].ready
        /\ p.phase = ep[e].phase /\ p.thr = "top" /\ p.ptr = ep[e].ptr
    BY <1>1, <2>2 DEF Reaping, Threads
  <2>4. ListsHold(l, ep[e].ready, Out(e))
        /\ (lost \/ ListsHoldAll(l, ep[e].ready, Out(e)))
    BY <1>1 DEF TransfersInv, EndpointInv, Wild
  <2> HIDE DEF l, t, p
  <2>5. ListsHold(p.list, p.ready, Out(e) \ {t})
    BY <2>2, <2>3, <2>4 DEF ListsHold
  <2>6. lost \/ ListsHoldAll(p.list, p.ready, Out(e) \ {t})
    BY <2>2, <2>3, <2>4 DEF ListsHoldAll
  <2>7. EmuTypes /\ \A f \in Endpoints : EndpointInv(f)
    BY DEF TransfersInv
  <2>8. /\ xfer' \in [Transfers -> Transfer] /\ ep' \in [Endpoints -> Reaping]
        /\ \A f \in Endpoints : EndpointInv(f)'
        /\ \A f \in Endpoints \ {e} : ep'[f] = ep[f]
        /\ ep'[e].thr = p.thr /\ ep'[e].ptr = p.ptr
    BY <1>1, <2>1, <2>2, <2>3, <2>5, <2>6, <2>7, CallBackStep
  <2>9. QED
    BY <1>1, <2>3, <2>8, ThreadStays DEF RunOver
<1>3. CASE xfer[t].status # "cancelled"
  <2> DEFINE q == [ep[e] EXCEPT !.thr = "top"]
  <2>1. /\ q \in Reaping /\ q.list = ep[e].list /\ q.ready = ep[e].ready
        /\ q.phase = ep[e].phase /\ q.ptr = ep[e].ptr /\ q.thr = "top"
    BY <1>1 DEF Reaping, Threads
  <2>2. ep' = [ep EXCEPT ![e] = q] /\ UNCHANGED xfer
    BY <1>3 DEF ReapTimeout
  <2> HIDE DEF q
  <2>3. QED
    BY <1>1, <2>1, <2>2, OneThread DEF RunOver
<1>4. QED
  BY <1>2, <1>3

\* The device is lost: the client hears of the head,
LEMMA ReapLostStep ==
  ASSUME TransfersInv, NEW e \in Endpoints, ReapLost(e)
  PROVE  TransfersInv'
<1> DEFINE l == ep[e].list
           t == Head(l)
           p == [ep[e] EXCEPT !.list = Tail(@), !.thr = "losing"]
<1>1. /\ ep[e] \in Reaping /\ ep[e].thr = "reap" /\ l # << >> /\ lost
      /\ UNCHANGED <<handler, waits, lost>>
      /\ CallBack(t, p, "no device")
  BY DEF TransfersInv, EmuTypes, ReapLost, Same
<1>2. /\ t \in Out(e) /\ Tail(l) \in Seq(Transfers)
      /\ \A u : In(u, l) => In(u, Tail(l)) \/ u = t
      /\ \A u : In(u, Tail(l)) => In(u, l)
      /\ OneEach(Tail(l)) /\ ~In(t, Tail(l)) /\ ~In(t, ep[e].ready)
  BY <1>1, HeadToReap
<1>3. /\ p \in Reaping /\ p.list = Tail(l) /\ p.ready = ep[e].ready
      /\ p.phase = ep[e].phase /\ p.thr = "losing" /\ p.ptr = ep[e].ptr
  BY <1>1, <1>2 DEF Reaping, Threads
<1>4. ListsHold(l, ep[e].ready, Out(e))
  BY DEF TransfersInv, EndpointInv
<1>5. EmuTypes /\ \A f \in Endpoints : EndpointInv(f)
  BY DEF TransfersInv
<1> HIDE DEF l, t, p
<1>6. ListsHold(p.list, p.ready, Out(e) \ {t})
  BY <1>2, <1>3, <1>4 DEF ListsHold
<1>7. /\ xfer' \in [Transfers -> Transfer] /\ ep' \in [Endpoints -> Reaping]
      /\ \A f \in Endpoints : EndpointInv(f)'
      /\ \A f \in Endpoints \ {e} : ep'[f] = ep[f]
      /\ ep'[e].thr = p.thr /\ ep'[e].ptr = p.ptr
  BY <1>1, <1>2, <1>3, <1>5, <1>6, CallBackStep
<1>8. QED
  BY <1>1, <1>3, <1>7, ThreadStays DEF RunOver

\* Lists that are emptied hold whatever is out, once the device is lost or the
\* thread wild.
LEMMA EmptiedLists ==
  ASSUME TransfersInv, NEW d \in Endpoints, NEW p \in Reaping, ep' = [ep EXCEPT ![d] = p],
         p.list = << >>, p.ready = << >>, p.phase = ep[d].phase,
         lost' \/ p.thr = "wild", p.thr # "losing", UNCHANGED <<xfer, lost>>
  PROVE  \A e \in Endpoints : EndpointInv(e)'
<1>1. ep \in [Endpoints -> Reaping] /\ \A e \in Endpoints : EndpointInv(e)
  BY DEF TransfersInv, EmuTypes
<1>2. ep'[d] = p /\ \A e \in Endpoints \ {d} : ep'[e] = ep[e]
  BY <1>1
<1>3. Out(d)' = Out(d) /\ Xfers(d)' = Xfers(d)
  BY DEF Out, Xfers
<1>4. ListsHold(p.list, p.ready, Out(d))
  BY NoneIn DEF ListsHold, OneEach
<1>5. EndpointInv(d)'
  BY <1>1, <1>2, <1>3, <1>4 DEF EndpointInv, Wild
<1>6. QED
  BY <1>1, <1>2, <1>5, OtherEndpoints

\* and both lists are emptied.
LEMMA LoseRestStep ==
  ASSUME TransfersInv, NEW e \in Endpoints, LoseRest(e)
  PROVE  TransfersInv'
<1> DEFINE p == [ep[e] EXCEPT !.list = << >>, !.ready = << >>, !.thr = "top"]
<1>1. /\ ep[e] \in Reaping /\ ep[e].thr = "losing" /\ lost
      /\ xfer \in [Transfers -> Transfer] /\ ep \in [Endpoints -> Reaping]
      /\ UNCHANGED <<xfer, handler, waits, lost>>
      /\ ep' = [ep EXCEPT ![e] = p]
  BY DEF TransfersInv, EmuTypes, EndpointInv, LoseRest, Same
<1>2. /\ p \in Reaping /\ p.list = << >> /\ p.ready = << >>
      /\ p.phase = ep[e].phase /\ p.thr = "top" /\ p.ptr = ep[e].ptr
  <2>1. << >> \in Seq(Transfers)
    OBVIOUS
  <2>2. QED
    BY <1>1, <2>1 DEF Reaping, Threads
<1> HIDE DEF p
<1>3. \A f \in Endpoints : EndpointInv(f)'
  BY <1>1, <1>2, EmptiedLists
<1>4. /\ ep'[e] = p /\ ep' \in [Endpoints -> Reaping] /\ xfer' \in [Transfers -> Transfer]
      /\ \A f \in Endpoints \ {e} : ep'[f] = ep[f]
  BY <1>1, <1>2
<1>5. QED
  BY <1>1, <1>2, <1>3, <1>4, ThreadStays DEF RunOver

\* A cancelled transfer stays where it is.
LEMMA CancelledFacts ==
  ASSUME NEW x \in Transfer
  PROVE  /\ Cancelled(x) \in Transfer /\ Cancelled(x).state = x.state
         /\ x.usb = "idle" => Cancelled(x).usb = "idle"
         /\ [x EXCEPT !.status = "cancelled"] \in Transfer
         /\ [x EXCEPT !.status = "cancelled"].state = x.state
         /\ [x EXCEPT !.status = "cancelled"].usb = x.usb
BY DEF Transfer, Cancelled

LEMMA ReapErrorStep ==
  ASSUME TransfersInv, NEW e \in Endpoints, ReapError(e)
  PROVE  TransfersInv'
<1> DEFINE t == Head(ep[e].list)
           q == [ep[e] EXCEPT !.thr = "top"]
<1>1. /\ ep[e] \in Reaping /\ ep[e].thr = "reap" /\ ep[e].list # << >>
      /\ xfer \in [Transfers -> Transfer] /\ ep \in [Endpoints -> Reaping]
      /\ UNCHANGED <<handler, waits, lost>>
      /\ xfer' = [xfer EXCEPT ![t] = Cancelled(xfer[t])] /\ ep' = [ep EXCEPT ![e] = q]
  BY DEF TransfersInv, EmuTypes, ReapError, Same
<1>2. t \in Transfers
  BY <1>1, HeadToReap DEF Out, Xfers
<1>3. /\ q \in Reaping /\ q.list = ep[e].list /\ q.ready = ep[e].ready
      /\ q.phase = ep[e].phase /\ q.ptr = ep[e].ptr /\ q.thr = "top"
  BY <1>1 DEF Reaping, Threads
<1> HIDE DEF t, q
<1>4. xfer[t] \in Transfer
  BY <1>1, <1>2
<1>5. /\ xfer' \in [Transfers -> Transfer]
      /\ \A u \in Transfers : /\ xfer'[u].state = xfer[u].state
                              /\ xfer[u].usb = "idle" => xfer'[u].usb = "idle"
  BY <1>1, <1>2, <1>4, CancelledFacts
<1>6. ep'[e] = q /\ ep' \in [Endpoints -> Reaping]
      /\ \A f \in Endpoints \ {e} : ep'[f] = ep[f]
  BY <1>1, <1>3
<1>7. \A f \in Endpoints :
           /\ ep'[f].list = ep[f].list /\ ep'[f].ready = ep[f].ready
           /\ ep'[f].phase = "stopped" => ep[f].phase = "stopped"
           /\ ep[f].thr = "wild" => ep'[f].thr = "wild"
           /\ ep'[f].thr = "losing" => ep[f].thr = "losing"
  BY <1>1, <1>3, <1>6
<1>8. \A f \in Endpoints : EndpointInv(f)'
  BY <1>1, <1>5, <1>7, QuietStep DEF TransfersInv
<1>9. QED
  BY <1>1, <1>3, <1>5, <1>6, <1>8, ThreadStays DEF RunOver

-----------------------------------------------------------------------------
(* The client's steps. *)

LEMMA StopStreamStep ==
  ASSUME TransfersInv, NEW e \in Endpoints, StopStream(e)
  PROVE  TransfersInv'
<1> DEFINE q == [ep[e] EXCEPT !.phase = "stopping"]
<1>1. /\ ep[e] \in Reaping
      /\ xfer \in [Transfers -> Transfer] /\ ep \in [Endpoints -> Reaping]
      /\ UNCHANGED <<handler, waits, lost>>
      /\ ep' = [ep EXCEPT ![e] = q]
  BY DEF TransfersInv, EmuTypes, StopStream, Same
<1>2. /\ xfer' \in [Transfers -> Transfer]
      /\ \A u \in Transfers : /\ xfer'[u].state = xfer[u].state
                              /\ xfer[u].usb = "idle" => xfer'[u].usb = "idle"
  <2>1. PICK late \in SUBSET {t \in Xfers(e) : xfer[t].usb = "queued"} :
          xfer' = [t \in Transfers |->
             IF t \in Xfers(e)
             THEN IF t \in late THEN [xfer[t] EXCEPT !.status = "cancelled"]
                  ELSE Cancelled(xfer[t])
             ELSE xfer[t]]
    BY DEF StopStream
  <2>2. ASSUME NEW u \in Transfers
        PROVE  /\ xfer'[u] \in Transfer
               /\ xfer'[u].state = xfer[u].state
               /\ xfer[u].usb = "idle" => xfer'[u].usb = "idle"
    <3>1. xfer[u] \in Transfer
      BY <1>1
    <3>2. \/ xfer'[u] = [xfer[u] EXCEPT !.status = "cancelled"]
          \/ xfer'[u] = Cancelled(xfer[u]) \/ xfer'[u] = xfer[u]
      BY <2>1
    <3>3. QED
      BY <3>1, <3>2, CancelledFacts
  <2>3. QED
    BY <2>1, <2>2
<1>3. /\ q \in Reaping /\ q.list = ep[e].list /\ q.ready = ep[e].ready
      /\ q.phase = "stopping" /\ q.ptr = ep[e].ptr /\ q.thr = ep[e].thr
  BY <1>1 DEF Reaping, Phases
<1> HIDE DEF q
<1>4. ep'[e] = q /\ ep' \in [Endpoints -> Reaping]
      /\ \A f \in Endpoints \ {e} : ep'[f] = ep[f]
  BY <1>1, <1>3
<1>5. \A f \in Endpoints :
           /\ ep'[f].list = ep[f].list /\ ep'[f].ready = ep[f].ready
           /\ ep'[f].phase = "stopped" => ep[f].phase = "stopped"
           /\ ep'[f].ptr = ep[f].ptr /\ ep'[f].thr = ep[f].thr
  BY <1>3, <1>4
<1>6. \A f \in Endpoints : EndpointInv(f)'
  BY <1>1, <1>2, <1>5, QuietStep DEF TransfersInv
<1>7. EmuTypes' /\ WaitingInv'
  BY <1>1, <1>2, <1>4, <1>5 DEF TransfersInv, EmuTypes, WaitingInv, Pool
<1>8. QED
  BY <1>6, <1>7 DEF TransfersInv

\* Every transfer has died: none is in a list, and all are made new.
LEMMA StoppedStep ==
  ASSUME TransfersInv, NEW e \in Endpoints, Stopped(e)
  PROVE  TransfersInv'
<1> DEFINE w == IF ep[e].thr = "losing" THEN GoneWild(ep[e]) ELSE ep[e]
           q == [w EXCEPT !.phase = "stopped"]
<1>1. /\ ep[e] \in Reaping /\ AllDead(e)
      /\ xfer \in [Transfers -> Transfer] /\ ep \in [Endpoints -> Reaping]
      /\ UNCHANGED <<handler, waits, lost>>
      /\ ep' = [ep EXCEPT ![e] = q]
      /\ xfer' = [t \in Transfers |-> IF t \in Xfers(e) THEN Fresh ELSE xfer[t]]
  BY DEF TransfersInv, EmuTypes, Stopped, Same
<1>2. /\ w \in Reaping /\ w.thr # "losing" /\ w.ptr = ep[e].ptr
      /\ w.thr = ep[e].thr \/ (w.thr = "wild" /\ ep[e].thr = "losing")
      /\ ListsHold(w.list, w.ready, Out(e))
  <2>1. CASE ep[e].thr = "losing"
    <3>1. << >> \in Seq(Transfers)
      OBVIOUS
    <3>2. GoneWild(ep[e]) \in Reaping
      BY <1>1, <3>1 DEF GoneWild, Reaping, Threads
    <3>3. /\ GoneWild(ep[e]).list = << >> /\ GoneWild(ep[e]).ready = << >>
          /\ GoneWild(ep[e]).thr = "wild" /\ GoneWild(ep[e]).ptr = ep[e].ptr
      BY <1>1 DEF GoneWild, Reaping
    <3>4. ListsHold(<< >>, << >>, Out(e))
      BY NoneIn DEF ListsHold, OneEach
    <3>5. QED
      BY <2>1, <3>2, <3>3, <3>4
  <2>2. CASE ep[e].thr # "losing"
    BY <1>1, <2>2 DEF TransfersInv, EndpointInv
  <2>3. QED
    BY <2>1, <2>2
<1> HIDE DEF w
<1>3. /\ q \in Reaping /\ q.list = w.list /\ q.ready = w.ready
      /\ q.phase = "stopped" /\ q.ptr = w.ptr /\ q.thr = w.thr
  BY <1>2 DEF Reaping, Phases
<1> HIDE DEF q
<1>4. ep'[e] = q /\ ep' \in [Endpoints -> Reaping]
      /\ \A f \in Endpoints \ {e} : ep'[f] = ep[f]
  BY <1>1, <1>3
<1>5. Fresh \in Transfer /\ Fresh.state = "idle" /\ Fresh.usb = "idle"
  BY DEF Fresh, Transfer
<1>6. /\ xfer' \in [Transfers -> Transfer] /\ Xfers(e) \subseteq Transfers
      /\ \A t \in Xfers(e) : xfer'[t] = Fresh
      /\ \A t \in Transfers \ Xfers(e) : xfer'[t] = xfer[t]
      /\ Xfers(e)' = Xfers(e)
  BY <1>1, <1>5 DEF Xfers
<1>7. Out(e) = {} /\ Out(e)' = {}
  BY <1>1, <1>5, <1>6 DEF Out, AllDead
<1>8. EndpointInv(e)'
  <2>1. ListsHold(q.list, q.ready, {})
    BY <1>2, <1>3, <1>7
  <2>2. q.thr # "losing" /\ ListsHoldAll(q.list, q.ready, {})
    BY <1>2, <1>3 DEF ListsHoldAll
  <2>3. \A t \in Xfers(e) : xfer'[t].usb = "idle"
    BY <1>5, <1>6
  <2>4. QED
    BY <1>4, <1>6, <1>7, <2>1, <2>2, <2>3 DEF EndpointInv
<1>9. \A f \in Endpoints : EndpointInv(f)'
  BY <1>1, <1>4, <1>6, <1>8, OtherEndpoints DEF TransfersInv
<1>10. \A f \in Endpoints :
         /\ ep'[f].ptr = ep[f].ptr
         /\ ep'[f].thr = ep[f].thr \/ (ep'[f].thr = "wild" /\ ep[f].thr = "losing")
  BY <1>2, <1>3, <1>4
<1>11. EmuTypes' /\ WaitingInv'
  BY <1>1, <1>4, <1>6, <1>10 DEF TransfersInv, EmuTypes, WaitingInv, Pool
<1>12. QED
  BY <1>9, <1>11 DEF TransfersInv

\* The thread is created with the first transfer; an endpoint whose thread is
\* gone is not in the pool.
LEMMA WithThreadFacts ==
  ASSUME NEW p \in Reaping, p.ptr <=> p.thr # "none"
  PROVE  /\ WithThread(p) \in Reaping /\ WithThread(p).list = p.list
         /\ WithThread(p).ready = p.ready /\ WithThread(p).phase = p.phase
         /\ WithThread(p).ptr /\ WithThread(p).thr # "none"
         /\ p.thr \notin RunOver => WithThread(p).thr = p.thr
         /\ WithThread(p).thr = p.thr \/ WithThread(p).thr = "attach"
BY DEF WithThread, Reaping, Threads, RunOver

\* A transfer that is submitted is refused, or goes to the list, or is raced for
\* there.
LEMMA SubmitStep ==
  ASSUME TransfersInv, NEW t \in Transfers, Submit(t)
  PROVE  TransfersInv'
<1> DEFINE e == Of[t]
<1>1. /\ e \in Endpoints /\ t \in Xfers(e) /\ Xfers(e) \subseteq Transfers
      /\ Xfers(e)' = Xfers(e)
  BY EmuAssumption DEF Xfers
<1> HIDE DEF e
<1>2. /\ ep[e] \in Reaping /\ (ep[e].ptr <=> ep[e].thr # "none")
      /\ ep[e].list \in Seq(Transfers)
      /\ xfer \in [Transfers -> Transfer] /\ ep \in [Endpoints -> Reaping]
      /\ ep[e].phase = "starting" /\ xfer[t].state = "idle"
      /\ UNCHANGED <<handler, waits, lost>>
  BY <1>1 DEF TransfersInv, EmuTypes, WaitingInv, Submit, Same, Reaping, e
<1>3. /\ EmuTypes /\ \A f \in Endpoints : EndpointInv(f)
      /\ ListsHold(ep[e].list, ep[e].ready, Out(e))
      /\ lost \/ Wild(e) \/ ListsHoldAll(ep[e].list, ep[e].ready, Out(e))
      /\ \A u \in Xfers(e) : u \in Out(e) \/ xfer[u].usb = "idle"
      /\ t \notin Out(e) /\ (ep[e].thr = "losing" => lost)
  BY <1>1, <1>2 DEF TransfersInv, EndpointInv, Out
\* Refused: the client counts it as dead.
<1>4. CASE xfer' = [xfer EXCEPT ![t].state = "dead"] /\ UNCHANGED ep
  <2>1. [xfer[t] EXCEPT !.state = "dead"] \in Transfer
        /\ xfer' = [xfer EXCEPT ![t] = [xfer[t] EXCEPT !.state = "dead"]]
    BY <1>2, <1>4 DEF Transfer
  <2>2. /\ xfer' \in [Transfers -> Transfer]
        /\ xfer'[t].state = "dead" /\ xfer'[t].usb = xfer[t].usb
        /\ \A u \in Transfers : u # t => xfer'[u] = xfer[u]
    BY <1>2, <2>1 DEF Transfer
  <2>3. Out(e)' = Out(e)
    BY <1>1, <1>3, <2>2 DEF Out
  <2>4. EndpointInv(e)'
    <3>1. \A u \in Xfers(e) : u \in Out(e) \/ xfer'[u].usb = "idle"
      BY <1>1, <1>3, <2>2
    <3>2. QED
      BY <1>1, <1>2, <1>3, <1>4, <2>3, <3>1 DEF EndpointInv, Wild
  <2>5. \A f \in Endpoints : EndpointInv(f)'
    BY <1>1, <1>2, <1>3, <1>4, <2>2, <2>4, OtherEndpoints
  <2>6. EmuTypes' /\ WaitingInv'
    BY <1>2, <1>4, <2>2 DEF TransfersInv, EmuTypes, WaitingInv, Pool
  <2>7. QED
    BY <2>5, <2>6 DEF TransfersInv
\* Accepted: one more is out.
<1>5. ASSUME xfer' = [xfer EXCEPT ![t].state = "out", ![t].usb = "queued"],
             NEW w \in Reaping, ep' = [ep EXCEPT ![e] = w], w.phase = ep[e].phase,
             w.ptr, w.thr # "none", ep[e].thr \notin RunOver => w.thr \notin RunOver,
             w.thr = "losing" => lost, ListsHold(w.list, w.ready, Out(e) \cup {t}),
             \/ lost \/ w.thr = "wild"
             \/ ListsHoldAll(w.list, w.ready, Out(e) \cup {t})
      PROVE  TransfersInv'
  <2>1. [xfer[t] EXCEPT !.state = "out", !.usb = "queued"] \in Transfer
        /\ xfer' = [xfer EXCEPT ![t] = [xfer[t] EXCEPT !.state = "out", !.usb = "queued"]]
    BY <1>2, <1>5 DEF Transfer
  <2>2. /\ xfer' \in [Transfers -> Transfer]
        /\ xfer'[t].state = "out"
        /\ \A u \in Transfers : u # t => xfer'[u] = xfer[u]
    BY <1>2, <2>1 DEF Transfer
  <2>3. Out(e)' = Out(e) \cup {t}
    BY <1>1, <2>2 DEF Out
  <2>4. ep'[e] = w /\ ep' \in [Endpoints -> Reaping]
        /\ \A f \in Endpoints \ {e} : ep'[f] = ep[f]
    BY <1>1, <1>2, <1>5
  <2>5. EndpointInv(e)'
    <3>1. \A u \in Xfers(e) : u \in Out(e) \cup {t} \/ xfer'[u].usb = "idle"
      BY <1>1, <1>3, <2>2
    <3>2. QED
      BY <1>1, <1>2, <1>5, <2>3, <2>4, <3>1 DEF EndpointInv, Wild
  <2>6. \A u \in Transfers \ Xfers(e) : xfer'[u] = xfer[u]
    BY <1>1, <2>2
  <2>7. \A f \in Endpoints : EndpointInv(f)'
    BY <1>1, <1>2, <1>3, <2>4, <2>5, <2>6, OtherEndpoints
  <2>8. EmuTypes'
    BY <1>2, <2>2, <2>4 DEF TransfersInv, EmuTypes
  <2>9. WaitingInv'
    <3>1. \A f \in Endpoints : ep'[f].ptr <=> ep'[f].thr # "none"
      BY <1>5, <2>4 DEF TransfersInv, WaitingInv
    <3>2. Pool \subseteq Pool'
      BY <1>5, <2>4 DEF Pool, RunOver
    <3>3. QED
      BY <1>2, <3>1, <3>2 DEF TransfersInv, WaitingInv
  <2>10. QED
    BY <2>7, <2>8, <2>9 DEF TransfersInv
\* It is put into the list,
<1>6. CASE /\ xfer' = [xfer EXCEPT ![t].state = "out", ![t].usb = "queued"] /\ ~Wild(e)
           /\ ep' = [ep EXCEPT ![e] = WithThread([ep[e] EXCEPT !.list = Append(@, t)])]
  <2> DEFINE l == ep[e].list
             a == Append(l, t)
             p == [ep[e] EXCEPT !.list = a]
  <2>1. a \in Seq(Transfers) /\ (\A u : In(u, a) <=> In(u, l) \/ u = t)
        /\ (OneEach(l) /\ ~In(t, l) => OneEach(a))
    <3>1. l \in Seq(Transfers)
      BY <1>2
    <3> HIDE DEF l
    <3>2. QED
      BY <3>1, AppendTo
  <2>2. /\ p \in Reaping /\ p.list = a /\ p.ready = ep[e].ready /\ p.phase = ep[e].phase
        /\ p.thr = ep[e].thr /\ p.ptr = ep[e].ptr
    BY <1>2, <2>1 DEF Reaping
  <2>3. ep' = [ep EXCEPT ![e] = WithThread(p)]
    BY <1>6
  <2> HIDE DEF p, a, l
  <2> DEFINE w == WithThread(p)
  <2>4. /\ w \in Reaping /\ w.list = p.list /\ w.ready = p.ready /\ w.phase = p.phase
        /\ w.ptr /\ w.thr # "none" /\ (p.thr \notin RunOver => w.thr = p.thr)
        /\ (w.thr = p.thr \/ w.thr = "attach")
    BY <1>2, <2>2, WithThreadFacts
  <2> HIDE DEF w
  <2>5. ListsHold(w.list, w.ready, Out(e) \cup {t})
    BY <1>3, <2>1, <2>2, <2>4 DEF ListsHold, l
  <2>6. lost \/ ListsHoldAll(w.list, w.ready, Out(e) \cup {t})
    BY <1>3, <1>6, <2>1, <2>2, <2>4 DEF ListsHoldAll, l
  <2>7. w.thr = "losing" => lost
    BY <1>3, <2>2, <2>4
  <2>8. QED
    BY <1>5, <1>6, <2>2, <2>3, <2>4, <2>5, <2>6, <2>7 DEF w
\* or is raced for.
<1>7. CASE /\ xfer' = [xfer EXCEPT ![t].state = "out", ![t].usb = "queued"] /\ Racing(ep[e])
           /\ ep' = [ep EXCEPT ![e] = GoneWild(@)]
  <2> DEFINE w == GoneWild(ep[e])
  <2>1. /\ w \in Reaping /\ w.list = << >> /\ w.ready = << >> /\ w.phase = ep[e].phase
        /\ w.ptr = ep[e].ptr /\ w.thr = "wild"
    <3>1. << >> \in Seq(Transfers)
      OBVIOUS
    <3>2. QED
      BY <1>2, <3>1 DEF GoneWild, Reaping, Threads
  <2>2. ep' = [ep EXCEPT ![e] = w]
    BY <1>7
  <2> HIDE DEF w
  <2>3. ListsHold(w.list, w.ready, Out(e) \cup {t})
    BY <2>1, NoneIn DEF ListsHold, OneEach
  <2>4. w.ptr /\ w.thr \notin RunOver
    BY <1>2, <1>7, <2>1 DEF Racing, RunOver
  <2>5. QED
    BY <1>5, <1>7, <2>1, <2>2, <2>3, <2>4
<1>8. QED
  <2>1. \/ xfer' = [xfer EXCEPT ![t].state = "dead"] /\ UNCHANGED ep
        \/ /\ xfer' = [xfer EXCEPT ![t].state = "out", ![t].usb = "queued"]
           /\ \/ /\ ~Wild(e)
                 /\ ep' = [ep EXCEPT ![e] = WithThread([ep[e] EXCEPT !.list = Append(@, t)])]
              \/ Racing(ep[e]) /\ ep' = [ep EXCEPT ![e] = GoneWild(@)]
    BY Zenon DEF Submit, e
  <2>2. QED
    BY <1>4, <1>6, <1>7, <2>1

LEMMA TransfersInit == EmuInit => TransfersInv
<1> SUFFICES ASSUME EmuInit PROVE TransfersInv
  OBVIOUS
<1>1. << >> \in Seq(Transfers) /\ OneEach(<< >>)
  BY DEF OneEach
<1>2. EmuTypes
  BY <1>1 DEF EmuInit, EmuTypes, NoReap, Reaping, Threads, Phases, Fresh, Transfer
<1>3. WaitingInv
  BY DEF EmuInit, WaitingInv, NoReap
<1>4. ASSUME NEW e \in Endpoints PROVE EndpointInv(e)
  <2>1. \A t \in Xfers(e) : t \in Transfers /\ xfer[t].state = "idle" /\ xfer[t].usb = "idle"
    BY DEF EmuInit, Xfers, Fresh
  <2>2. Out(e) = {}
    BY <2>1 DEF Out
  <2>3. ep[e].list = << >> /\ ep[e].ready = << >> /\ ep[e].thr = "none"
    BY DEF EmuInit, NoReap
  <2>4. QED
    BY <1>1, <2>1, <2>2, <2>3, NoneIn DEF EndpointInv, ListsHold, ListsHoldAll
<1>5. QED
  BY <1>2, <1>3, <1>4 DEF TransfersInv

LEMMA TransfersStep == TransfersInv /\ [EmuNext]_emuVars => TransfersInv'
<1> SUFFICES ASSUME TransfersInv, [EmuNext]_emuVars PROVE TransfersInv'
  OBVIOUS
<1>1. CASE UNCHANGED emuVars
  BY <1>1 DEF emuVars, TransfersInv, EmuTypes, WaitingInv, Pool, EndpointInv, ListsHold,
              ListsHoldAll, Out, Xfers, Wild
<1>2. CASE HandleEvents \/ Awake \/ AllAllowed \/ Delivered \/ Unplug
  BY <1>2, HandlerSteps
<1>3. CASE \E t \in Transfers : Submit(t)
  BY <1>3, SubmitStep
<1>4. ASSUME NEW e \in Endpoints, \/ StartStream(e) \/ Started(e) \/ StopStream(e)
                                  \/ Stopped(e) \/ Allow(e) \/ ReapError(e)
      PROVE  TransfersInv'
  BY <1>4, StreamSteps, StopStreamStep, StoppedStep, AllowStep, ReapErrorStep
<1>5. ASSUME NEW e \in Endpoints, Reaper(e) PROVE TransfersInv'
  BY <1>5, AttachStep, TopStep, DeliverStep, ReapCompletedStep, ReapTimeoutStep, ReapLostStep,
     LoseRestStep, ReapNoneStep, WaitStep, ExitStep, LeaveStep DEF Reaper
<1>6. QED
  BY <1>1, <1>2, <1>3, <1>4, <1>5 DEF EmuNext

-----------------------------------------------------------------------------
(* Both lists of an endpoint, one after the other. *)

LEMMA OneAfterTheOther ==
  ASSUME NEW S, NEW s \in Seq(S), NEW r \in Seq(S), OneEach(s), OneEach(r),
         \A t : In(t, s) => ~In(t, r)
  PROVE  /\ s \o r \in Seq(S) /\ OneEach(s \o r)
         /\ \A t : In(t, s \o r) <=> In(t, s) \/ In(t, r)
<1> DEFINE c == s \o r
<1>1. /\ c \in Seq(S) /\ Len(s) \in Nat /\ Len(r) \in Nat /\ Len(c) = Len(s) + Len(r)
      /\ \A i \in 1 .. Len(s) : c[i] = s[i]
      /\ \A i \in 1 .. Len(r) : c[Len(s) + i] = r[i]
  OBVIOUS
<1> HIDE DEF c
<1>2. /\ \A i \in 1 .. Len(s) : i \in 1 .. Len(c)
      /\ \A i \in 1 .. Len(r) : Len(s) + i \in 1 .. Len(c)
  BY <1>1
<1>3. ASSUME NEW i \in 1 .. Len(c), i \notin 1 .. Len(s)
      PROVE  i - Len(s) \in 1 .. Len(r) /\ c[i] = r[i - Len(s)]
  <2>1. i - Len(s) \in 1 .. Len(r) /\ Len(s) + (i - Len(s)) = i
    BY <1>1, <1>3
  <2>2. QED
    BY <1>1, <2>1
<1>4. \A t : In(t, c) <=> In(t, s) \/ In(t, r)
  <2>1. ASSUME NEW t, In(t, s) PROVE In(t, c)
    BY <1>1, <1>2, <2>1 DEF In
  <2>2. ASSUME NEW t, In(t, r) PROVE In(t, c)
    <3>1. PICK i \in 1 .. Len(r) : r[i] = t
      BY <2>2 DEF In
    <3>2. Len(s) + i \in 1 .. Len(c) /\ c[Len(s) + i] = t
      BY <1>1, <1>2, <3>1
    <3>3. QED
      BY <3>2 DEF In
  <2>3. ASSUME NEW t, In(t, c) PROVE In(t, s) \/ In(t, r)
    <3>1. PICK i \in 1 .. Len(c) : c[i] = t
      BY <2>3 DEF In
    <3>2. CASE i \in 1 .. Len(s)
      BY <1>1, <3>1, <3>2 DEF In
    <3>3. CASE i \notin 1 .. Len(s)
      BY <1>3, <3>1, <3>3 DEF In
    <3>4. QED
      BY <3>2, <3>3
  <2>4. QED
    BY <2>1, <2>2, <2>3
<1>5. OneEach(c)
  <2>1. SUFFICES ASSUME NEW i \in 1 .. Len(c), NEW j \in 1 .. Len(c), c[i] = c[j]
                 PROVE  i = j
    BY DEF OneEach
  <2>2. i \in Int /\ j \in Int
    BY <1>1
  <2>3. CASE i \in 1 .. Len(s) /\ j \in 1 .. Len(s)
    BY <1>1, <2>1, <2>3 DEF OneEach
  <2>4. CASE i \notin 1 .. Len(s) /\ j \notin 1 .. Len(s)
    <3>1. i - Len(s) = j - Len(s)
      BY <1>3, <2>1, <2>4 DEF OneEach
    <3>2. QED
      BY <1>1, <2>2, <3>1
  <2>5. CASE i \in 1 .. Len(s) /\ j \notin 1 .. Len(s)
    BY <1>1, <1>3, <2>1, <2>5 DEF In
  <2>6. CASE i \notin 1 .. Len(s) /\ j \in 1 .. Len(s)
    <3>1. In(c[j], s)
      BY <1>1, <2>6 DEF In
    <3>2. In(c[i], r)
      BY <1>3, <2>6 DEF In
    <3>3. QED
      BY <2>1, <3>1, <3>2
  <2>7. QED
    BY <2>3, <2>4, <2>5, <2>6
<1>6. QED
  BY <1>1, <1>4, <1>5 DEF c

LEMMA HeldFacts ==
  ASSUME TransfersInv, NEW e \in Endpoints
  PROVE  /\ Held(e) \in Seq(Transfers) /\ OneEach(Held(e))
         /\ \A t : In(t, Held(e)) => t \in Out(e)
         /\ lost \/ Wild(e) \/ \A t \in Out(e) : In(t, Held(e))
<1> DEFINE l == ep[e].list
           r == ep[e].ready
<1>1. l \in Seq(Transfers) /\ r \in Seq(Transfers)
  BY DEF TransfersInv, EmuTypes, Reaping
<1>2. ListsHold(l, r, Out(e)) /\ (lost \/ Wild(e) \/ ListsHoldAll(l, r, Out(e)))
  BY DEF TransfersInv, EndpointInv
<1>3. Held(e) = l \o r
  BY DEF Held
<1> HIDE DEF l, r
<1>4. /\ l \o r \in Seq(Transfers) /\ OneEach(l \o r)
      /\ \A t : In(t, l \o r) <=> In(t, l) \/ In(t, r)
  BY <1>1, <1>2, OneAfterTheOther DEF ListsHold
<1>5. QED
  BY <1>2, <1>3, <1>4 DEF ListsHold, ListsHoldAll

LEMMA EmuFollows == TransfersInv => EmuInv
<1> SUFFICES ASSUME TransfersInv PROVE EmuInv
  OBVIOUS
<1>1. ASSUME NEW e \in Endpoints
      PROVE  \A i \in 1 .. Len(Held(e)) : Of[Held(e)[i]] = e
  BY HeldFacts DEF In, Out, Xfers
<1>2. ASSUME NEW t \in Transfers
      PROVE  /\ Cardinality(Places(t)) <= 1
             /\ Places(t) # {} => xfer[t].state = "out"
             /\ xfer[t].state = "out" /\ ~lost /\ ~Wild(Of[t]) => Places(t) # {}
  <2> DEFINE e == Of[t]
             h == Held(e)
             P == Places(t)
  <2>1. e \in Endpoints
    BY EmuAssumption
  <2>2. /\ OneEach(h) /\ \A u : In(u, h) => u \in Out(e)
        /\ lost \/ Wild(e) \/ \A u \in Out(e) : In(u, h)
    BY <2>1, HeldFacts
  <2>3. P = {i \in 1 .. Len(h) : h[i] = t}
    BY DEF Places
  <2> HIDE DEF h, P
  <2>4. P # {} <=> In(t, h)
    BY <2>3 DEF In
  <2>5. ASSUME NEW i \in P PROVE P = {i}
    BY <2>2, <2>3, <2>5 DEF OneEach
  <2>6. Cardinality(P) <= 1
    <3>1. CASE P = {}
      BY <3>1, FS_EmptySet
    <3>2. CASE P # {}
      <4>1. PICK i : P = {i}
        BY <2>5, <3>2
      <4>2. Cardinality({i}) = 1
        BY FS_Singleton
      <4>3. QED
        BY <4>1, <4>2
    <3>3. QED
      BY <3>1, <3>2
  <2>7. t \in Out(e) <=> xfer[t].state = "out"
    BY DEF Out, Xfers
  <2>8. QED
    BY <2>2, <2>4, <2>6, <2>7 DEF P
<1>3. WaitsForLiving
  BY DEF TransfersInv, WaitingInv, WaitsForLiving
<1>4. FreedIsDone
  <2>1. SUFFICES ASSUME NEW e \in Endpoints, ep[e].phase = "stopped"
                 PROVE  /\ Held(e) = <<>> /\ ep[e].thr # "losing"
                        /\ \A t \in Xfers(e) : xfer[t].usb = "idle"
    BY DEF FreedIsDone
  <2>2. Out(e) = {} /\ ep[e].thr # "losing" /\ \A t \in Xfers(e) : xfer[t].usb = "idle"
    BY <2>1 DEF TransfersInv, EndpointInv
  <2> DEFINE h == Held(e)
  <2>3. h \in Seq(Transfers) /\ \A t : ~In(t, h)
    BY <2>2, HeldFacts
  <2> HIDE DEF h
  <2>4. ~(1 \in 1 .. Len(h))
    BY <2>3 DEF In
  <2>5. h = <<>>
    BY <2>3, <2>4
  <2>6. QED
    BY <2>2, <2>5 DEF h
<1>5. QED
  BY <1>1, <1>2, <1>3, <1>4 DEF EmuInv, EmuTypeOK

TransfersSpec == EmuInit /\ [][EmuNext]_emuVars

\* The emulation loses no callback and makes none twice, waits for no thread
\* that is gone and keeps no transfer that is freed, whatever number of endpoints
\* and transfers there is and whatever faults happen: of the threads that are not
\* wild, whose list was not written by two threads at once (libusbemu_internal.h:
\* 83-97, 128-139) and which used no freed transfer (libusbemu.cpp:887-888).
THEOREM TransfersAreSafe == TransfersSpec => []EmuInv
<1>1. TransfersSpec => []TransfersInv
  BY TransfersInit, TransfersStep, PTL DEF TransfersSpec
<1>2. QED
  BY <1>1, EmuFollows, PTL

-----------------------------------------------------------------------------
(* How many of some lists of devices a device is in. *)

Holding(L, d) == {i \in 1 .. Len(L) : d \in L[i]}
Count(L, d) == Cardinality(Holding(L, d))
One(P) == IF P THEN 1 ELSE 0

LEMMA HoldingFinite ==
  ASSUME NEW S, NEW L \in Seq(S), NEW d
  PROVE  IsFiniteSet(Holding(L, d)) /\ Count(L, d) \in Nat
<1>1. IsFiniteSet(1 .. Len(L))
  BY FS_Interval
<1>2. Holding(L, d) \subseteq 1 .. Len(L)
  BY DEF Holding
<1>3. IsFiniteSet(Holding(L, d))
  BY <1>1, <1>2, FS_Subset
<1>4. QED
  BY <1>3, FS_CardinalityType DEF Count

LEMMA CountAppend ==
  ASSUME NEW S, NEW L \in Seq(S), NEW l \in S, NEW d
  PROVE  Count(Append(L, l), d) = Count(L, d) + One(d \in l)
<1>1. /\ Len(L) \in Nat /\ Len(Append(L, l)) = Len(L) + 1
      /\ \A i \in 1 .. Len(L) : Append(L, l)[i] = L[i]
      /\ Append(L, l)[Len(L) + 1] = l
  OBVIOUS
<1>2. Len(L) + 1 \notin Holding(L, d)
  BY <1>1 DEF Holding
<1>3. IsFiniteSet(Holding(L, d)) /\ Count(L, d) \in Nat
  BY HoldingFinite
<1>4. CASE d \in l
  <2>1. Holding(Append(L, l), d) = Holding(L, d) \cup {Len(L) + 1}
    BY <1>1, <1>4 DEF Holding
  <2>2. QED
    BY <1>2, <1>3, <1>4, <2>1, FS_AddElement DEF Count, One
<1>5. CASE d \notin l
  <2>1. Holding(Append(L, l), d) = Holding(L, d)
    BY <1>1, <1>5 DEF Holding
  <2>2. QED
    BY <1>3, <1>5, <2>1 DEF Count, One
<1>6. QED
  BY <1>4, <1>5

\* The lists behind the one that is removed move up.
LEMMA CountRemove ==
  ASSUME NEW S, NEW L \in Seq(S), NEW i \in 1 .. Len(L), NEW d
  PROVE  /\ RemoveAt(L, i) \in Seq(S)
         /\ Count(L, d) = Count(RemoveAt(L, i), d) + One(d \in L[i])
<1> DEFINE R == RemoveAt(L, i)
<1>1. /\ R \in Seq(S) /\ Len(L) \in Nat /\ Len(R) = Len(L) - 1
      /\ \A j \in 1 .. i - 1 : R[j] = L[j]
      /\ \A j \in i .. Len(L) - 1 : R[j] = L[j + 1]
  <2> DEFINE a == SubSeq(L, 1, i - 1)
             b == SubSeq(L, i + 1, Len(L))
  <2>1. /\ a \in Seq(S) /\ Len(a) = i - 1 /\ \A j \in 1 .. i - 1 : a[j] = L[j]
        /\ b \in Seq(S) /\ Len(b) = Len(L) - i /\ \A j \in 1 .. Len(L) - i : b[j] = L[i + j]
        /\ Len(L) \in Nat /\ i \in Int
    OBVIOUS
  <2>2. R = a \o b
    BY DEF RemoveAt
  <2> HIDE DEF a, b, R
  <2>3. /\ R \in Seq(S) /\ Len(R) = Len(L) - 1
        /\ \A j \in 1 .. i - 1 : R[j] = a[j]
        /\ \A j \in i .. Len(L) - 1 : R[j] = b[j - (i - 1)]
    BY <2>1, <2>2
  <2>4. \A j \in i .. Len(L) - 1 : b[j - (i - 1)] = L[j + 1]
    <3>1. SUFFICES ASSUME NEW j \in i .. Len(L) - 1 PROVE b[j - (i - 1)] = L[j + 1]
      OBVIOUS
    <3>2. j - (i - 1) \in 1 .. Len(L) - i /\ i + (j - (i - 1)) = j + 1
      BY <2>1
    <3>3. QED
      BY <2>1, <3>2
  <2>5. QED
    BY <2>1, <2>3, <2>4
<1> HIDE DEF R
<1> DEFINE Old == Holding(L, d) \ {i}
           New == Holding(R, d)
           f == [j \in Old |-> IF j < i THEN j ELSE j - 1]
<1>2. f \in Bijection(Old, New)
  <2>1. ASSUME NEW j \in Old PROVE f[j] \in New
    <3>1. j \in 1 .. Len(L) /\ j # i /\ d \in L[j] /\ j \in Int /\ i \in Int
      BY <1>1 DEF Holding
    <3>2. CASE j < i
      <4>1. j \in 1 .. Len(R) /\ R[j] = L[j]
        BY <1>1, <3>1, <3>2
      <4>2. QED
        BY <3>1, <3>2, <4>1 DEF Holding
    <3>3. CASE ~(j < i)
      <4>1. j - 1 \in i .. Len(L) - 1 /\ (j - 1) + 1 = j
        BY <1>1, <3>1, <3>3
      <4>2. R[j - 1] = L[j] /\ j - 1 \in 1 .. Len(R)
        BY <1>1, <3>1, <4>1
      <4>3. QED
        BY <3>1, <3>3, <4>2 DEF Holding
    <3>4. QED
      BY <3>2, <3>3
  <2>2. ASSUME NEW j \in Old, NEW k \in Old, f[j] = f[k] PROVE j = k
    BY <2>2, <1>1 DEF Holding
  <2>3. ASSUME NEW k \in New PROVE \E j \in Old : f[j] = k
    <3>1. CASE k < i
      <4>1. k \in Old /\ f[k] = k
        BY <1>1, <3>1 DEF Holding
      <4>2. QED
        BY <4>1
    <3>2. CASE k >= i
      <4>1. k + 1 \in Old /\ f[k + 1] = k
        BY <1>1, <3>2 DEF Holding
      <4>2. QED
        BY <4>1
    <3>3. QED
      BY <1>1, <3>1, <3>2 DEF Holding
  <2> HIDE DEF Old, New
  <2>4. f \in [Old -> New]
    BY <2>1
  <2> HIDE DEF f
  <2>5. QED
    BY <2>2, <2>3, <2>4 DEF Bijection, Injection, Surjection, IsInjective
<1>3. IsFiniteSet(Holding(L, d)) /\ Count(L, d) \in Nat
  BY HoldingFinite
<1>4. IsFiniteSet(Old) /\ Cardinality(Old) = Count(L, d) - One(i \in Holding(L, d))
  BY <1>3, FS_RemoveElement DEF Count, One
<1>5. Cardinality(New) = Cardinality(Old)
  <2> HIDE DEF Old, New, f
  <2>1. ExistsBijection(Old, New)
    BY <1>2 DEF ExistsBijection
  <2>2. QED
    BY <1>4, <2>1, FS_Bijection
<1>6. i \in Holding(L, d) <=> d \in L[i]
  BY DEF Holding
<1>7. QED
  BY <1>1, <1>3, <1>4, <1>5, <1>6 DEF Count, One, R

-----------------------------------------------------------------------------
(* The registry's inductive invariant: of a device that is there, the record *)
(* counts what refers to it.                                                 *)

Record == [ref : Int, open : Int]
Exact(r, n, o) == o >= 0 /\ r.open = o /\ r.ref = n + o

RegistryTypes ==
  /\ present \subseteq EmuDevs /\ record \in [EmuDevs -> Record]
  /\ opened \in [EmuDevs -> Int] /\ lists \in Seq(SUBSET EmuDevs)

RegistryInv ==
  RegistryTypes /\ \A d \in present : Exact(record[d], Count(lists, d), opened[d])

\* What each operation does to one record.
LEMMA RecordFacts ==
  ASSUME NEW r \in Record
  PROVE  /\ Ref(r) \in Record /\ Unref(r) \in Record
         /\ WithHandle(r) \in Record /\ WithoutHandle(r) \in Record
<1>1. \A x \in Record : Unref(x) \in Record
  BY DEF Record, Unref, Unregistered
<1>2. [r EXCEPT !.open = @ - 1] \in Record
  BY DEF Record
<1>3. WithoutHandle(r) \in Record
  BY <1>1, <1>2 DEF WithoutHandle
<1>4. Ref(r) \in Record /\ WithHandle(r) \in Record
  <2>1. r.ref + 1 \in Int /\ r.open + 1 \in Int
    BY DEF Record
  <2>2. Ref(r) \in Record
    BY <2>1 DEF Record, Ref
  <2>3. WithHandle(r) \in Record
    BY <2>1 DEF Record, WithHandle
  <2>4. QED
    BY <2>2, <2>3
<1>5. QED
  BY <1>1, <1>3, <1>4

LEMMA ExactFacts ==
  ASSUME NEW r \in Record, NEW n \in Nat, NEW o \in Int, Exact(r, n, o)
  PROVE  /\ Exact(Ref(r), n + 1, o)
         /\ n > 0 => Exact(Unref(r), n - 1, o)
         /\ Exact(WithHandle(r), n, o + 1)
         /\ r.open > 0 => Exact(WithoutHandle(r), n, o - 1)
<1>1. Exact(Ref(r), n + 1, o) /\ Exact(WithHandle(r), n, o + 1)
  BY DEF Exact, Record, Ref, WithHandle
<1>2. n > 0 => Exact(Unref(r), n - 1, o)
  BY DEF Exact, Record, Unref, Unregistered
<1>3. ASSUME r.open > 0 PROVE Exact(WithoutHandle(r), n, o - 1)
  BY <1>3 DEF Exact, Record, WithoutHandle, Unref, Unregistered
<1>4. QED
  BY <1>1, <1>2, <1>3

LEMMA CountType ==
  ASSUME RegistryTypes, NEW d
  PROVE  Count(lists, d) \in Nat
BY HoldingFinite DEF RegistryTypes

LEMMA GetDeviceListStep ==
  ASSUME RegistryInv, GetDeviceList
  PROVE  RegistryInv'
<1>1. /\ RegistryTypes /\ Listed \subseteq EmuDevs /\ present \subseteq Listed
      /\ lists' = Append(lists, Listed) /\ UNCHANGED <<present, opened>>
      /\ record' = [d \in EmuDevs |-> IF d \in present THEN Ref(record[d]) ELSE record[d]]
  BY DEF RegistryInv, RegistryTypes, GetDeviceList, Listed, Registered, WithFound
<1>2. RegistryTypes'
  <2>1. \A d \in EmuDevs : Ref(record[d]) \in Record /\ record[d] \in Record
    BY <1>1, RecordFacts DEF RegistryTypes
  <2>2. QED
    BY <1>1, <2>1 DEF RegistryTypes
<1>3. ASSUME NEW d \in present
      PROVE  Exact(record'[d], Count(lists', d), opened'[d])
  <2>1. d \in EmuDevs /\ record[d] \in Record /\ opened[d] \in Int
        /\ Exact(record[d], Count(lists, d), opened[d]) /\ Count(lists, d) \in Nat
    BY <1>1, CountType DEF RegistryInv, RegistryTypes
  <2>2. Count(lists', d) = Count(lists, d) + 1
    <3> DEFINE l == Listed
    <3>1. l \in SUBSET EmuDevs /\ d \in l /\ lists' = Append(lists, l)
      BY <1>1
    <3> HIDE DEF l
    <3>2. lists \in Seq(SUBSET EmuDevs)
      BY <1>1 DEF RegistryTypes
    <3>3. Count(Append(lists, l), d) = Count(lists, d) + One(d \in l)
      BY <3>1, <3>2, CountAppend
    <3>4. One(d \in l) = 1
      BY <3>1 DEF One
    <3>5. QED
      BY <3>1, <3>3, <3>4
  <2>3. Exact(Ref(record[d]), Count(lists, d) + 1, opened[d])
    BY <2>1, ExactFacts
  <2>4. QED
    BY <1>1, <2>1, <2>2, <2>3
<1>4. QED
  BY <1>1, <1>2, <1>3 DEF RegistryInv

LEMMA FreeDeviceListStep ==
  ASSUME RegistryInv, NEW i \in 1 .. Len(lists), FreeDeviceList(i)
  PROVE  RegistryInv'
<1>1. /\ RegistryTypes /\ UNCHANGED <<present, opened>>
      /\ lists' = RemoveAt(lists, i)
      /\ record' = [d \in EmuDevs |-> IF d \in lists[i] THEN Unref(record[d]) ELSE record[d]]
  BY DEF RegistryInv, FreeDeviceList, WithFreed
<1>2. lists' \in Seq(SUBSET EmuDevs)
      /\ \A d : Count(lists, d) = Count(lists', d) + One(d \in lists[i])
  BY <1>1, CountRemove DEF RegistryTypes
<1>3. RegistryTypes'
  <2>1. \A d \in EmuDevs : Unref(record[d]) \in Record /\ record[d] \in Record
    BY <1>1, RecordFacts DEF RegistryTypes
  <2>2. QED
    BY <1>1, <1>2, <2>1 DEF RegistryTypes
<1>4. ASSUME NEW d \in present
      PROVE  Exact(record'[d], Count(lists', d), opened'[d])
  <2>1. d \in EmuDevs /\ record[d] \in Record /\ opened[d] \in Int
        /\ Exact(record[d], Count(lists, d), opened[d])
        /\ Count(lists, d) \in Nat /\ Count(lists', d) \in Nat
    BY <1>1, <1>3, CountType, HoldingFinite DEF RegistryInv, RegistryTypes
  <2>2. Count(lists, d) = Count(lists', d) + One(d \in lists[i])
    BY <1>2
  <2>3. CASE d \in lists[i]
    <3>1. Count(lists, d) > 0 /\ Count(lists, d) - 1 = Count(lists', d)
      BY <2>1, <2>2, <2>3 DEF One
    <3>2. Exact(Unref(record[d]), Count(lists, d) - 1, opened[d])
      BY <2>1, <3>1, ExactFacts
    <3>3. QED
      BY <1>1, <2>1, <2>3, <3>1, <3>2
  <2>4. CASE d \notin lists[i]
    BY <1>1, <2>1, <2>2, <2>4 DEF One
  <2>5. QED
    BY <2>3, <2>4
<1>5. QED
  BY <1>1, <1>3, <1>4 DEF RegistryInv

LEMMA OpenListedStep ==
  ASSUME RegistryInv, NEW o \in EmuDevs, OpenListed(o)
  PROVE  RegistryInv'
<1>1. /\ RegistryTypes /\ UNCHANGED <<present, lists>> /\ record[o] \in Record
      /\ record' = [record EXCEPT ![o] = WithHandle(@)]
      /\ opened' = [opened EXCEPT ![o] = @ + 1]
  BY DEF RegistryInv, RegistryTypes, OpenListed
<1>2. WithHandle(record[o]) \in Record
  BY <1>1, RecordFacts
<1>3. RegistryTypes'
  BY <1>1, <1>2 DEF RegistryTypes
<1>4. ASSUME NEW d \in present
      PROVE  Exact(record'[d], Count(lists', d), opened'[d])
  <2>1. d \in EmuDevs /\ record[d] \in Record /\ opened[d] \in Int
        /\ Exact(record[d], Count(lists, d), opened[d]) /\ Count(lists, d) \in Nat
    BY <1>1, CountType DEF RegistryInv, RegistryTypes
  <2>2. Exact(WithHandle(record[d]), Count(lists, d), opened[d] + 1)
    BY <2>1, ExactFacts
  <2>3. QED
    BY <1>1, <2>1, <2>2 DEF RegistryTypes
<1>5. QED
  BY <1>1, <1>3, <1>4 DEF RegistryInv

\* Every device that is there is listed, so what is counted for the list is
\* taken back when it is freed again.
LEMMA OpenWantedStep ==
  ASSUME RegistryInv, OpenWanted
  PROVE  RegistryInv'
<1>1. PICK some \in SUBSET (Wanted \cap present) :
        /\ record' = [d \in EmuDevs |->
             LET rec == IF d \in present THEN Ref(record[d]) ELSE record[d]
                 held == IF d \in some THEN WithHandle(rec) ELSE rec
             IN  IF d \in Listed THEN Unref(held) ELSE held]
        /\ opened' = [d \in EmuDevs |-> IF d \in some THEN opened[d] + 1 ELSE opened[d]]
  <2>1. PICK some \in SUBSET (Wanted \cap present) :
          /\ record' = LET rec == WithFound(record)
                           held == [d \in EmuDevs |->
                                      IF d \in some THEN WithHandle(rec[d]) ELSE rec[d]]
                       IN  WithFreed(held, Listed)
          /\ opened' = [d \in EmuDevs |-> IF d \in some THEN opened[d] + 1 ELSE opened[d]]
    BY DEF OpenWanted
  <2>2. QED
    BY <2>1 DEF WithFound, WithFreed
<1>2. RegistryTypes /\ UNCHANGED <<present, lists>>
  BY DEF RegistryInv, OpenWanted
<1>3. RegistryTypes'
  <2>1. ASSUME NEW d \in EmuDevs PROVE record'[d] \in Record /\ opened'[d] \in Int
    <3> DEFINE rec == IF d \in present THEN Ref(record[d]) ELSE record[d]
               held == IF d \in some THEN WithHandle(rec) ELSE rec
    <3>1. record[d] \in Record /\ opened[d] \in Int
      BY <1>2 DEF RegistryTypes
    <3>2. rec \in Record
      BY <3>1, RecordFacts
    <3>3. held \in Record
      <4> HIDE DEF rec
      <4>1. QED
        BY <3>2, RecordFacts
    <3>4. Unref(held) \in Record
      <4> HIDE DEF held
      <4>1. QED
        BY <3>3, RecordFacts
    <3>5. QED
      BY <1>1, <3>1, <3>3, <3>4
  <2>2. QED
    BY <1>1, <1>2, <2>1 DEF RegistryTypes
<1>4. ASSUME NEW d \in present
      PROVE  Exact(record'[d], Count(lists', d), opened'[d])
  <2> DEFINE n == Count(lists, d)
             o == opened[d]
             rec == Ref(record[d])
             held == IF d \in some THEN WithHandle(rec) ELSE rec
             oo == IF d \in some THEN o + 1 ELSE o
  <2>1. d \in EmuDevs /\ record[d] \in Record /\ o \in Int
        /\ Exact(record[d], n, o) /\ n \in Nat
    BY <1>2, CountType DEF RegistryInv, RegistryTypes
  <2>2. d \in Listed
    BY DEF Listed
  <2>3. record'[d] = Unref(held) /\ opened'[d] = oo
    BY <1>1, <2>1, <2>2
  <2> HIDE DEF n, o
  <2>4. Exact(rec, n + 1, o) /\ rec \in Record
    BY <2>1, ExactFacts, RecordFacts
  <2> HIDE DEF rec
  <2>5. Exact(held, n + 1, oo) /\ held \in Record /\ oo \in Int
    <3>1. n + 1 \in Nat
      BY <2>1
    <3>2. Exact(WithHandle(rec), n + 1, o + 1) /\ WithHandle(rec) \in Record
      BY <2>1, <2>4, <3>1, ExactFacts, RecordFacts
    <3>3. QED
      BY <2>1, <2>4, <3>2
  <2> HIDE DEF held, oo
  <2>6. Exact(Unref(held), n, oo)
    <3>1. n + 1 \in Nat /\ n + 1 > 0 /\ (n + 1) - 1 = n
      BY <2>1
    <3>2. Exact(Unref(held), (n + 1) - 1, oo)
      BY <2>5, <3>1, ExactFacts
    <3>3. QED
      BY <3>1, <3>2
  <2>7. QED
    BY <1>2, <2>3, <2>6 DEF n
<1>5. QED
  BY <1>2, <1>3, <1>4 DEF RegistryInv

LEMMA CloseStep ==
  ASSUME RegistryInv, NEW c \in EmuDevs, Close(c)
  PROVE  RegistryInv'
<1>1. /\ RegistryTypes /\ UNCHANGED <<present, lists>> /\ record[c] \in Record
      /\ record' = [record EXCEPT ![c] = WithoutHandle(@)]
      /\ opened' = [opened EXCEPT ![c] = @ - 1] /\ record[c].open > 0
  BY DEF RegistryInv, RegistryTypes, Close
<1>2. WithoutHandle(record[c]) \in Record
  BY <1>1, RecordFacts
<1>3. RegistryTypes'
  BY <1>1, <1>2 DEF RegistryTypes
<1>4. ASSUME NEW d \in present
      PROVE  Exact(record'[d], Count(lists', d), opened'[d])
  <2>1. d \in EmuDevs /\ record[d] \in Record /\ opened[d] \in Int
        /\ Exact(record[d], Count(lists, d), opened[d]) /\ Count(lists, d) \in Nat
    BY <1>1, CountType DEF RegistryInv, RegistryTypes
  <2>2. record[d].open > 0 => Exact(WithoutHandle(record[d]), Count(lists, d), opened[d] - 1)
    BY <2>1, ExactFacts
  <2>3. QED
    BY <1>1, <2>1, <2>2 DEF RegistryTypes
<1>5. QED
  BY <1>1, <1>3, <1>4 DEF RegistryInv

LEMMA RegistryInit == EmuDevInit => RegistryInv
<1> SUFFICES ASSUME EmuDevInit PROVE RegistryInv
  OBVIOUS
<1>1. << >> \in Seq(SUBSET EmuDevs) /\ Unregistered \in Record
  BY DEF Unregistered, Record
<1>2. RegistryTypes
  <2>1. present = EmuDevs /\ lists = << >>
    BY DEF EmuDevInit
  <2>2. record = [d \in EmuDevs |-> Unregistered]
    BY DEF EmuDevInit
  <2>3. opened = [d \in EmuDevs |-> 0]
    BY DEF EmuDevInit
  <2>4. record \in [EmuDevs -> Record]
    BY <1>1, <2>2
  <2>5. opened \in [EmuDevs -> Int]
    BY <2>3
  <2>6. QED
    BY <1>1, <2>1, <2>4, <2>5 DEF RegistryTypes
<1>3. ASSUME NEW d \in EmuDevs PROVE Count(<< >>, d) = 0
  <2>1. Holding(<< >>, d) = {}
    BY DEF Holding
  <2>2. QED
    BY <2>1, FS_EmptySet DEF Count
<1>4. ASSUME NEW d \in EmuDevs PROVE Exact(record[d], Count(lists, d), opened[d])
  <2>1. lists = << >> /\ record[d] = Unregistered /\ opened[d] = 0
    BY DEF EmuDevInit
  <2>2. QED
    BY <1>3, <2>1 DEF Exact, Unregistered
<1>5. QED
  BY <1>2, <1>4 DEF RegistryInv, RegistryTypes

LEMMA RegistryStep == RegistryInv /\ [RegistryNext]_regVars => RegistryInv'
<1> SUFFICES ASSUME RegistryInv, [RegistryNext]_regVars PROVE RegistryInv'
  OBVIOUS
<1>1. CASE UNCHANGED <<record, opened, lists>> /\ present' \subseteq present
  BY <1>1 DEF RegistryInv, RegistryTypes
<1>2. CASE \/ UNCHANGED regVars \/ BeginExit \/ ExitDone
           \/ \E d \in EmuDevs : UnplugDevice(d) \/ ExitCount(d)
  BY <1>1, <1>2 DEF regVars, BeginExit, ExitDone, UnplugDevice, ExitCount
<1>3. CASE GetDeviceList \/ OpenWanted \/ \E i \in 1 .. Len(lists) : FreeDeviceList(i)
  BY <1>3, GetDeviceListStep, OpenWantedStep, FreeDeviceListStep
<1>4. ASSUME NEW d \in EmuDevs, OpenListed(d) \/ CloseHandle(d) \/ ExitClose(d)
      PROVE  RegistryInv'
  BY <1>1, <1>4, OpenListedStep, CloseStep DEF CloseHandle, ExitClose
<1>5. QED
  BY <1>2, <1>3, <1>4 DEF RegistryNext

-----------------------------------------------------------------------------
(* The lengths of a transfer's packets. *)

\* Every set of numbers has a least one.
LEMMA LeastNumber ==
  ASSUME NEW T, T \subseteq Nat, T # {}
  PROVE  \E m \in T : \A x \in T : m <= x
<1> DEFINE R == OpToRel(<, Nat)
<1>1. \A x, m \in Nat : <<x, m>> \in R <=> x < m
  BY DEF OpToRel
<1>2. IsWellFoundedOn(R, Nat)
  BY NatLessThanWellFounded
<1> HIDE DEF R
<1>3. PICK m \in T : \A x \in T : ~(<<x, m>> \in R)
  BY <1>2, WFMin
<1>4. \A x \in T : m <= x
  <2>1. \A x \in T : ~(x < m) /\ x \in Nat /\ m \in Nat
    BY <1>1, <1>3
  <2>2. QED
    BY <2>1
<1>5. QED
  BY <1>4

\* Two functions that start the same and go on the same are the same.
GoOnTheSame(f, g, N) == f[0] = g[0] /\ \A n \in 1 .. N : f[n - 1] = g[n - 1] => f[n] = g[n]

LEMMA SameRecursion ==
  ASSUME NEW N \in Nat, NEW f, NEW g, GoOnTheSame(f, g, N), NEW i \in 0 .. N
  PROVE  f[i] = g[i]
<1> DEFINE T == {n \in 0 .. N : f[n] # g[n]}
<1>1. SUFFICES ASSUME T # {} PROVE FALSE
  OBVIOUS
<1>2. T \subseteq Nat
  OBVIOUS
<1> HIDE DEF T
<1>3. PICK m \in T : \A x \in T : m <= x
  BY <1>1, <1>2, LeastNumber
<1> USE DEF T
<1>4. m \in 0 .. N /\ f[m] # g[m]
  BY <1>3
<1>5. m \in 1 .. N
  BY <1>4 DEF GoOnTheSame
<1>6. f[m - 1] # g[m - 1]
  BY <1>4, <1>5 DEF GoOnTheSame
<1>7. m - 1 \in T
  BY <1>5, <1>6
<1> HIDE DEF T
<1>8. QED
  BY <1>3, <1>5, <1>7

\* The bytes of the first n packets.
Sums(pkts, n, f) ==
  /\ f \in [0 .. n -> Nat] /\ f[0] = 0
  /\ \A i \in 1 .. n : f[i] = f[i - 1] + pkts[i].bytes

LEMMA PacketFacts ==
  ASSUME NEW pkts \in [1 .. Slots -> Packets], NEW n \in 1 .. Slots
  PROVE  /\ pkts[n].bytes \in Nat /\ pkts[n].kind \in {"none", "part", "last"}
         /\ pkts[n].kind = "none" => pkts[n].bytes = 0
         /\ pkts[n].kind = "part" => pkts[n].bytes = PktLen
         /\ pkts[n].kind = "last" => pkts[n].bytes = PktEnd
BY PacketsAssumption DEF Packets

LEMMA SumsExist ==
  ASSUME NEW pkts \in [1 .. Slots -> Packets]
  PROVE  \E f : Sums(pkts, Slots, f)
<1> DEFINE T == {n \in 0 .. Slots : ~\E f : Sums(pkts, n, f)}
<1>1. SUFFICES ASSUME T # {} PROVE FALSE
  BY PacketsAssumption
<1>2. T \subseteq Nat
  BY PacketsAssumption
<1> HIDE DEF T
<1>3. PICK m \in T : \A x \in T : m <= x
  BY <1>1, <1>2, LeastNumber
<1> USE DEF T
<1>4. m # 0
  <2>1. Sums(pkts, 0, [i \in 0 .. 0 |-> 0])
    BY DEF Sums
  <2>2. QED
    BY <1>3, <2>1
<1>5. m \in 1 .. Slots /\ m - 1 \in 0 .. Slots /\ m - 1 \notin T
  BY <1>3, <1>4, PacketsAssumption
<1>6. PICK f : Sums(pkts, m - 1, f)
  BY <1>5
<1>7. pkts[m].bytes \in Nat
  BY <1>5, PacketFacts
<1> DEFINE g == [i \in 0 .. m |-> IF i = m THEN f[m - 1] + pkts[m].bytes ELSE f[i]]
<1>8. Sums(pkts, m, g)
  <2>1. f \in [0 .. m - 1 -> Nat] /\ f[0] = 0
        /\ \A i \in 1 .. m - 1 : f[i] = f[i - 1] + pkts[i].bytes
    BY <1>6 DEF Sums
  <2>2. g \in [0 .. m -> Nat] /\ g[0] = 0
    BY <1>5, <1>7, <2>1
  <2>3. \A i \in 1 .. m : g[i] = g[i - 1] + pkts[i].bytes
    BY <1>5, <2>1
  <2>4. QED
    BY <2>2, <2>3 DEF Sums
<1>9. QED
  BY <1>3, <1>8

\* Total() is the bytes of them all, and at least those of the first.
LEMMA TotalIsSum ==
  ASSUME NEW pkts, NEW f, Sums(pkts, Slots, f)
  PROVE  Total(pkts) = f[Slots]
<1> DEFINE E(h) == [n \in 0 .. Slots |-> IF n = 0 THEN 0 ELSE h[n - 1] + pkts[n].bytes]
           g == CHOOSE h : h = E(h)
<1>1. f = E(f)
  BY PacketsAssumption DEF Sums
<1>2. g = E(g)
  BY <1>1
<1>3. Total(pkts) = g[Slots]
  BY DEF Total
<1> HIDE DEF g
<1>4. /\ g[0] = 0 /\ \A n \in 1 .. Slots : g[n] = g[n - 1] + pkts[n].bytes
  BY <1>2, PacketsAssumption
<1>5. \A n \in 0 .. Slots : f[n] = g[n]
  <2>1. GoOnTheSame(f, g, Slots)
    BY <1>4 DEF Sums, GoOnTheSame
  <2>2. QED
    BY <2>1, SameRecursion, PacketsAssumption
<1>6. QED
  BY <1>3, <1>5, PacketsAssumption

LEMMA SumsGrow ==
  ASSUME NEW pkts \in [1 .. Slots -> Packets], NEW f, Sums(pkts, Slots, f), NEW n \in 0 .. Slots
  PROVE  f[n] <= f[Slots]
<1> DEFINE T == {k \in 0 .. Slots : ~(f[Slots - k] <= f[Slots])}
<1>0. Slots \in Nat /\ f \in [0 .. Slots -> Nat]
      /\ \A i \in 1 .. Slots : f[i] = f[i - 1] + pkts[i].bytes /\ pkts[i].bytes \in Nat
  BY PacketsAssumption, PacketFacts DEF Sums
<1>1. CASE T = {}
  <2>1. \A k \in 0 .. Slots : f[Slots - k] <= f[Slots]
    BY <1>1
  <2>2. Slots - n \in 0 .. Slots /\ Slots - (Slots - n) = n
    BY <1>0
  <2>3. f[Slots - (Slots - n)] <= f[Slots]
    BY <2>1, <2>2
  <2>4. QED
    BY <2>2, <2>3
<1>2. CASE T # {}
  <2>1. T \subseteq Nat
    OBVIOUS
  <2> HIDE DEF T
  <2>2. PICK m \in T : \A x \in T : m <= x
    BY <1>2, <2>1, LeastNumber
  <2> USE DEF T
  <2>3. m \in 0 .. Slots /\ ~(f[Slots - m] <= f[Slots]) /\ m # 0
    BY <1>0, <2>2
  <2>4. m - 1 \in 0 .. Slots
    BY <1>0, <2>3
  <2>5. m - 1 \notin T
    <3> HIDE DEF T
    <3>1. m \in Nat
      BY <1>0, <2>3
    <3>2. QED
      BY <2>2, <3>1
  <2>6. f[Slots - (m - 1)] <= f[Slots]
    BY <2>4, <2>5
  <2>7. PICK j \in 1 .. Slots : j = Slots - (m - 1) /\ j - 1 = Slots - m
    BY <1>0, <2>3
  <2>8. f[j] = f[j - 1] + pkts[j].bytes /\ pkts[j].bytes \in Nat
        /\ f[j] \in Nat /\ f[j - 1] \in Nat /\ f[Slots] \in Nat
    BY <1>0
  <2>9. ~(f[j - 1] <= f[Slots]) /\ f[j] <= f[Slots]
    BY <2>3, <2>6, <2>7
  <2>10. QED
    BY <2>8, <2>9
<1>3. QED
  BY <1>1, <1>2

\* What is left after each packet, and what each packet gets of that.
Leaves(pkts, read, r) ==
  /\ r \in [0 .. Slots -> Int] /\ r[0] = read
  /\ \A n \in 1 .. Slots : r[n] = r[n - 1] - Share(pkts[n].kind, r[n - 1])

Gets(pkts, r, lengths) ==
  /\ lengths \in [1 .. Slots -> Nat]
  /\ \A slot \in 1 .. Slots : Share(pkts[slot].kind, r[slot - 1]) = lengths[slot]

LEMMA LengthsFollowRemaining ==
  ASSUME NEW pkts, NEW read, NEW r, Leaves(pkts, read, r),
         NEW lengths, Gets(pkts, r, lengths)
  PROVE  Lengths(pkts, read) = lengths
<1> DEFINE E(h) == [n \in 0 .. Slots |-> IF n = 0 THEN read
                      ELSE h[n - 1] - Share(pkts[n].kind, h[n - 1])]
           g == CHOOSE h : h = E(h)
<1>1. r = E(r)
  BY PacketsAssumption DEF Leaves
<1>2. g = E(g)
  BY <1>1
<1>3. Lengths(pkts, read) = [slot \in 1 .. Slots |-> Share(pkts[slot].kind, g[slot - 1])]
  BY DEF Lengths
<1> HIDE DEF g
<1>4. g[0] = read /\ \A n \in 1 .. Slots : g[n] = g[n - 1] - Share(pkts[n].kind, g[n - 1])
  <2>1. /\ 0 \in 0 .. Slots /\ \A n \in 1 .. Slots : n \in 0 .. Slots /\ n # 0
    BY PacketsAssumption
  <2>2. QED
    BY <1>2, <2>1
<1>5. \A n \in 0 .. Slots : r[n] = g[n]
  <2>1. GoOnTheSame(r, g, Slots)
    BY <1>4 DEF Leaves, GoOnTheSame
  <2>2. QED
    BY <2>1, SameRecursion, PacketsAssumption
<1>6. \A slot \in 1 .. Slots : r[slot - 1] = g[slot - 1]
  BY <1>5, PacketsAssumption
<1>7. QED
  BY <1>3, <1>6 DEF Gets

\* Of what is left, each packet gets the bytes that were sent in it.
LEMMA LengthsAreRight ==
  ASSUME NEW pkts \in [1 .. Slots -> Packets]
  PROVE  /\ Total(pkts) \in Nat
         /\ Lengths(pkts, Total(pkts)) = [slot \in 1 .. Slots |-> pkts[slot].bytes]
         /\ Total(pkts) = 0 => \A slot \in 1 .. Slots : pkts[slot].bytes = 0
<1>1. PICK f : Sums(pkts, Slots, f)
  BY SumsExist
<1>2. /\ Slots \in Nat /\ f \in [0 .. Slots -> Nat] /\ f[0] = 0
      /\ \A i \in 1 .. Slots : f[i] = f[i - 1] + pkts[i].bytes /\ pkts[i].bytes \in Nat
  BY <1>1, PacketsAssumption, PacketFacts DEF Sums
<1> DEFINE total == Total(pkts)
<1>3. total = f[Slots] /\ total \in Nat
  BY <1>1, <1>2, TotalIsSum
<1> HIDE DEF total
<1>4. \A n \in 0 .. Slots : f[n] <= total
  BY <1>1, <1>3, SumsGrow
<1>5. \A n \in 1 .. Slots : Share(pkts[n].kind, total - f[n - 1]) = pkts[n].bytes
  <2> TAKE n \in 1 .. Slots
  <2>1. f[n - 1] \in Nat /\ f[n] = f[n - 1] + pkts[n].bytes /\ f[n] <= total
        /\ pkts[n].bytes \in Nat
    BY <1>2, <1>4
  <2>2. pkts[n].bytes <= total - f[n - 1] /\ total - f[n - 1] \in Int
    BY <1>3, <2>1
  <2>3. QED
    BY <2>1, <2>2, PacketFacts, PacketsAssumption DEF Share, Least
<1> DEFINE r == [n \in 0 .. Slots |-> total - f[n]]
           bytes == [slot \in 1 .. Slots |-> pkts[slot].bytes]
<1>6. /\ r[0] = total
      /\ \A n \in 1 .. Slots : r[n] = r[n - 1] - Share(pkts[n].kind, r[n - 1])
  <2>1. r[0] = total
    BY <1>2, <1>3
  <2>2. ASSUME NEW n \in 1 .. Slots
        PROVE  r[n] = r[n - 1] - Share(pkts[n].kind, r[n - 1])
    <3>1. r[n] = total - f[n] /\ r[n - 1] = total - f[n - 1]
      BY <1>2
    <3>2. Share(pkts[n].kind, r[n - 1]) = pkts[n].bytes
      BY <1>5, <3>1
    <3>3. f[n] = f[n - 1] + pkts[n].bytes /\ f[n - 1] \in Nat /\ pkts[n].bytes \in Nat
      BY <1>2
    <3>4. QED
      BY <1>3, <3>1, <3>2, <3>3
  <2>3. QED
    BY <2>1, <2>2
<1>7. \A slot \in 1 .. Slots : Share(pkts[slot].kind, r[slot - 1]) = bytes[slot]
  <2> TAKE slot \in 1 .. Slots
  <2>1. slot - 1 \in 0 .. Slots /\ r[slot - 1] = total - f[slot - 1]
    BY <1>2
  <2>2. QED
    BY <1>5, <2>1
<1>8. Lengths(pkts, total) = bytes
  <2>1. r \in [0 .. Slots -> Int] /\ bytes \in [1 .. Slots -> Nat]
    BY <1>2, <1>3
  <2> HIDE DEF r, bytes
  <2>2. Leaves(pkts, total, r) /\ Gets(pkts, r, bytes)
    BY <1>6, <1>7, <2>1 DEF Leaves, Gets
  <2>3. QED
    BY <2>2, LengthsFollowRemaining
<1> HIDE DEF r
<1>9. total = 0 => \A slot \in 1 .. Slots : pkts[slot].bytes = 0
  <2> SUFFICES ASSUME total = 0, NEW slot \in 1 .. Slots PROVE pkts[slot].bytes = 0
    OBVIOUS
  <2>1. f[slot] <= 0 /\ f[slot] \in Nat /\ f[slot - 1] \in Nat
        /\ f[slot] = f[slot - 1] + pkts[slot].bytes /\ pkts[slot].bytes \in Nat
    BY <1>2, <1>4
  <2>2. QED
    BY <2>1
<1>10. QED
  BY <1>3, <1>8, <1>9 DEF total

\* A transfer that brought nothing has no lengths to be taken for another's.
PacketsInv ==
  /\ tx \in [sent : [1 .. Slots -> Packets], read : Nat,
             lengths : [1 .. Slots -> Nat], out : BOOLEAN]
  /\ tx.out => tx.read = 0
  /\ tx.read = 0 => tx.lengths = Zero
  /\ LengthsExact

LEMMA PacketsStart == EmuDevInit => PacketsInv
<1> SUFFICES ASSUME EmuDevInit PROVE PacketsInv
  OBVIOUS
<1>1. tx = [sent |-> Unsent, read |-> 0, lengths |-> Zero, out |-> FALSE]
  BY DEF EmuDevInit
<1>2. Unsent \in [1 .. Slots -> Packets] /\ Zero \in [1 .. Slots -> Nat]
  BY DEF Unsent, Packets, Zero
<1>3. \A slot \in 1 .. Slots : Zero[slot] = Unsent[slot].bytes
  BY DEF Unsent, Zero
<1>4. QED
  BY <1>1, <1>2, <1>3 DEF PacketsInv, LengthsExact

LEMMA SubmitAgainStep ==
  ASSUME PacketsInv, SubmitAgain
  PROVE  PacketsInv'
<1>1. Unsent \in [1 .. Slots -> Packets] /\ Zero \in [1 .. Slots -> Nat]
  BY DEF Unsent, Packets, Zero
<1>2. /\ Cleared(tx) \in [sent : [1 .. Slots -> Packets], read : Nat,
                          lengths : [1 .. Slots -> Nat], out : BOOLEAN]
      /\ Cleared(tx).read = 0 /\ Cleared(tx).lengths = Zero
  <2>1. CASE tx.read > 0
    BY <1>1, <2>1 DEF PacketsInv, Cleared
  <2>2. CASE ~(tx.read > 0)
    <3>1. tx.read \in Nat /\ tx.read = 0 /\ Cleared(tx) = tx
      BY <2>2 DEF PacketsInv, Cleared
    <3>2. QED
      BY <3>1 DEF PacketsInv
  <2>3. QED
    BY <2>1, <2>2
<1>3. /\ tx' \in [sent : [1 .. Slots -> Packets], read : Nat,
                  lengths : [1 .. Slots -> Nat], out : BOOLEAN]
      /\ tx'.lengths = Zero /\ tx'.read = 0 /\ tx'.out
  BY <1>2 DEF SubmitAgain
<1>4. QED
  BY <1>3 DEF PacketsInv, LengthsExact, Zero

LEMMA ReapPacketsStep ==
  ASSUME PacketsInv, ReapPackets
  PROVE  PacketsInv'
<1>1. PICK pkts \in [1 .. Slots -> Packets] : tx' = Reaped(tx, pkts)
  BY DEF ReapPackets
<1>2. /\ tx.out /\ tx.lengths \in [1 .. Slots -> Nat]
      /\ tx \in [sent : [1 .. Slots -> Packets], read : Nat,
                 lengths : [1 .. Slots -> Nat], out : BOOLEAN]
  BY DEF PacketsInv, ReapPackets
<1> DEFINE bytes == [slot \in 1 .. Slots |-> pkts[slot].bytes]
           total == Total(pkts)
<1>3. bytes \in [1 .. Slots -> Nat]
  BY PacketFacts
<1>4. /\ total \in Nat /\ Lengths(pkts, total) = bytes
      /\ total = 0 => \A slot \in 1 .. Slots : pkts[slot].bytes = 0
  BY LengthsAreRight
<1>5. /\ tx' \in [sent : [1 .. Slots -> Packets], read : Nat,
                  lengths : [1 .. Slots -> Nat], out : BOOLEAN]
      /\ tx'.sent = pkts /\ tx'.read = total /\ ~tx'.out
      /\ tx'.lengths = IF total > 0 THEN bytes ELSE tx.lengths
  <2> HIDE DEF bytes, total
  <2>1. tx' = [tx EXCEPT !.out = FALSE, !.sent = pkts, !.read = total,
                         !.lengths = IF total > 0 THEN bytes ELSE tx.lengths]
    BY <1>1, <1>4 DEF Reaped, total
  <2>2. QED
    BY <1>2, <1>3, <1>4, <2>1
<1>6. tx'.read = 0 => tx'.lengths = Zero
  BY <1>2, <1>4, <1>5 DEF PacketsInv
<1>7. \A slot \in 1 .. Slots : tx'.lengths[slot] = pkts[slot].bytes
  <2> TAKE slot \in 1 .. Slots
  <2>1. CASE total > 0
    BY <1>5, <2>1
  <2>2. CASE ~(total > 0)
    <3>1. tx'.lengths = Zero /\ pkts[slot].bytes = 0
      BY <1>2, <1>4, <1>5, <2>2 DEF PacketsInv
    <3>2. QED
      BY <3>1 DEF Zero
  <2>3. QED
    BY <2>1, <2>2
<1>8. QED
  BY <1>5, <1>6, <1>7 DEF PacketsInv, LengthsExact

LEMMA PacketsStep ==
  ASSUME PacketsInv, [PacketsNext]_tx
  PROVE  PacketsInv'
<1>1. CASE tx' = tx
  BY <1>1 DEF PacketsInv, LengthsExact
<1>2. QED
  BY <1>1, SubmitAgainStep, ReapPacketsStep DEF PacketsNext

EmuDevSpec ==
  EmuDevInit /\ [][(RegistryNext /\ UNCHANGED tx) \/ (PacketsNext
     /\ UNCHANGED regVars)]_emuDevVars

\* A device's record is there as long as a list or a handle of the client's
\* refers to it, in whatever order lists are taken and freed and handles opened
\* and closed, and for any number of devices; and each packet of a transfer has
\* the length it was sent with, for any sizes of packets.
THEOREM ReferencesAndLengths == EmuDevSpec => []EmuDevInv
<1>1. EmuDevInit => RegistryInv /\ PacketsInv
  BY RegistryInit, PacketsStart
<1>2. ASSUME RegistryInv, PacketsInv,
             [(RegistryNext /\ UNCHANGED tx) \/ (PacketsNext /\ UNCHANGED regVars)]_emuDevVars
      PROVE  RegistryInv' /\ PacketsInv'
  <2>1. [RegistryNext]_regVars /\ [PacketsNext]_tx
    BY <1>2 DEF emuDevVars
  <2>2. QED
    BY <1>2, <2>1, RegistryStep, PacketsStep
<1>3. RegistryInv /\ PacketsInv => EmuDevInv
  BY DEF RegistryInv, PacketsInv, EmuDevInv, RefsExact, Exact, Count, Holding
<1>4. QED
  BY <1>1, <1>2, <1>3, PTL DEF EmuDevSpec

-----------------------------------------------------------------------------
(* fakenect: a recording of any fate, and its playing.                       *)

\* The formats of fakenect's modes, one of which a client chooses.
PlayableFormats == {"11BIT", "REGISTERED", "MM"} \X {"RGB", "YUV_RAW"}

RecordingNext(Chosen) == (RecorderNext /\ UNCHANGED playVars) \/ PlayerNext(Chosen)
RecordingSpec(Chosen) ==
  RecorderInit /\ PlayerInit /\ [][RecordingNext(Chosen)]_<<recVars, playVars>>

Items == [type : {"d", "r", "a"}, gap : Gaps, ts : 1 .. MaxItems, id : 1 .. MaxItems]
Fates == {"open", "empty", "short", "whole"}

RecorderFacts ==
  /\ rphase \in {"new", "events", "accel", "stopping", "ended", "refused"}
  /\ recording \in BOOLEAN /\ json \in BOOLEAN /\ torn \in BOOLEAN
  /\ clean \in BOOLEAN /\ (clean => ~torn)
  /\ clean => \A i \in 1 .. Len(lines) : written[i] \in {"open", "whole"}
  /\ \A i \in 1 .. Len(lines) - 1 : written[i] # "open"
  /\ lines \in Seq(Items) /\ written \in Seq(Fates)
  /\ Len(lines) = Len(written) /\ Len(lines) <= MaxItems
  /\ last_timestamp \in Nat /\ sent \in Nat /\ last_timestamp <= sent /\ sent <= Len(lines)

PlayerFacts ==
  /\ pphase \in {"off", "up", "exited", "crashed"} /\ position \in Int
  /\ -1 <= position /\ position <= Len(lines) + 1
  /\ pphase # "off" \/ position # -1 => Ended
  /\ cbs \subseteq {"d", "r"} /\ on \subseteq {"d", "r"} /\ formats \in PlayableFormats
  /\ pictures.item.type \in {"none", "d", "r"}
  /\ pictures.item.type = "d" => pictures.as \in {"11BIT", "REGISTERED", "MM"}
  /\ pictures.item.type = "r" => pictures.as \in {"RGB", "YUV_RAW"}
  /\ tables \in BOOLEAN /\ (pphase # "off" => tables = json)
  /\ state \in 0 .. MaxItems
  /\ timed \in BOOLEAN /\ idle \in Delays /\ busy \in Delays

RecordingInv == RecorderFacts /\ PlayerFacts /\ BadEndsExplained /\ NotTooFast

LEMMA RecordingTypes ==
  ASSUME RecorderFacts
  PROVE  /\ MaxItems \in Nat /\ Gaps \subseteq Nat /\ Len(lines) \in Nat
         /\ DOMAIN lines = 1 .. Len(lines) /\ \A i \in DOMAIN lines : lines[i] \in Items
         /\ DOMAIN written = 1 .. Len(lines) /\ \A i \in DOMAIN written : written[i] \in Fates
BY RecorderAssumption DEF RecorderFacts

\* dump() writes a line of the index.
LEMMA LineStep ==
  ASSUME RecorderFacts, NEW type \in {"d", "r", "a"}, NEW ts \in 1 .. Len(lines) + 1,
         NEW id \in 1 .. Len(lines) + 1, NEW g \in Gaps, Line(type, ts, id, g)
  PROVE  /\ lines' \in Seq(Items) /\ written' \in Seq(Fates)
         /\ Len(lines') = Len(lines) + 1 /\ Len(written') = Len(lines) + 1
         /\ Len(lines) + 1 <= MaxItems
         /\ clean => \A i \in 1 .. Len(lines') : written'[i] \in {"open", "whole"}
         /\ \A i \in 1 .. Len(lines') - 1 : written'[i] # "open"
<1> DEFINE item == [type |-> type, gap |-> g, ts |-> ts, id |-> id]
<1>1. Len(lines) \in Nat /\ MaxItems \in Nat /\ Len(lines) < MaxItems
      /\ lines' = Append(lines, item) /\ written' = Append(written, "open")
  BY RecordingTypes DEF Line
<1>2. item \in Items
  BY <1>1 DEF Items
<1> HIDE DEF item
<1>3. lines' \in Seq(Items) /\ Len(lines') = Len(lines) + 1
  BY <1>1, <1>2 DEF RecorderFacts
<1>4. written' \in Seq(Fates) /\ Len(written') = Len(written) + 1
  BY <1>1 DEF RecorderFacts, Fates
<1>5. ASSUME clean, NEW i \in 1 .. Len(lines) + 1 PROVE written'[i] \in {"open", "whole"}
  <2>1. /\ written \in Seq(Fates) /\ Len(written) = Len(lines) /\ Len(lines) \in Nat
        /\ i \in 1 .. Len(lines) => written[i] \in {"open", "whole"}
    BY <1>1, <1>5 DEF RecorderFacts
  <2>2. written'[i] = IF i \in 1 .. Len(lines) THEN written[i] ELSE "open"
    BY <1>1, <1>5, <2>1
  <2>3. QED
    BY <2>1, <2>2
<1>6. ASSUME NEW i \in 1 .. Len(lines) PROVE written'[i] # "open"
  <2>1. /\ written \in Seq(Fates) /\ Len(written) = Len(lines) /\ Len(lines) \in Nat
        /\ i \in 1 .. Len(lines) - 1 \/ i = Len(lines)
        /\ i \in 1 .. Len(lines) - 1 => written[i] # "open"
        /\ i = Len(lines) => written[i] # "open"
    BY <1>1, <1>6 DEF RecorderFacts, Line, Writing
  <2>2. written'[i] = written[i]
    BY <1>1, <1>6, <2>1
  <2>3. QED
    BY <2>1, <2>2
<1>7. QED
  BY <1>1, <1>3, <1>4, <1>5, <1>6 DEF RecorderFacts

LEMMA DataStep ==
  ASSUME RecorderFacts, NEW how \in {"empty", "short", "whole"}, Data(how)
  PROVE  RecorderFacts'
<1>1. /\ Len(written) \in Nat /\ Len(written) > 0 /\ written \in Seq(Fates) /\ how \in Fates
      /\ written' = [written EXCEPT ![Len(written)] = how]
      /\ clean' = (clean /\ how = "whole")
      /\ UNCHANGED <<rphase, recording, lines, last_timestamp, sent, json, torn>>
  BY DEF RecorderFacts, Data, Writing, Fates
<1>2. written' \in Seq(Fates) /\ Len(written') = Len(written)
  BY <1>1
<1>3. ASSUME clean', NEW i \in 1 .. Len(lines) PROVE written'[i] \in {"open", "whole"}
  <2>1. how = "whole" /\ written[i] \in {"open", "whole"} /\ Len(written) = Len(lines)
    BY <1>1, <1>3 DEF RecorderFacts
  <2>2. QED
    BY <1>1, <2>1
<1>4. clean' \in BOOLEAN /\ (clean' => ~torn')
  BY <1>1 DEF RecorderFacts
<1>5. ASSUME NEW i \in 1 .. Len(lines) - 1 PROVE written'[i] # "open"
  <2>1. written[i] # "open" /\ how # "open" /\ Len(written) = Len(lines)
    BY <1>1, <1>5 DEF RecorderFacts
  <2>2. QED
    BY <1>1, <1>5, <2>1
<1>6. QED
  BY <1>1, <1>2, <1>3, <1>4, <1>5 DEF RecorderFacts

LEMMA RecordFrameStep ==
  ASSUME RecorderFacts, NEW type \in {"d", "r"}, NEW g \in Gaps, RecordFrame(type, g)
  PROVE  RecorderFacts'
<1>1. /\ Line(type, sent + 1, sent + 1, g) /\ sent' = sent + 1 /\ last_timestamp' = sent + 1
      /\ UNCHANGED <<rphase, recording, json, torn, clean>>
  BY DEF RecordFrame
<1>2. sent + 1 \in 1 .. Len(lines) + 1 /\ sent \in Nat
  BY RecordingTypes DEF RecorderFacts
<1>3. /\ lines' \in Seq(Items) /\ written' \in Seq(Fates)
      /\ Len(lines') = Len(lines) + 1 /\ Len(written') = Len(lines) + 1
      /\ Len(lines) + 1 <= MaxItems
      /\ clean => \A i \in 1 .. Len(lines') : written'[i] \in {"open", "whole"}
      /\ \A i \in 1 .. Len(lines') - 1 : written'[i] # "open"
  BY <1>1, <1>2, LineStep
<1>4. QED
  BY <1>1, <1>2, <1>3, RecordingTypes DEF RecorderFacts

LEMMA SnapshotStep ==
  ASSUME RecorderFacts, NEW g \in Gaps, SnapshotAccel(g)
  PROVE  RecorderFacts'
<1>1. /\ UNCHANGED <<recording, last_timestamp, sent, json, torn, clean>>
      /\ rphase' \in {"events", "stopping"}
      /\ \/ Seen /\ Line("a", last_timestamp, sent, g)
         \/ UNCHANGED <<lines, written>>
  BY DEF SnapshotAccel
<1>2. CASE Seen /\ Line("a", last_timestamp, sent, g)
  <2>1. last_timestamp \in 1 .. Len(lines) + 1 /\ sent \in 1 .. Len(lines) + 1
    BY <1>2, RecordingTypes DEF Seen, RecorderFacts
  <2>2. /\ lines' \in Seq(Items) /\ written' \in Seq(Fates)
        /\ Len(lines') = Len(lines) + 1 /\ Len(written') = Len(lines) + 1
        /\ Len(lines) + 1 <= MaxItems
        /\ clean => \A i \in 1 .. Len(lines') : written'[i] \in {"open", "whole"}
        /\ \A i \in 1 .. Len(lines') - 1 : written'[i] # "open"
    BY <1>2, <2>1, LineStep
  <2>3. QED
    BY <1>1, <2>1, <2>2, RecordingTypes DEF RecorderFacts
<1>3. CASE UNCHANGED <<lines, written>>
  BY <1>1, <1>3 DEF RecorderFacts
<1>4. QED
  BY <1>1, <1>2, <1>3

\* However the recorder ends, what is left is a beginning of the index.
LEMMA LeftStep ==
  ASSUME RecorderFacts, NEW n \in Nat, NEW cut \in BOOLEAN,
         NEW left \in {"empty", "short", "whole"}, LeaveOnDisk(n, cut, left),
         clean' \in BOOLEAN, clean' => clean /\ ~Writing /\ ~cut
  PROVE  RecorderFacts'
<1>1. /\ n \in 0 .. Len(lines) /\ rphase' = "ended" /\ lines' = SubSeq(lines, 1, n)
      /\ written' = [i \in 1 .. n |-> IF written[i] = "open" THEN left ELSE written[i]]
      /\ torn' = cut /\ recording' = FALSE /\ last_timestamp' = 0 /\ sent' = 0
      /\ UNCHANGED json
  BY DEF LeaveOnDisk
<1>2. n \in Nat /\ Len(lines) \in Nat /\ n <= Len(lines) /\ n <= MaxItems
  BY <1>1, RecordingTypes DEF RecorderFacts
<1>3. lines' \in Seq(Items) /\ Len(lines') = n
  <2>1. lines \in Seq(Items)
    BY DEF RecorderFacts
  <2>2. SubSeq(lines, 1, n) \in Seq(Items) /\ Len(SubSeq(lines, 1, n)) = n
    BY <1>2, <2>1, SubSeqProperties
  <2>3. QED
    BY <1>1, <2>2
<1>4. written' \in Seq(Fates) /\ Len(written') = n
  <2>1. \A i \in 1 .. n : (IF written[i] = "open" THEN left ELSE written[i]) \in Fates
    BY <1>1, <1>2, RecordingTypes DEF Fates
  <2>2. written' \in [1 .. n -> Fates]
    BY <1>1, <2>1
  <2>3. QED
    BY <1>2, <2>2
<1>5. json' \in BOOLEAN /\ recording' \in BOOLEAN /\ torn' \in BOOLEAN
  BY <1>1 DEF RecorderFacts
<1>6. /\ Len(lines') <= MaxItems /\ last_timestamp' \in Nat /\ sent' \in Nat
      /\ last_timestamp' <= sent' /\ sent' <= Len(lines')
  BY <1>1, <1>2, <1>3
<1>7. ASSUME clean', NEW i \in 1 .. Len(lines') PROVE written'[i] \in {"open", "whole"}
  <2>1. i \in 1 .. n /\ i \in 1 .. Len(lines)
        /\ (i \in 1 .. Len(lines) - 1 \/ i = Len(lines))
    BY <1>2, <1>3, <1>7
  <2>2. written[i] \in {"open", "whole"}
    BY <1>7, <2>1 DEF RecorderFacts
  <2>3. written[i] # "open"
    BY <1>2, <1>7, <2>1 DEF RecorderFacts, Writing
  <2>4. QED
    BY <1>1, <2>1, <2>2, <2>3
<1>8. clean' => ~torn'
  BY <1>1
<1>9. ASSUME NEW i \in 1 .. Len(lines') - 1 PROVE written'[i] # "open"
  <2>1. i \in 1 .. n
    BY <1>2, <1>3
  <2>2. QED
    BY <1>1, <2>1
<1>10. QED
  BY <1>1, <1>3, <1>4, <1>5, <1>6, <1>7, <1>8, <1>9 DEF RecorderFacts

\* Once the recorder has ended, what it left stays.
LEMMA LeftAlone ==
  ASSUME Ended, RecorderNext
  PROVE  UNCHANGED <<rphase, lines, written, last_timestamp, sent, json, torn, clean>>
BY DEF Ended, RecorderNext, Begin, RecordFrame, ProcessedEvents, SnapshotAccel, Data, Signal,
   End, NoFile, Kill

LEMMA RecorderStep ==
  ASSUME RecorderFacts, RecorderNext
  PROVE  RecorderFacts'
<1>1. CASE \E e, o, s \in BOOLEAN : Begin(e, o, s)
  BY <1>1 DEF RecorderFacts, Begin, OpenIndex, WriteDeviceInfo
<1>2. CASE \E t \in {"d", "r"}, g \in Gaps : RecordFrame(t, g)
  BY <1>2, RecordFrameStep
<1>3. CASE \E ok \in BOOLEAN : ProcessedEvents(ok)
  BY <1>3 DEF RecorderFacts, ProcessedEvents
<1>4. CASE \E g \in Gaps : SnapshotAccel(g)
  BY <1>4, SnapshotStep
<1>5. CASE \E how \in {"empty", "short", "whole"} : Data(how)
  BY <1>5, DataStep
<1>6. CASE Signal
  BY <1>6 DEF RecorderFacts, Signal
<1>7. CASE \E n \in 0 .. MaxItems, cut \in BOOLEAN : End(n, cut)
  <2>1. PICK n \in 0 .. MaxItems, cut \in BOOLEAN : End(n, cut)
    BY <1>7
  <2>2. n \in Nat /\ LeaveOnDisk(n, cut, "empty") /\ clean' \in BOOLEAN
        /\ (clean' => clean /\ ~Writing /\ ~cut)
    BY <2>1 DEF End, RecorderFacts
  <2>3. QED
    BY <2>2, LeftStep
<1>8. CASE \E n \in 0 .. MaxItems, cut \in BOOLEAN : NoFile(n, cut)
  <2>1. PICK n \in 0 .. MaxItems, cut \in BOOLEAN : NoFile(n, cut)
    BY <1>8
  <2>2. n \in Nat /\ LeaveOnDisk(n, cut, "empty") /\ clean' = FALSE
    BY <2>1 DEF NoFile
  <2>3. QED
    BY <2>2, LeftStep
<1>9. CASE \E n \in 0 .. MaxItems, cut \in BOOLEAN, left \in {"empty", "short", "whole"} :
             Kill(n, cut, left)
  <2>1. PICK n \in 0 .. MaxItems, cut \in BOOLEAN, left \in {"empty", "short", "whole"} :
          Kill(n, cut, left)
    BY <1>9
  <2>2. n \in Nat /\ LeaveOnDisk(n, cut, left) /\ clean' = FALSE
    BY <2>1 DEF Kill
  <2>3. QED
    BY <2>2, LeftStep
<1>10. QED
  BY <1>1, <1>2, <1>3, <1>4, <1>5, <1>6, <1>7, <1>8, <1>9 DEF RecorderNext

-----------------------------------------------------------------------------
(* The player. *)

\* The recorder's steps before and after a recording is played.
LEMMA RecordingStep ==
  ASSUME RecordingInv, RecorderNext, UNCHANGED playVars
  PROVE  RecordingInv'
<1>1. RecorderFacts'
  BY RecorderStep DEF RecordingInv
<1>2. CASE Ended
  <2>1. UNCHANGED <<rphase, lines, written, last_timestamp, sent, json, torn, clean>>
    BY <1>2, LeftAlone
  <2>2. PlayerFacts'
    BY <2>1 DEF RecordingInv, PlayerFacts, playVars, Ended
  <2>3. BadEndsExplained' /\ NotTooFast'
    BY <2>1 DEF RecordingInv, BadEndsExplained, NotTooFast, playVars
  <2>4. QED
    BY <1>1, <2>2, <2>3 DEF RecordingInv
<1>3. CASE ~Ended
  <2>1. pphase = "off" /\ position = -1
    BY <1>3 DEF RecordingInv, PlayerFacts
  <2>2. Len(lines') \in Nat
    BY <1>1 DEF RecorderFacts
  <2>3. PlayerFacts'
    BY <2>1, <2>2 DEF RecordingInv, PlayerFacts, playVars
  <2>4. BadEndsExplained' /\ NotTooFast'
    BY <2>1 DEF RecordingInv, BadEndsExplained, NotTooFast, playVars
  <2>5. QED
    BY <1>1, <2>3, <2>4 DEF RecordingInv
<1>4. QED
  BY <1>2, <1>3

\* What the client does but playing.
LEMMA ClientStep ==
  ASSUME RecordingInv,
         Open \/ Shutdown \/ SetCallbacks \/ Elapse
           \/ (\E c \in {"d", "r"} : StartStop(c))
           \/ (\E f \in PlayableFormats : SetMode(f))
  PROVE  RecordingInv'
<1>1. /\ UNCHANGED recVars /\ UNCHANGED <<position, state, pictures, timed, busy>>
      /\ UNCHANGED <<spacing, gap, spent>> /\ pphase' \in {"off", "up"}
  BY DEF Open, Shutdown, SetCallbacks, Elapse, StartStop, SetMode, pace
<1>2. RecorderFacts'
  BY <1>1 DEF RecordingInv, RecorderFacts, recVars
<1>3. pphase' # "off" \/ position' # -1 => Ended'
  BY <1>1 DEF RecordingInv, PlayerFacts, Ended, recVars, Open, Shutdown, SetCallbacks, Elapse,
              StartStop, SetMode
<1>4. cbs' \subseteq {"d", "r"} /\ on' \subseteq {"d", "r"} /\ formats' \in PlayableFormats
  BY DEF RecordingInv, PlayerFacts, Open, Shutdown, SetCallbacks, Elapse, StartStop, SetMode,
         client, PlayableFormats
<1>5. tables' \in BOOLEAN /\ (pphase' # "off" => tables' = json')
  BY <1>1, <1>2 DEF RecordingInv, PlayerFacts, RecorderFacts, recVars, Open, Shutdown,
              SetCallbacks, Elapse, StartStop, SetMode, ReadDeviceInfo
<1>6. idle' \in Delays
  BY DEF RecordingInv, PlayerFacts, Open, Shutdown, SetCallbacks, Elapse, StartStop, SetMode,
     pace
<1>7. PlayerFacts'
  BY <1>1, <1>3, <1>4, <1>5, <1>6 DEF RecordingInv, PlayerFacts, recVars
<1>8. BadEndsExplained' /\ NotTooFast'
  BY <1>1 DEF RecordingInv, BadEndsExplained, NotTooFast
<1>9. QED
  BY <1>2, <1>7, <1>8 DEF RecordingInv

LEMMA EndStep ==
  ASSUME RecordingInv, pphase = "up", NEW n \in Int, 1 <= n, AtEnd(n)
  PROVE  RecordingInv'
<1>1. /\ UNCHANGED recVars /\ UNCHANGED <<pphase, cbs, on, formats, tables, state, pictures>>
      /\ UNCHANGED <<idle, busy, spacing, gap, spent>> /\ timed' \in {FALSE, timed}
      /\ \/ position' = -1
         \/ position' = IF n > Len(lines) THEN Len(lines) + 1 ELSE n
  BY DEF AtEnd, Closed, client
<1>2. Len(lines) \in Nat
  BY RecordingTypes DEF RecordingInv
<1>3. position' \in Int /\ -1 <= position' /\ position' <= Len(lines) + 1
  BY <1>1, <1>2
<1>4. RecorderFacts'
  BY <1>1 DEF RecordingInv, RecorderFacts, recVars
<1>5. PlayerFacts'
  BY <1>1, <1>3 DEF RecordingInv, PlayerFacts, recVars, Ended
<1>6. BadEndsExplained' /\ NotTooFast'
  BY <1>1 DEF RecordingInv, BadEndsExplained, NotTooFast, recVars
<1>7. QED
  BY <1>4, <1>5, <1>6 DEF RecordingInv

\* A line's picture is shown no sooner after the one before than it was recorded.
LEMMA PlayStep ==
  ASSUME RecordingInv, pphase = "up", NEW n \in 1 .. Len(lines), NEW took \in Delays,
         PlayLine(n, took)
  PROVE  RecordingInv'
<1> DEFINE item == lines[n]
           as == FormatOf(item.type)
           out == item.type # "a" /\ HandedOut(item.type)
           fatal == out /\ (written[n] = "short" \/ (as \in {"REGISTERED", "MM"} /\ ~tables))
<1>1. /\ pphase' = IF fatal THEN "crashed" ELSE pphase
      /\ position' = n /\ timed' = TRUE /\ idle' = 0 /\ busy' = took
      /\ pictures' = IF out THEN [item |-> item, as |-> as] ELSE pictures
      /\ state' = IF item.type = "a" /\ Accepts(n) THEN item.id ELSE state
      /\ UNCHANGED recVars /\ UNCHANGED <<cbs, on, formats, tables>>
  BY DEF PlayLine, client
<1>2. /\ Len(lines) \in Nat /\ item \in Items /\ written[n] \in Fates /\ n \in DOMAIN written
      /\ Gaps \subseteq Nat /\ MaxItems \in Nat
  BY RecordingTypes DEF RecordingInv
<1>3. /\ item.type \in {"d", "r", "a"} /\ item.id \in 1 .. MaxItems /\ item.gap \in Nat
      /\ idle \in Nat /\ busy \in Nat /\ timed \in BOOLEAN /\ 0 \in Delays
  BY <1>2, PlayerAssumption DEF Items, RecordingInv, PlayerFacts
<1>4. /\ as = IF item.type = "d" THEN formats[1] ELSE formats[2]
      /\ formats[1] \in {"11BIT", "REGISTERED", "MM"} /\ formats[2] \in {"RGB", "YUV_RAW"}
      /\ tables = json
  BY DEF FormatOf, RecordingInv, PlayerFacts, PlayableFormats
<1>5. RecorderFacts'
  BY <1>1 DEF RecordingInv, RecorderFacts, recVars
<1>6. NotTooFast'
  <2>1. CASE timed
    <3>1. /\ spacing' = busy + idle + (IF item.gap > idle THEN item.gap - idle ELSE 0)
          /\ gap' = item.gap /\ spent' = busy + idle
      BY <2>1 DEF PlayLine, Sleep
    <3>2. QED
      BY <1>3, <3>1 DEF NotTooFast
  <2>2. CASE ~timed
    <3>1. spacing' = 0 /\ gap' = 0 /\ spent' = 0
      BY <2>2 DEF PlayLine
    <3>2. QED
      BY <3>1 DEF NotTooFast
  <2>3. QED
    BY <1>3, <2>1, <2>2
<1> HIDE DEF item, as
<1>7. BadEndsExplained'
  <2>1. pphase' # "exited"
    BY <1>1
  <2>2. ASSUME pphase' = "crashed"
        PROVE  \/ ~clean' /\ \E i \in DOMAIN written' : written'[i] = "short"
               \/ ~json' /\ formats'[1] # "11BIT"
    <3>1. fatal
      BY <1>1, <2>2
    <3>2. CASE written[n] = "short"
      <4>1. ~clean
        BY <3>2 DEF RecordingInv, RecorderFacts
      <4>2. QED
        BY <1>1, <1>2, <3>2, <4>1 DEF recVars
    <3>3. CASE as \in {"REGISTERED", "MM"} /\ ~tables
      BY <1>1, <1>4, <3>3 DEF recVars
    <3>4. QED
      BY <3>1, <3>2, <3>3
  <2>3. QED
    BY <2>1, <2>2 DEF BadEndsExplained
<1>8. PlayerFacts'
  <2>1. /\ pictures'.item.type \in {"none", "d", "r"}
        /\ pictures'.item.type = "d" => pictures'.as \in {"11BIT", "REGISTERED", "MM"}
        /\ pictures'.item.type = "r" => pictures'.as \in {"RGB", "YUV_RAW"}
    <3>1. CASE out
      <4>1. pictures'.item = item /\ pictures'.as = as
        BY <1>1, <3>1
      <4>2. QED
        BY <1>3, <1>4, <3>1, <4>1
    <3>2. CASE ~out
      BY <1>1, <3>2 DEF RecordingInv, PlayerFacts
    <3>3. QED
      BY <3>1, <3>2
  <2>2. /\ state' \in 0 .. MaxItems /\ idle' \in Delays /\ busy' \in Delays
        /\ timed' \in BOOLEAN
    BY <1>1, <1>2, <1>3 DEF RecordingInv, PlayerFacts
  <2>3. /\ pphase' \in {"off", "up", "exited", "crashed"} /\ position' \in Int
        /\ -1 <= position' /\ position' <= Len(lines) + 1
    BY <1>1, <1>2
  <2>4. UNCHANGED <<lines, rphase, json, cbs, on, formats, tables>>
    BY <1>1 DEF recVars
  <2>5. QED
    BY <2>1, <2>2, <2>3, <2>4 DEF RecordingInv, PlayerFacts, Ended
<1>9. QED
  BY <1>5, <1>6, <1>7, <1>8 DEF RecordingInv

LEMMA ProcessEventsStep ==
  ASSUME RecordingInv, NEW took \in Delays, ProcessEvents(took)
  PROVE  RecordingInv'
<1> DEFINE n == IF position = -1 THEN 1 ELSE position + 1
<1>1. /\ n \in Int /\ position \in Int /\ -1 <= position /\ Len(lines) \in Nat /\ pphase = "up"
      /\ written \in Seq(Fates) /\ Len(written) = Len(lines)
  BY RecordingTypes DEF RecordingInv, PlayerFacts, RecorderFacts, ProcessEvents
<1>2. /\ n > Len(lines) \/ FileOf(n) = "empty" => AtEnd(n)
      /\ n <= Len(lines) /\ FileOf(n) = "missing" =>
           pphase' = "exited" /\ UNCHANGED recVars
             /\ UNCHANGED <<position, cbs, on, formats, tables, state, pictures>>
             /\ UNCHANGED <<timed, idle, busy, spacing, gap, spent>>
      /\ n <= Len(lines) /\ FileOf(n) \notin {"empty", "missing"} => PlayLine(n, took)
  BY <1>1 DEF ProcessEvents, client, pace
<1>3. 1 <= n
  BY <1>1
<1> HIDE DEF n
<1>4. CASE n > Len(lines) \/ FileOf(n) = "empty"
  BY <1>1, <1>2, <1>3, <1>4, EndStep
<1>5. CASE n <= Len(lines) /\ FileOf(n) = "missing"
  <2>1. n \in DOMAIN written /\ written[n] \in Fates
    BY <1>1, <1>3, <1>5
  <2>2. torn /\ ~clean /\ Len(lines) = n
    BY <1>5, <2>1 DEF FileOf, Fates, RecordingInv, RecorderFacts
  <2>3. pphase' = "exited" /\ UNCHANGED recVars
          /\ UNCHANGED <<position, cbs, on, formats, tables, state, pictures>>
          /\ UNCHANGED <<timed, idle, busy, spacing, gap, spent>>
    BY <1>2, <1>5
  <2>4. RecorderFacts' /\ UNCHANGED <<torn, clean, lines>>
    BY <2>3 DEF RecordingInv, RecorderFacts, recVars
  <2>5. PlayerFacts'
    BY <1>1, <2>3 DEF RecordingInv, PlayerFacts, recVars, Ended
  <2>6. BadEndsExplained' /\ NotTooFast'
    BY <2>2, <2>3, <2>4 DEF RecordingInv, BadEndsExplained, NotTooFast, n
  <2>7. QED
    BY <2>4, <2>5, <2>6 DEF RecordingInv
<1>6. CASE n <= Len(lines) /\ FileOf(n) \notin {"empty", "missing"}
  <2>1. n \in 1 .. Len(lines)
    BY <1>1, <1>3, <1>6
  <2>2. QED
    BY <1>1, <1>2, <1>6, <2>1, PlayStep
<1>7. QED
  BY <1>1, <1>4, <1>5, <1>6

LEMMA RecordingStart == RecorderInit /\ PlayerInit => RecordingInv
<1> SUFFICES ASSUME RecorderInit, PlayerInit PROVE RecordingInv
  OBVIOUS
<1>1. RecorderFacts
  <2>1. << >> \in Seq(Items) /\ << >> \in Seq(Fates) /\ Len(<< >>) = 0
    OBVIOUS
  <2>2. /\ lines = << >> /\ written = << >> /\ last_timestamp = 0 /\ sent = 0
        /\ rphase = "new" /\ recording = TRUE /\ json = FALSE /\ torn = FALSE
        /\ clean = TRUE
    BY DEF RecorderInit
  <2>3. MaxItems \in Nat
    BY RecorderAssumption
  <2>4. lines \in Seq(Items) /\ written \in Seq(Fates) /\ Len(lines) = 0 /\ Len(written) = 0
    BY <2>1, <2>2
  <2>5. 0 <= MaxItems /\ 0 \in Nat /\ 0 <= 0
    BY <2>3
  <2>6. Len(lines) = Len(written) /\ Len(lines) <= MaxItems
    BY <2>4, <2>5
  <2>7. last_timestamp \in Nat /\ sent \in Nat /\ last_timestamp <= sent /\ sent <= Len(lines)
    BY <2>2, <2>4, <2>5
  <2>8. /\ recording \in BOOLEAN /\ json \in BOOLEAN /\ torn \in BOOLEAN
        /\ clean \in BOOLEAN /\ ~torn
    BY <2>2
  <2>9. \A i \in 1 .. Len(lines) : FALSE
    BY <2>4
  <2>10. \A i \in 1 .. Len(lines) - 1 : FALSE
    BY <2>4
  <2>11. /\ \A i \in 1 .. Len(lines) : written[i] \in {"open", "whole"}
         /\ \A i \in 1 .. Len(lines) - 1 : written[i] # "open"
    BY <2>9, <2>10
  <2>12. QED
    BY <2>2, <2>4, <2>6, <2>7, <2>8, <2>11 DEF RecorderFacts
<1>2. PlayerFacts
  <2>1. pictures.item.type = "none" /\ formats \in PlayableFormats
    BY DEF PlayerInit, NoPicture, PlayableFormats
  <2>2. position = -1 /\ Len(lines) \in Nat /\ MaxItems \in Nat
    BY <1>1, RecordingTypes DEF PlayerInit, Closed
  <2>3. /\ pphase = "off" /\ cbs = {} /\ on = {} /\ tables = FALSE /\ state = 0
        /\ timed = FALSE /\ idle = 0 /\ busy = 0 /\ 0 \in Delays
    BY PlayerAssumption DEF PlayerInit
  <2>4. position \in Int /\ -1 <= position /\ position <= Len(lines) + 1
        /\ state \in 0 .. MaxItems
    BY <2>2, <2>3
  <2>5. tables \in BOOLEAN /\ timed \in BOOLEAN
    BY <2>3
  <2>6. QED
    BY <2>1, <2>2, <2>3, <2>4, <2>5 DEF PlayerFacts
<1>3. BadEndsExplained /\ NotTooFast
  BY DEF PlayerInit, BadEndsExplained, NotTooFast
<1>4. QED
  BY <1>1, <1>2, <1>3 DEF RecordingInv

LEMMA RecordingInvariant ==
  ASSUME NEW CONSTANT Chosen, Chosen \subseteq PlayableFormats
  PROVE  RecordingSpec(Chosen) => []RecordingInv
<1>1. RecordingInv /\ [RecordingNext(Chosen)]_<<recVars, playVars>> => RecordingInv'
  <2> SUFFICES ASSUME RecordingInv, [RecordingNext(Chosen)]_<<recVars, playVars>>
               PROVE  RecordingInv'
    OBVIOUS
  <2>1. CASE UNCHANGED <<recVars, playVars>>
    <3>1. RecorderFacts'
      BY <2>1 DEF recVars, RecordingInv, RecorderFacts
    <3>2. PlayerFacts'
      BY <2>1 DEF recVars, playVars, RecordingInv, PlayerFacts, Ended
    <3>3. BadEndsExplained' /\ NotTooFast'
      BY <2>1 DEF recVars, playVars, RecordingInv, BadEndsExplained, NotTooFast
    <3>4. QED
      BY <3>1, <3>2, <3>3 DEF RecordingInv
  <2>2. CASE RecorderNext /\ UNCHANGED playVars
    BY <2>2, RecordingStep
  <2>3. CASE PlayerNext(Chosen)
    <3>1. \/ \E took \in Delays : ProcessEvents(took)
          \/ Open \/ Shutdown \/ SetCallbacks \/ Elapse
          \/ \E c \in {"d", "r"} : StartStop(c)
          \/ \E f \in PlayableFormats : SetMode(f)
      BY <2>3 DEF PlayerNext
    <3>2. QED
      BY <3>1, ProcessEventsStep, ClientStep
  <2>4. QED
    BY <2>1, <2>2, <2>3 DEF RecordingNext
<1>2. QED
  BY <1>1, RecordingStart, PTL DEF RecordingSpec

\* A recording plays without a bad end that its own fate does not explain, and
\* never faster than it was made: whatever becomes of the recorder and of its
\* files, for recordings of any length, and however slow the client is.
THEOREM RecordingsPlay ==
  ASSUME NEW CONSTANT Chosen, Chosen \subseteq PlayableFormats
  PROVE  RecordingSpec(Chosen) => []PlayerInv
<1>1. RecordingInv => PlayerInv
  <2> SUFFICES ASSUME RecordingInv PROVE PlayerInv
    OBVIOUS
  <2>1. RecorderTypeOK
    <3>1. \A i \in DOMAIN lines : /\ lines[i].type \in {"d", "r", "a"} /\ lines[i].gap \in Gaps
                                 /\ {lines[i].ts, lines[i].id} \subseteq 1 .. MaxItems
      BY RecordingTypes DEF RecordingInv, Items
    <3>2. last_timestamp \in 0 .. sent /\ sent \in 0 .. MaxItems
      BY RecordingTypes DEF RecordingInv, RecorderFacts
    <3>3. QED
      BY <3>1, <3>2 DEF RecordingInv, RecorderFacts, RecorderTypeOK, Fates
  <2>2. PlayerTypeOK
    <3>1. position \in -1 .. MaxItems + 1
      BY RecordingTypes DEF RecordingInv, PlayerFacts, RecorderFacts
    <3>2. QED
      BY <3>1 DEF RecordingInv, PlayerFacts, PlayerTypeOK
  <2>3. QED
    BY <2>1, <2>2 DEF RecordingInv, PlayerInv
<1>2. QED
  BY <1>1, RecordingInvariant, PTL

-----------------------------------------------------------------------------
(* Playing in a loop is a tape. *)

Unplayable(n) == FileOf(n) \in {"empty", "missing"}

\* The lines up to Upto can be played, and the next, if there is one, cannot.
LEMMA UptoFacts ==
  ASSUME RecorderFacts
  PROVE  /\ Upto \in 0 .. Len(lines)
         /\ Upto < Len(lines) => Unplayable(Upto + 1)
         /\ \A i \in 1 .. Upto : ~Unplayable(i)
<1> DEFINE Playable(n) == /\ n < Len(lines) => FileOf(n + 1) \in {"empty", "missing"}
                          /\ \A i \in 1 .. n : FileOf(i) \notin {"empty", "missing"}
           T == {n \in Nat : n \in 1 .. Len(lines) + 1 /\ (n <= Len(lines) => Unplayable(n))}
<1>1. Len(lines) \in Nat
  BY RecordingTypes
<1>2. T \subseteq Nat /\ Len(lines) + 1 \in T
  BY <1>1
<1>3. PICK m \in T : \A x \in T : m <= x
  <2> HIDE DEF T
  <2>1. QED
    BY <1>2, LeastNumber
<1>4. m - 1 \in 0 .. Len(lines)
  BY <1>1
<1>5. m - 1 < Len(lines) => Unplayable((m - 1) + 1)
  BY <1>1
<1>6. ASSUME NEW i \in 1 .. m - 1 PROVE ~Unplayable(i)
  <2>1. i \in 1 .. Len(lines) /\ i < m
    BY <1>1, <1>4
  <2>2. Unplayable(i) => i \in T
    BY <2>1
  <2>3. QED
    BY <1>3, <2>1, <2>2
<1>7. \E n \in 0 .. Len(lines) : Playable(n)
  BY <1>4, <1>5, <1>6 DEF Unplayable
<1>8. Upto = CHOOSE n \in 0 .. Len(lines) : Playable(n)
  BY DEF Upto
<1> HIDE DEF Playable
<1>9. Upto \in 0 .. Len(lines) /\ Playable(Upto)
  BY <1>7, <1>8
<1>10. QED
  BY <1>9 DEF Playable, Unplayable

\* The player is at a line that can be played.
OnTape == position = -1 \/ position \in 1 .. Upto

\* The tape's item for a line.
Shown == [type |-> pictures.item.type, ts |-> pictures.item.ts, id |-> pictures.item.id]
At == IF position = -1 THEN 0 ELSE IF position > Len(tape) THEN Len(tape) ELSE position
ItemOf(i) ==
  [type |-> IF lines[i].type = "a" /\ written[i] # "whole" THEN "x" ELSE lines[i].type,
   ts |-> lines[i].ts, id |-> lines[i].id]

LEMMA TapeFacts ==
  ASSUME RecorderFacts, Ended
  PROVE  /\ Upto \in Nat /\ Len(tape) = Upto /\ \A i \in 1 .. Upto : tape[i] = ItemOf(i)
         /\ OnTape => At = IF position = -1 THEN 0 ELSE position
<1>1. Upto \in Nat
  BY UptoFacts, RecordingTypes
<1>2. tape = [i \in 1 .. Upto |-> ItemOf(i)]
  BY DEF tape, ItemOf
<1> HIDE DEF tape
<1>3. Len(tape) = Upto
  BY <1>1, <1>2
<1>4. \A i \in 1 .. Upto : tape[i] = ItemOf(i)
  BY <1>2
<1>5. OnTape => At = IF position = -1 THEN 0 ELSE position
  <2> DEFINE u == Upto
  <2>1. u \in Nat /\ Len(tape) = u
    BY <1>1, <1>3
  <2>2. OnTape => position = -1 \/ position \in 1 .. u
    BY DEF OnTape
  <2> HIDE DEF u
  <2>3. CASE position = -1
    BY <2>3 DEF At
  <2>4. CASE position \in 1 .. u
    BY <2>1, <2>4 DEF At
  <2>5. QED
    BY <2>2, <2>3, <2>4
<1>6. QED
  BY <1>1, <1>3, <1>4, <1>5

\* What the recorder left is one tape.
LEMMA TapeStays ==
  ASSUME UNCHANGED <<rphase, lines, written, torn>>
  PROVE  UNCHANGED <<tape, Upto>>
<1>1. Upto' = Upto
  BY DEF Upto, FileOf
<1>2. QED
  BY <1>1 DEF tape, Ended

LEMMA TapeVars ==
  UNCHANGED <<tape, At, Shown, state>> => UNCHANGED Tape!tapeVars
BY DEF Tape!tapeVars, At, Shown

LEMMA TapeRecorderStep ==
  ASSUME RecordingInv, OnTape, RecorderNext, UNCHANGED playVars
  PROVE  OnTape' /\ [Tape!Insert]_(Tape!tapeVars)
<1>1. CASE Ended
  <2>1. UNCHANGED <<tape, Upto>>
    BY <1>1, LeftAlone, TapeStays
  <2>2. QED
    BY <2>1, TapeVars DEF playVars, OnTape, At, Shown
<1>2. CASE ~Ended
  <2>1. position = -1 /\ tape = << >>
    BY <1>2 DEF RecordingInv, PlayerFacts, tape
  <2>2. OnTape' /\ UNCHANGED <<At, Shown, state>>
    BY <2>1 DEF playVars, OnTape, At, Shown
  <2>3. Tape!Insert
    BY <2>1, <2>2 DEF Tape!Insert, At, Shown
  <2>4. QED
    BY <2>2, <2>3
<1>3. QED
  BY <1>1, <1>2

LEMMA TapeClientStep ==
  ASSUME RecordingInv, OnTape,
         Open \/ Shutdown \/ SetCallbacks \/ Elapse
           \/ (\E c \in {"d", "r"} : StartStop(c))
           \/ (\E f \in PlayableFormats : SetMode(f))
  PROVE  OnTape' /\ UNCHANGED <<tape, At, Shown, state>>
<1>1. UNCHANGED recVars /\ UNCHANGED <<position, state, pictures>>
  BY DEF Open, Shutdown, SetCallbacks, Elapse, StartStop, SetMode
<1>2. UNCHANGED <<tape, Upto>>
  BY <1>1, TapeStays DEF recVars
<1>3. QED
  BY <1>1, <1>2 DEF OnTape, At, Shown

LEMMA TapePlayStep ==
  ASSUME RecordingInv, OnTape, LoopPlayback, NEW took \in Delays, ProcessEvents(took)
  PROVE  OnTape' /\ [Tape!Item \/ Tape!Rewind]_(Tape!tapeVars)
<1> DEFINE n == IF position = -1 THEN 1 ELSE position + 1
           u == Upto
<1>1. UNCHANGED recVars /\ Ended
  BY DEF ProcessEvents, AtEnd, PlayLine, RecordingInv, PlayerFacts
<1>2. /\ u \in Nat /\ u <= Len(lines) /\ Len(lines) \in Nat /\ Len(tape) = u
      /\ \A i \in 1 .. u : tape[i] = ItemOf(i) /\ ~Unplayable(i)
      /\ u < Len(lines) => Unplayable(u + 1)
      /\ At = IF position = -1 THEN 0 ELSE position
  BY <1>1, TapeFacts, UptoFacts, RecordingTypes DEF RecordingInv
<1>3. n \in 1 .. u + 1 /\ At = n - 1 /\ (position = -1 \/ position \in 1 .. u)
  BY <1>2 DEF OnTape
<1>4. UNCHANGED <<tape, Upto>>
  BY <1>1, TapeStays DEF recVars
<1>5. \/ n > u /\ position' = -1 /\ UNCHANGED <<pictures, state>>
      \/ UNCHANGED <<position, pictures, state>>
      \/ n <= u /\ PlayLine(n, took)
  BY <1>2, <1>3 DEF ProcessEvents, Unplayable, AtEnd, Closed
<1>6. position' = -1 \/ position' \in 1 .. u => OnTape'
  BY <1>4 DEF OnTape
<1>7. CASE UNCHANGED <<position, pictures, state>>
  BY <1>3, <1>4, <1>6, <1>7, TapeVars DEF At, Shown
<1>8. CASE n > u /\ position' = -1 /\ UNCHANGED <<pictures, state>>
  <2>1. At = Len(tape) /\ At' = 0 /\ UNCHANGED <<tape, Shown, state>>
    BY <1>2, <1>3, <1>4, <1>8 DEF At, Shown
  <2>2. Tape!Rewind
    BY <2>1 DEF Tape!Rewind, At, Shown
  <2>3. QED
    BY <1>6, <1>8, <2>2
<1>9. CASE n <= u /\ PlayLine(n, took)
  <2> DEFINE item == lines[n]
             out == item.type # "a" /\ HandedOut(item.type)
             i == tape[At + 1]
  <2>1. /\ position' = n /\ n \in 1 .. u
        /\ pictures' = IF out THEN [item |-> item, as |-> FormatOf(item.type)] ELSE pictures
        /\ state' = IF item.type = "a" /\ written[n] = "whole" THEN item.id ELSE state
    BY <1>3, <1>9 DEF PlayLine, Accepts
  <2>2. At' = At + 1 /\ At < Len(tape)
    <3>1. At' = IF position' = -1 THEN 0
                ELSE IF position' > Len(tape') THEN Len(tape') ELSE position'
      BY DEF At
    <3>2. Len(tape') = u
      BY <1>2, <1>4
    <3>3. QED
      BY <1>2, <1>3, <2>1, <3>1, <3>2
  <2>3. i = ItemOf(n)
    BY <1>2, <1>3, <2>1
  <2>4. /\ i.type = IF item.type = "a" /\ written[n] # "whole" THEN "x" ELSE item.type
        /\ i = [type |-> i.type, ts |-> item.ts, id |-> item.id]
    BY <2>3 DEF ItemOf
  <2>5. item.type \in {"d", "r", "a"}
    <3>1. item \in Items
      BY <1>2, <2>1, RecordingTypes DEF RecordingInv
    <3>2. QED
      BY <3>1 DEF Items
  <2> HIDE DEF i
  <2>6. \/ i.type # "a" /\ Shown' \in {Shown, i} /\ UNCHANGED state
        \/ i.type = "a" /\ state' = i.id /\ UNCHANGED Shown
    <3>1. CASE item.type = "a"
      <4>1. pictures' = pictures /\ Shown' = Shown
        BY <2>1, <3>1 DEF Shown
      <4>2. QED
        BY <2>1, <2>4, <3>1, <4>1
    <3>2. CASE item.type # "a"
      <4>1. state' = state /\ i.type = item.type
        BY <2>1, <2>4, <3>2
      <4>2. CASE out
        <5>1. pictures'.item = item
          BY <2>1, <4>2
        <5>2. Shown' = i
          BY <2>4, <4>1, <5>1 DEF Shown
        <5>3. QED
          BY <3>2, <4>1, <5>2
      <4>3. CASE ~out
        BY <2>1, <3>2, <4>1, <4>3 DEF Shown
      <4>4. QED
        BY <4>2, <4>3
    <3>3. QED
      BY <3>1, <3>2
  <2>7. Tape!Item
    BY <1>4, <2>2, <2>6 DEF Tape!Item, i, At, Shown
  <2>8. QED
    BY <1>6, <2>1, <2>7
<1>10. QED
  BY <1>5, <1>7, <1>8, <1>9

\* Played in a loop, a recording is a tape: its lines are played in their order,
\* each once, to the first that cannot be, and from the beginning again, however
\* long it is and whatever was lost of it.
THEOREM RecordingIsTape ==
  ASSUME NEW CONSTANT Chosen, Chosen \subseteq PlayableFormats, LoopPlayback
  PROVE  RecordingSpec(Chosen) => PlaysTape
<1>1. RecorderInit /\ PlayerInit => Tape!TapeInit /\ OnTape
  BY DEF RecorderInit, PlayerInit, Tape!TapeInit, OnTape, At, Shown, tape, Ended, NoPicture,
     Closed
<1>2. RecordingInv /\ OnTape /\ [RecordingNext(Chosen)]_<<recVars, playVars>>
        => OnTape' /\ [Tape!TapeNext]_(Tape!tapeVars)
  <2> SUFFICES ASSUME RecordingInv, OnTape, [RecordingNext(Chosen)]_<<recVars, playVars>>
               PROVE  OnTape' /\ [Tape!TapeNext]_(Tape!tapeVars)
    OBVIOUS
  <2>1. CASE UNCHANGED <<recVars, playVars>>
    <3>1. UNCHANGED <<tape, Upto>>
      BY <2>1, TapeStays DEF recVars
    <3>2. QED
      BY <2>1, <3>1, TapeVars DEF playVars, OnTape, At, Shown
  <2>2. CASE RecorderNext /\ UNCHANGED playVars
    BY <2>2, TapeRecorderStep DEF Tape!TapeNext
  <2>3. CASE PlayerNext(Chosen)
    <3>1. \/ \E took \in Delays : ProcessEvents(took)
          \/ Open \/ Shutdown \/ SetCallbacks \/ Elapse
          \/ \E c \in {"d", "r"} : StartStop(c)
          \/ \E f \in PlayableFormats : SetMode(f)
      BY <2>3 DEF PlayerNext
    <3>2. QED
      BY <3>1, TapePlayStep, TapeClientStep, TapeVars DEF Tape!TapeNext
  <2>4. QED
    BY <2>1, <2>2, <2>3 DEF RecordingNext
<1>3. QED
  BY <1>1, <1>2, RecordingInvariant, PTL DEF RecordingSpec, PlaysTape, Tape!TapeSpec
=============================================================================
