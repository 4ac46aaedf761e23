------------------------------ MODULE MCOpenNI ------------------------------
(* A program that uses the C++ wrapper itself, or OpenNI through its driver.   *)
EXTENDS OpenNIDriver

vars == <<oniVars, user, uses>>

Applications == {{"video"}, {"depth"}, Streams}

Init ==
  /\ OniInit
  /\ \/ user = "program" /\ uses = {}
     \/ user = "OpenNI" /\ uses \in Applications

\* The modes a program asks for, one of them not found.
Asked == [video |-> {Mode("RGB", "MEDIUM"), Mode("IR", "MEDIUM"), Mode("RGB", "LOW")},
          depth |-> {Mode("11BIT", "MEDIUM"), Mode("MM", "MEDIUM"), Mode("MM", "HIGH")}]

CppNext ==
  \/ Destroy \/ DeleteNext \/ Join \/ Remember
  \/ CallbackReturns \/ OrphanCallback \/ EventsHandled \/ Walk \/ EventError
  \/ \E id \in Ids :
       \/ CreateDevice(id) \/ DeleteDevice(id)
       \/ \E s \in Streams :
            \/ StopStream(id, s)
            \/ Callback(id, s) /\ fate' = fate
            \/ \E works \in BOOLEAN :
                 \/ StartStream(id, s, works)
                 \/ \E m \in Asked[s] : ChangeFormat(id, s, m, works)

ProgramSide == user = "program" /\ CppNext /\ UNCHANGED <<driver, user, uses>>

\* A bound: an application with both streams takes the pictures as they come.
Unadorned == uses = Streams =>
  /\ ~refused' /\ \A id \in Ids : Alive(m_devices'[id]) => ~m_devices'[id].balance
  /\ \A id \in Ids, s \in Streams : streams'[id][s] # NoStream =>
       streams'[id][s].crop = Whole /\ ~streams'[id][s].mirror

OpenNISide == user = "OpenNI" /\ OniNext /\ Unadorned /\ UNCHANGED <<user, uses>>

\* The thread's callbacks return and libusb's wait has a timeout; a batch of
\* events ends, and a stop that has cleared running meets no new callback.
Fairness ==
  /\ WF_vars(user = "OpenNI" /\ Populate /\ UNCHANGED <<user, uses>>)
  /\ WF_vars(user = "program" /\ CallbackReturns /\ UNCHANGED <<driver, user, uses>>)
  /\ WF_vars(Walk /\ UNCHANGED <<driver, user, uses>>)
  /\ SF_vars(EventsHandled /\ UNCHANGED <<driver, user, uses>>)
  /\ SF_vars(DeleteNext /\ UNCHANGED <<driver, user, uses>>)
  /\ WF_vars(Join /\ UNCHANGED <<driver, user, uses>>)
Spec == Init /\ [][ProgramSide \/ OpenNISide]_vars /\ Fairness

\* Once ~Freenect() begins it comes to its end, the thread joined, or the
\* process has ended: the thread sees m_stop within one timeout, and no device
\* that is deleted waits forever for a callback.
DestructorEnds == client = "deleting" ~> (client = "closed" \/ fate # "alive")

MCFound == [video |-> {Mode("RGB", "MEDIUM"), Mode("IR", "MEDIUM")},
            depth |-> {Mode("11BIT", "MEDIUM"), Mode("MM", "MEDIUM"), Mode("REGISTERED",
               "MEDIUM")}]
MCGarbage == {[video |-> "RGB", depth |-> "other"], [video |-> "other", depth |-> "11BIT"]}
MCRequested == {OniMode("RGB888", 3, 2, 30), OniMode("1_MM", 2, 3, 30), OniMode("RGB888", 3, 1, 30)}
\* The second cropping is of the picture in its own mode, and wider than it in the
\* second mode.
MCCroppings == {Whole, [enabled |-> TRUE, x |-> 1, y |-> 0, w |-> 2, h |-> 2]}
=============================================================================
