--------------------------- MODULE CommandProofs ---------------------------
(***************************************************************************)
(* Commands to the camera and the motor, for any calls, any answers in      *)
(* their own time and any number of failed transfers: the brightness        *)
(* register and the motors keep their ranges, and acknowledgements never    *)
(* get ahead of commands.  As long as no transfer fails, the results of     *)
(* calls are so and a flag is set without the others.                       *)
(***************************************************************************)
EXTENDS CamCommand, Motor, SequenceTheorems, FiniteSetTheorems, TLAPS

CamSpec == CamInit /\ [][CamNext]_cmdVars

-----------------------------------------------------------------------------
(* The calls. *)

LEMMA CallKinds ==
  ASSUME NEW c \in Calls
  PROVE  /\ c.name \in {"flag", "near", "mirror", "get_exposure", "get_brightness",
                        "set_exposure", "set_brightness"}
         /\ c.name = "flag" => c.flag \in Nat \ {0} /\ c.on \in BOOLEAN
         /\ c.name \in {"near", "mirror"} => c.on \in BOOLEAN
         /\ c.name = "set_exposure" => c.time \in Nat
         /\ c.name = "set_brightness" => c.brightness \in Int
<1>1. c \in FlagCalls \cup ImageCalls  BY CallsAssumption
<1>. QED  BY <1>1 DEF FlagCalls, ImageCalls

\* A value for a register.
GoodValue(r, n) == r \in Regs /\ n \in Nat /\ (r = "brightness" => n \in Low .. High)
Todo == {<<>>} \cup {<<<<"near", n>>>> : n \in Nat}

LEMMA QuotientType ==
  ASSUME NEW v \in Nat, NEW f \in Nat \ {0}
  PROVE  v \div f \in Nat
OBVIOUS

LEMMA WithFlagType ==
  ASSUME NEW v \in Nat, NEW c, c.flag \in Nat \ {0}, c.on \in BOOLEAN
  PROVE  WithFlag(v, c) \in Nat
<1> DEFINE f == c.flag
<1>1. v \div f \in Nat  BY QuotientType
<1>2. (v \div f) % 2 = 1 => v >= f
  <2>1. ASSUME v < f PROVE v \div f = 0  BY <2>1
  <2>. QED  BY <2>1
<1>. QED  BY <1>1, <1>2 DEF WithFlag, Or, AndNot

LEMMA SecondOf ==
  ASSUME NEW s \in Seq(Nat), Len(s) = 2
  PROVE  s[2] \in Nat
<1>1. 2 \in 1 .. Len(s)  OBVIOUS
<1>. QED  BY <1>1, ElementOfSeq

LEMMA NearValues ==
  /\ NearOn[1] \in Low .. High /\ NearOn[2] \in Nat
  /\ NearOff[1] \in Low .. High /\ NearOff[2] \in Nat
  /\ Low \in Nat /\ High \in Nat /\ Low .. High \subseteq Nat /\ Low <= High
<1>1. Low \in Nat /\ High \in Nat /\ Low <= High  BY CommandAssumption
<1>2. NearOn \in Seq(Nat) /\ Len(NearOn) = 2 /\ NearOff \in Seq(Nat) /\ Len(NearOff) = 2
  BY CommandAssumption
<1>3. NearOn[2] \in Nat /\ NearOff[2] \in Nat  BY <1>2, SecondOf
<1>. QED  BY <1>1, <1>3, CommandAssumption

\* What a call writes: nothing, one register, or the two of near mode.
LEMMA WritesFacts ==
  ASSUME NEW c \in Calls, ~Refused(c), format \in {"rgb", "yuv", "ir"}, NEW v \in Nat
  PROVE  /\ Writes(c, v) = <<>> <=> c.name \in {"get_exposure", "get_brightness"}
         /\ Writes(c, v) # <<>> =>
              /\ GoodValue(Writes(c, v)[1][1], Writes(c, v)[1][2])
              /\ Tail(Writes(c, v)) \in Todo
<1>. USE CallKinds DEF Writes, GoodValue, Todo, Regs, Mirrors
<1>1. CASE c.name = "flag"
  BY <1>1, WithFlagType
<1>2. CASE c.name = "near"
  BY <1>2, NearValues DEF NearMode
<1>3. CASE c.name = "mirror"
  BY <1>3 DEF Refused
<1>4. CASE c.name = "set_exposure"
  <2>1. Unit[format] \in Nat \ {0}  BY <1>4 DEF Refused, Unit
  <2>2. c.time \div Unit[format] \in Nat  BY <1>4, <2>1, QuotientType
  <2>. QED  BY <1>4, <2>2
<1>5. CASE c.name = "set_brightness"
  <2>1. Clamp(c.brightness) \in Low .. High  BY <1>5, NearValues DEF Clamp
  <2>. QED  BY <1>5, <2>1, NearValues
<1>6. CASE c.name \in {"get_exposure", "get_brightness"}
  BY <1>6
<1>. QED  BY <1>1, <1>2, <1>3, <1>4, <1>5, <1>6
-----------------------------------------------------------------------------
(* What holds whatever fails. *)

GoodCommand(h) == h \in Command_ /\ (h.write => GoodValue(h.reg, h.value))
Replies == [cmd : {"read", "write", "cmos"}, tag : 0 .. TagMod - 1, reg : Regs, value : Nat]

\* The client's call, and the command it is about.
ClientFacts ==
  /\ call \in Calls \cup {None} /\ stage \in {"idle", "send", "poll"}
  /\ stage # "idle" =>
       /\ call \in Calls /\ ~Refused(call)
       /\ GoodCommand(chdr) /\ todo \in Todo
       /\ ~chdr.write => chdr.reg \in Reads(call)
CamFacts ==
  /\ cam_tag \in 0 .. TagMod - 1 /\ k4w \in BOOLEAN /\ format \in {"rgb", "yuv", "ir"}
  /\ ClientFacts
  /\ regs \in [Regs -> Nat] /\ regs["brightness"] \in Low .. High
  /\ inbox \in Seq(Command_) /\ \A i \in DOMAIN inbox : GoodCommand(inbox[i])
  /\ replies \in Seq(Replies)
  /\ failed \in 0 .. MaxFailed

LEMMA TagType == TagMod \in Nat /\ TagMod > 1 /\ 0 \in 0 .. TagMod - 1
                  /\ \A t \in 0 .. TagMod - 1 : (t + 1) % TagMod \in 0 .. TagMod - 1
<1>1. TagMod \in Nat /\ TagMod > 1  BY CommandAssumption
<1>. QED  BY <1>1

LEMMA CommandType ==
  ASSUME NEW r \in Regs, NEW w \in BOOLEAN, NEW n \in Nat, NEW t \in 0 .. TagMod - 1,
         w => GoodValue(r, n)
  PROVE  /\ cam_tag \in 0 .. TagMod - 1 => GoodCommand(Command(r, w, n))
         /\ GoodCommand([Command(r, w, n) EXCEPT !.tag = t])
         /\ Command(r, w, n).write = w /\ Command(r, w, n).reg = r
BY DEF Command, Command_, GoodCommand, Values, GoodValue

LEMMA CamStarts == CamInit => CamFacts
<1> SUFFICES ASSUME CamInit PROVE CamFacts  OBVIOUS
<1>1. regs \in [Regs -> Nat] /\ regs["brightness"] \in Low .. High
  BY NearValues DEF CamInit, Regs
<1>2. cam_tag \in 0 .. TagMod - 1  BY TagType DEF CamInit
<1>3. failed \in 0 .. MaxFailed
  <2>1. MaxFailed \in Nat  BY CommandAssumption
  <2>. QED  BY <2>1 DEF CamInit
<1>4. inbox \in Seq(Command_) /\ replies \in Seq(Replies) /\ DOMAIN inbox = {}
  BY DEF CamInit
<1>. QED  BY <1>1, <1>2, <1>3, <1>4 DEF CamInit, CamFacts, ClientFacts

LEMMA ReturnKeeps ==
  ASSUME NEW ok, NEW value, Return(ok, value)
  PROVE  ClientFacts'
BY DEF Return, ClientFacts

LEMMA BeginKeeps ==
  ASSUME CamFacts, NEW c \in Calls, Begin(c)
  PROVE  CamFacts'
<1>. USE DEF Begin, device, camera
<1>1. ClientFacts'
  <2>1. CASE Refused(c)
    BY <2>1 DEF CamFacts, ClientFacts
  <2>2. CASE ~Refused(c)
    <3>1. Refused(c)' <=> Refused(c)  BY DEF Refused
    <3>2. call' = c /\ stage' = "send"  BY <2>2
    <3>3. CASE Reads(c) = {}
      <4> DEFINE w == Writes(c, 0)
      <4>1. w # <<>>
        BY <2>2, <3>3, WritesFacts, CallKinds DEF CamFacts, Reads
      <4>2. GoodValue(w[1][1], w[1][2]) /\ Tail(w) \in Todo
        BY <2>2, <4>1, WritesFacts DEF CamFacts
      <4>3. todo' = Tail(w) /\ chdr' = Command(w[1][1], TRUE, w[1][2])
        BY <2>2, <3>3
      <4>. HIDE DEF w
      <4>4. GoodCommand(chdr') /\ chdr'.write = TRUE
        <5>1. cam_tag \in 0 .. TagMod - 1  BY DEF CamFacts
        <5>2. w[1][1] \in Regs /\ w[1][2] \in Nat  BY <4>2 DEF GoodValue
        <5>. QED  BY <4>2, <4>3, <5>1, <5>2, CommandType
      <4>. QED  BY <2>2, <3>1, <3>2, <4>2, <4>3, <4>4 DEF ClientFacts, GoodCommand, GoodValue
    <3>4. CASE Reads(c) # {}
      <4>1. PICK r \in Reads(c) : chdr' = Command(r, FALSE, 0) /\ todo' = <<>>
        BY <2>2, <3>4
      <4>2. r \in Regs  BY DEF Reads, Regs
      <4>3. GoodCommand(chdr') /\ chdr'.write = FALSE /\ chdr'.reg = r
        <5>1. cam_tag \in 0 .. TagMod - 1  BY DEF CamFacts
        <5>2. 0 \in Nat /\ FALSE \in BOOLEAN /\ (FALSE => GoodValue(r, 0))  OBVIOUS
        <5>3. /\ GoodCommand(Command(r, FALSE, 0))
              /\ Command(r, FALSE, 0).write = FALSE /\ Command(r, FALSE, 0).reg = r
          BY <4>2, <5>1, <5>2, CommandType
        <5>. QED  BY <4>1, <5>3
      <4>4. Reads(c)' = Reads(c)  BY DEF Reads
      <4>. QED  BY <2>2, <3>1, <3>2, <4>1, <4>3, <4>4
           DEF ClientFacts, GoodCommand, GoodValue, Todo
    <3>. QED  BY <3>3, <3>4
  <2>. QED  BY <2>1, <2>2
<1>. QED  BY <1>1 DEF CamFacts

\* A call goes on with its next command, or returns.
LEMMA ContinueKeeps ==
  ASSUME CamFacts, stage # "idle", NEW v \in Nat \cup {Bad}, NEW length, Continue(v, length),
         cam_tag' \in 0 .. TagMod - 1, UNCHANGED <<k4w, format>>
  PROVE  ClientFacts'
<1> DEFINE w == IF chdr.write THEN todo ELSE IF v = Bad THEN <<>> ELSE Writes(call, v)
<1>1. CASE w = <<>>
  BY <1>1, ReturnKeeps DEF Continue
<1>2. CASE w # <<>>
  <2>1. GoodValue(w[1][1], w[1][2]) /\ Tail(w) \in Todo
    <3>1. CASE chdr.write
      <4>1. w = todo /\ todo \in Todo  BY <3>1 DEF CamFacts, ClientFacts
      <4>2. PICK n \in Nat : w = <<<<"near", n>>>>  BY <1>2, <4>1 DEF Todo
      <4>. HIDE DEF w
      <4>3. w[1] = <<"near", n>> /\ Tail(w) = <<>>  BY <4>2
      <4>. QED  BY <4>3 DEF Todo, GoodValue, Regs
    <3>2. CASE ~chdr.write
      <4>1. v \in Nat /\ w = Writes(call, v)  BY <1>2, <3>2
      <4>. QED  BY <1>2, <4>1, WritesFacts DEF CamFacts, ClientFacts
    <3>. QED  BY <3>1, <3>2
  <2>2. /\ stage' = "send" /\ todo' = Tail(w)
        /\ chdr' = [Command(w[1][1], TRUE, w[1][2]) EXCEPT !.tag = cam_tag']
        /\ UNCHANGED call
    BY <1>2 DEF Continue
  <2>. HIDE DEF w
  <2>3. Refused(call)' <=> Refused(call)  BY <2>2 DEF Refused
  <2>4. GoodCommand(chdr')
    BY <2>1, <2>2, CommandType DEF GoodValue
  <2>5. chdr'.write = TRUE
    BY <2>2 DEF Command
  <2>. QED  BY <2>1, <2>2, <2>3, <2>4, <2>5 DEF CamFacts, ClientFacts, GoodCommand, GoodValue
<1>. QED  BY <1>1, <1>2

LEMMA SequenceFacts ==
  ASSUME NEW S, NEW s \in Seq(S)
  PROVE  /\ \A x \in S : Append(s, x) \in Seq(S)
         /\ s # <<>> => Head(s) \in S /\ Tail(s) \in Seq(S) /\ Head(s) = s[1] /\ 1 \in DOMAIN s
         /\ \A x \in S : \A i \in DOMAIN Append(s, x) :
              (i \in DOMAIN s /\ Append(s, x)[i] = s[i]) \/ Append(s, x)[i] = x
         /\ s # <<>> => \A i \in DOMAIN Tail(s) : i + 1 \in DOMAIN s /\ Tail(s)[i] = s[i + 1]
OBVIOUS

LEMMA CamStepKeeps == CamFacts /\ [CamNext]_cmdVars => CamFacts'
<1> SUFFICES ASSUME CamFacts, [CamNext]_cmdVars PROVE CamFacts'  OBVIOUS
<1>0. MaxFailed \in Nat /\ failed \in 0 .. MaxFailed  BY CommandAssumption DEF CamFacts
<1>1. CASE UNCHANGED cmdVars
  BY <1>1 DEF cmdVars, device, client, camera, CamFacts, ClientFacts, Refused, Reads
<1>2. ASSUME NEW c \in Calls, Begin(c) PROVE CamFacts'
  BY <1>2, BeginKeeps
<1>3. CASE Send
  <2>1. GoodCommand(chdr) /\ chdr \in Command_
    BY <1>3 DEF Send, CamFacts, ClientFacts, GoodCommand
  <2>2. inbox' \in Seq(Command_) /\ \A i \in DOMAIN inbox' : GoodCommand(inbox'[i])
    BY <1>3, <2>1, SequenceFacts DEF Send, CamFacts
  <2>3. ClientFacts'
    BY <1>3 DEF Send, device, CamFacts, ClientFacts, Refused, Reads
  <2>. QED  BY <1>3, <2>2, <2>3 DEF Send, device, CamFacts
<1>4. CASE SendFails
  <2>1. GoodCommand(chdr) /\ chdr \in Command_
    BY <1>4 DEF SendFails, CamFacts, ClientFacts, GoodCommand
  <2>2. inbox' \in Seq(Command_) /\ \A i \in DOMAIN inbox' : GoodCommand(inbox'[i])
    <3>1. CASE UNCHANGED inbox  BY <3>1 DEF CamFacts
    <3>2. CASE inbox' = Append(inbox, chdr)
      BY <2>1, <3>2, SequenceFacts DEF CamFacts
    <3>. QED  BY <1>4, <3>1, <3>2 DEF SendFails
  <2>3. ClientFacts'
    BY <1>4, ReturnKeeps DEF SendFails
  <2>. QED  BY <1>0, <1>4, <2>2, <2>3 DEF SendFails, device, CamFacts
<1>5. CASE Reply
  <2>1. Head(replies) \in Replies /\ replies' \in Seq(Replies)
    BY <1>5, SequenceFacts DEF Reply, CamFacts
  <2>2. Head(replies).value \in Nat  BY <2>1 DEF Replies
  <2>3. cam_tag' \in 0 .. TagMod - 1
    BY <1>5, TagType DEF Reply, CamFacts, NextTag
  <2>4. ClientFacts'
    <3>1. CASE Matches(Head(replies))
      BY <1>5, <2>2, <2>3, <3>1, ContinueKeeps DEF Reply
    <3>2. CASE ~Matches(Head(replies))
      BY <1>5, <3>2, ReturnKeeps DEF Reply
    <3>. QED  BY <3>1, <3>2
  <2>. QED  BY <1>5, <2>1, <2>3, <2>4 DEF Reply, CamFacts
<1>6. CASE InputFails
  <2>1. replies' \in Seq(Replies)
    <3>1. CASE UNCHANGED replies  BY <3>1 DEF CamFacts
    <3>2. CASE replies # <<>> /\ replies' = Tail(replies)
      BY <3>2, SequenceFacts DEF CamFacts
    <3>. QED  BY <1>6, <3>1, <3>2 DEF InputFails
  <2>2. ClientFacts'
    <3>1. High \in Nat  BY NearValues
    <3>. QED  BY <1>6, <3>1, ContinueKeeps DEF InputFails, device, CamFacts
  <2>. QED  BY <1>0, <1>6, <2>1, <2>2 DEF InputFails, device, CamFacts
<1>7. CASE Execute
  <2> DEFINE c == Head(inbox)
  <2>1. /\ GoodCommand(c) /\ c \in Command_ /\ inbox' \in Seq(Command_)
        /\ \A i \in DOMAIN inbox' : GoodCommand(inbox'[i])
    BY <1>7, SequenceFacts DEF Execute, CamFacts
  <2>2. /\ regs' = IF c.write THEN [regs EXCEPT ![c.reg] = c.value] ELSE regs
        /\ replies' = Append(replies, [cmd |-> c.cmd, tag |-> c.tag, reg |-> c.reg,
                                       value |-> regs'[c.reg]])
    BY <1>7 DEF Execute
  <2>. HIDE DEF c
  <2>3. c.reg \in Regs /\ "brightness" \in Regs  BY <2>1 DEF Command_, Regs
  <2>4. regs' \in [Regs -> Nat] /\ regs'["brightness"] \in Low .. High
    BY <2>1, <2>2, <2>3 DEF CamFacts, GoodCommand, GoodValue
  <2>5. [cmd |-> c.cmd, tag |-> c.tag, reg |-> c.reg, value |-> regs'[c.reg]] \in Replies
    BY <2>1, <2>3, <2>4 DEF Command_, Replies
  <2>6. replies' \in Seq(Replies)  BY <2>2, <2>5, SequenceFacts DEF CamFacts
  <2>7. ClientFacts'
    BY <1>7 DEF Execute, device, client, CamFacts, ClientFacts, Refused, Reads
  <2>. QED  BY <1>7, <2>1, <2>4, <2>6, <2>7 DEF Execute, device, client, CamFacts
<1>. QED  BY <1>1, <1>2, <1>3, <1>4, <1>5, <1>6, <1>7 DEF CamNext

LEMMA CamFactsHold == CamSpec => []CamFacts
BY CamStarts, CamStepKeeps, PTL DEF CamSpec

\* Whatever fails, and however commands and replies get out of step, the brightness
\* register only gets values in its range.
THEOREM BrightnessKeepsRange == CamSpec => []BrightnessInRange
<1>1. CamFacts => BrightnessInRange
  BY DEF CamFacts, BrightnessInRange, GoodCommand, GoodValue
<1>. QED  BY <1>1, CamFactsHold, PTL

LEMMA ReplyTags ==
  ASSUME NEW s \in Seq(Replies)
  PROVE  \A i \in DOMAIN s : s[i].tag \in 0 .. TagMod - 1
<1>1. ASSUME NEW i \in DOMAIN s PROVE s[i] \in Replies  OBVIOUS
<1>. QED  BY <1>1 DEF Replies

LEMMA FactsGiveCamTypes == CamFacts => CamTypeOK
<1> SUFFICES ASSUME CamFacts PROVE CamTypeOK  OBVIOUS
<1>1. \A i \in DOMAIN replies : replies[i].tag \in 0 .. TagMod - 1
  BY ReplyTags DEF CamFacts
<1>2. stage # "idle" => chdr \in Command_  BY DEF CamFacts, ClientFacts, GoodCommand
<1>. QED  BY <1>1, <1>2 DEF CamFacts, ClientFacts, CamTypeOK

-----------------------------------------------------------------------------
(* Flags: division by a flag that is not a constant. *)

LEMMA DivUnique ==
  ASSUME NEW f \in Nat \ {0}, NEW q \in Int, NEW r \in 0 .. f - 1
  PROVE  (f * q + r) \div f = q
OBVIOUS

LEMMA Divide ==
  ASSUME NEW v \in Nat, NEW f \in Nat \ {0}
  PROVE  \E q \in Nat, r \in 0 .. f - 1 : v \div f = q /\ v = f * q + r
<1> DEFINE q == v \div f
           r == v - f * q
<1>1. q \in Nat  OBVIOUS
<1>2. v >= f * q /\ v < f * q + f  OBVIOUS
<1>3. f * q \in Nat  BY <1>1
<1>4. r \in 0 .. f - 1  BY <1>2, <1>3
<1>5. v = f * q + r  BY <1>3
<1>. QED  BY <1>1, <1>4, <1>5

LEMMA DivPlus ==
  ASSUME NEW v \in Nat, NEW f \in Nat \ {0}
  PROVE  (v + f) \div f = (v \div f) + 1
<1>1. PICK q \in Nat, r \in 0 .. f - 1 : v \div f = q /\ v = f * q + r  BY Divide
<1>2. v + f = f * (q + 1) + r  BY <1>1
<1>. QED  BY <1>1, <1>2, DivUnique

\* A flag is as it was set.
LEMMA FlagIsSet ==
  ASSUME NEW v \in Nat, NEW c, c.flag \in Nat \ {0}, c.on \in BOOLEAN
  PROVE  /\ (WithFlag(v, c) \div c.flag) % 2 = (IF c.on THEN 1 ELSE 0)
         /\ WithFlag(v, c) # v => WithFlag(v, c) \in {v + c.flag, v - c.flag}
<1> DEFINE f == c.flag
<1>1. v \div f \in Nat  BY QuotientType
<1>2. (v \div f) % 2 \in {0, 1}  BY <1>1
<1>3. CASE c.on /\ (v \div f) % 2 = 1
  BY <1>3 DEF WithFlag, Or
<1>4. CASE c.on /\ (v \div f) % 2 = 0
  <2>1. WithFlag(v, c) = v + f  BY <1>4 DEF WithFlag, Or
  <2>2. (v + f) \div f = (v \div f) + 1  BY DivPlus
  <2>. QED  BY <1>1, <1>4, <2>1, <2>2
<1>5. CASE ~c.on /\ (v \div f) % 2 = 0
  BY <1>5 DEF WithFlag, AndNot
<1>6. CASE ~c.on /\ (v \div f) % 2 = 1
  <2>1. WithFlag(v, c) = v - f  BY <1>6 DEF WithFlag, AndNot
  <2>2. v >= f
    <3>1. ASSUME v < f PROVE v \div f = 0  BY <3>1
    <3>. QED  BY <1>6, <3>1
  <2>3. v - f \in Nat /\ (v - f) + f = v  BY <2>2
  <2>4. v \div f = ((v - f) \div f) + 1  BY <2>3, DivPlus
  <2>5. (v - f) \div f \in Nat  BY <2>3, QuotientType
  <2>. QED  BY <1>6, <2>1, <2>4, <2>5
<1>. QED  BY <1>2, <1>3, <1>4, <1>5, <1>6

-----------------------------------------------------------------------------
(* What holds as long as no transfer has failed: there is at most one       *)
(* command or one reply, the client's, and the registers hold what its call *)
(* has written so far.                                                      *)

NearPlan(c) ==
  LET v == IF c.on THEN NearOn ELSE NearOff IN
  \/ chdr.reg = "brightness" /\ chdr.value = v[1] /\ todo = <<<<"near", v[2]>>>>
  \/ chdr.reg = "near" /\ chdr.value = v[2] /\ todo = <<>> /\ regs["brightness"] = v[1]

\* The command that call c is at, before the camera has carried it out ...
Before(c) ==
  IF chdr.write
  THEN CASE c.name = "near" -> NearPlan(c)
         [] c.name = "flag" -> /\ chdr.reg = "cmos_flags" /\ todo = <<>>
                               /\ chdr.value = WithFlag(regs["cmos_flags"], c)
         [] OTHER -> Writes(c, 0) = <<<<chdr.reg, chdr.value>>>> /\ todo = <<>>
  ELSE c.name \in {"flag", "get_exposure", "get_brightness"}

\* ... and after.
After(c) ==
  IF chdr.write
  THEN /\ regs[chdr.reg] = chdr.value
       /\ CASE c.name = "near" -> NearPlan(c)
            [] c.name = "flag" -> /\ chdr.reg = "cmos_flags" /\ todo = <<>>
                                  /\ \E v \in Nat : chdr.value = WithFlag(v, c)
            [] OTHER -> Writes(c, 0) = <<<<chdr.reg, chdr.value>>>> /\ todo = <<>>
  ELSE c.name \in {"flag", "get_exposure", "get_brightness"}

Answer == [cmd |-> chdr.cmd, tag |-> chdr.tag, reg |-> chdr.reg, value |-> regs[chdr.reg]]

InStep ==
  failed = 0 =>
    /\ stage = "idle" => inbox = <<>> /\ replies = <<>>
    /\ stage = "send" => inbox = <<>> /\ replies = <<>> /\ Before(call)
    /\ stage = "poll" => \/ inbox = <<chdr>> /\ replies = <<>> /\ Before(call)
                         \/ inbox = <<>> /\ replies = <<Answer>> /\ After(call)
TrueFacts == CamFacts /\ InStep /\ ResultsTrue

LEMMA PairOfSeq ==
  ASSUME NEW s \in Seq(Nat), Len(s) = 2
  PROVE  s = <<s[1], s[2]>>
<1>0. 1 \in 1 .. Len(s) /\ 2 \in 1 .. Len(s)  OBVIOUS
<1>1. s[1] \in Nat /\ s[2] \in Nat  BY <1>0, ElementOfSeq
<1>2. <<s[1], s[2]>> \in Seq(Nat) /\ Len(<<s[1], s[2]>>) = 2  BY <1>1
<1>3. \A i \in 1 .. Len(s) : s[i] = <<s[1], s[2]>>[i]
  <2>1. 1 .. Len(s) = {1, 2}  OBVIOUS
  <2>. QED  BY <2>1
<1>. QED  BY <1>2, <1>3, SeqEqual

LEMMA TrueStarts == CamInit => TrueFacts
<1>1. CamInit => CamFacts  BY CamStarts
<1>. QED  BY <1>1 DEF CamInit, TrueFacts, InStep, ResultsTrue

\* A call begins.
LEMMA BeginIsTrue ==
  ASSUME TrueFacts, NEW c \in Calls, Begin(c)
  PROVE  InStep' /\ ResultsTrue'
<1>. USE DEF Begin, device, camera
<1>1. CASE Refused(c)
  <2>1. stage' = "idle" /\ InStep'  BY <1>1 DEF TrueFacts, InStep
  <2>2. Refused(c)' <=> Refused(c)  BY DEF Refused
  <2>. QED  BY <1>1, <2>1, <2>2 DEF ResultsTrue
<1>2. CASE ~Refused(c)
  <2>1. stage' = "send" /\ call' = c /\ ResultsTrue'  BY <1>2 DEF ResultsTrue
  <2>2. ASSUME failed = 0 PROVE Before(c)'
    <3>1. c.name \in {"flag", "get_exposure", "get_brightness"} <=> Reads(c) # {}
      BY CallKinds DEF Reads
    <3>2. CASE Reads(c) = {}
      <4> DEFINE w == Writes(c, 0)
      <4>1. todo' = Tail(w) /\ chdr' = Command(w[1][1], TRUE, w[1][2])
        BY <1>2, <3>2
      <4>2. chdr'.write /\ chdr'.reg = w[1][1] /\ chdr'.value = w[1][2]
        BY <4>1 DEF Command
      <4>3. w' = w  BY DEF Writes, NearMode, Clamp, WithFlag, Or, AndNot
      <4>4. CASE c.name = "near"
        <5> DEFINE v == IF c.on THEN NearOn ELSE NearOff
        <5>1. w = <<<<"brightness", v[1]>>, <<"near", v[2]>>>>  BY <4>4 DEF Writes, NearMode
        <5>. HIDE DEF w
        <5>2. chdr'.reg = "brightness" /\ chdr'.value = v[1]  BY <4>2, <5>1
        <5>3. todo' = <<<<"near", v[2]>>>>
          <6>. HIDE DEF v
          <6>. QED  BY <4>1, <5>1
        <5>. QED  BY <4>2, <4>4, <5>2, <5>3 DEF Before, NearPlan
      <4>5. CASE c.name \in {"mirror", "set_exposure", "set_brightness"}
        <5>1. PICK r, n : w = <<<<r, n>>>>  BY <4>5 DEF Writes
        <5>2. w[1][1] = r /\ w[1][2] = n /\ Tail(w) = <<>>
          <6>. HIDE DEF w
          <6>. QED  BY <5>1
        <5>3. w = <<<<chdr'.reg, chdr'.value>>>> /\ todo' = <<>>  BY <4>1, <4>2, <5>1, <5>2
        <5>. QED  BY <4>2, <4>3, <4>5, <5>3 DEF Before
      <4>. QED  BY <3>1, <3>2, <4>4, <4>5, CallKinds
    <3>3. CASE Reads(c) # {}
      <4>1. PICK r \in Reads(c) : chdr' = Command(r, FALSE, 0)  BY <1>2, <3>3
      <4>2. chdr'.write = FALSE  BY <4>1 DEF Command
      <4>. QED  BY <3>1, <3>3, <4>2 DEF Before
    <3>. QED  BY <3>2, <3>3
  <2>. QED  BY <2>1, <2>2 DEF TrueFacts, InStep
<1>. QED  BY <1>1, <1>2

LEMMA SameWrites ==
  ASSUME NEW c, UNCHANGED format
  PROVE  /\ \A v : Writes(c, v)' = Writes(c, v) /\ Returned(c, v)' = Returned(c, v)
         /\ Reads(c)' = Reads(c)
         /\ UNCHANGED k4w => (Refused(c)' <=> Refused(c))
BY DEF Writes, NearMode, Clamp, WithFlag, Or, AndNot, Returned, Reads, Refused

\* A command goes out.
LEMMA SendIsTrue ==
  ASSUME TrueFacts, Send
  PROVE  InStep' /\ ResultsTrue'
<1>1. stage = "send" /\ stage' = "poll" /\ inbox' = Append(inbox, chdr)  BY DEF Send
<1>2. ASSUME failed = 0 PROVE inbox' = <<chdr'>> /\ replies' = <<>> /\ Before(call)'
  <2>1. inbox = <<>> /\ replies = <<>> /\ Before(call)
    BY <1>1, <1>2 DEF TrueFacts, InStep
  <2>2. inbox' = <<chdr'>>  BY <1>1, <2>1 DEF Send
  <2>3. Before(call)'
    BY <2>1, SameWrites
       DEF Send, device, Before, NearPlan, Writes, NearMode, Clamp, WithFlag, Or, AndNot
  <2>. QED  BY <2>1, <2>2, <2>3 DEF Send
<1>3. InStep'  BY <1>1, <1>2 DEF Send, InStep
<1>. QED  BY <1>1, <1>3 DEF ResultsTrue

\* The camera carries a command out.
LEMMA ExecuteIsTrue ==
  ASSUME TrueFacts, Execute
  PROVE  InStep' /\ ResultsTrue'
<1>. USE DEF device, client
<1>1. UNCHANGED <<cam_tag, k4w, format, call, stage, todo, chdr, result, failed>>  BY
      DEF Execute
<1>2. ASSUME failed = 0
      PROVE  stage = "poll" /\ inbox' = <<>> /\ replies' = <<Answer>>' /\ After(call)'
  <2>1. stage = "poll" /\ inbox = <<chdr>> /\ replies = <<>> /\ Before(call)
    BY <1>2 DEF Execute, TrueFacts, InStep, CamFacts, ClientFacts
  <2>2. Head(inbox) = chdr /\ Tail(inbox) = <<>>  BY <2>1
  <2>3. /\ regs' = IF chdr.write THEN [regs EXCEPT ![chdr.reg] = chdr.value] ELSE regs
        /\ replies' = Append(replies, [cmd |-> chdr.cmd, tag |-> chdr.tag, reg |-> chdr.reg,
                                       value |-> regs'[chdr.reg]])
    BY <2>2 DEF Execute
  <2>4. replies' = <<Answer>>'
    <3>1. replies' = Append(replies, Answer')  BY <1>1, <2>3 DEF Answer
    <3>. HIDE DEF Answer
    <3>. QED  BY <2>1, <3>1
  <2>5. call \in Calls /\ chdr.reg \in Regs /\ regs \in [Regs -> Nat]
    BY <2>1 DEF TrueFacts, CamFacts, ClientFacts, GoodCommand, Command_
  <2>6. After(call)'
    <3>1. CASE ~chdr.write
      BY <1>1, <2>1, <3>1 DEF After, Before
    <3>2. CASE chdr.write
      <4>1. regs' = [regs EXCEPT ![chdr.reg] = chdr.value]  BY <2>3, <3>2
      <4>2. regs'[chdr.reg] = chdr.value  BY <2>5, <4>1
      <4>3. CASE call.name = "near"
        <5>1. NearPlan(call)  BY <2>1, <3>2, <4>3 DEF Before
        <5>2. NearPlan(call)'
          <6>1. chdr.reg = "near" => regs'["brightness"] = regs["brightness"]
            BY <2>5, <4>1 DEF Regs
          <6>. QED  BY <1>1, <5>1, <6>1 DEF NearPlan
        <5>. QED  BY <1>1, <3>2, <4>2, <4>3, <5>2 DEF After
      <4>4. CASE call.name = "flag"
        <5>1. chdr.reg = "cmos_flags" /\ todo = <<>>
              /\ chdr.value = WithFlag(regs["cmos_flags"], call)
          BY <2>1, <3>2, <4>4 DEF Before
        <5>2. regs["cmos_flags"] \in Nat  BY <2>5 DEF Regs
        <5>3. \E v \in Nat : chdr.value = WithFlag(v, call)  BY <5>1, <5>2
        <5>4. (\E v \in Nat : chdr.value = WithFlag(v, call))'
          BY <1>1, <5>3 DEF WithFlag, Or, AndNot
        <5>. QED  BY <1>1, <3>2, <4>2, <4>4, <5>1, <5>4 DEF After
      <4>5. CASE call.name \notin {"near", "flag"}
        <5>1. Writes(call, 0) = <<<<chdr.reg, chdr.value>>>> /\ todo = <<>>
          BY <2>1, <3>2, <4>5 DEF Before
        <5>2. Writes(call, 0)' = Writes(call, 0)
          BY <1>1 DEF Writes, NearMode, Clamp, WithFlag, Or, AndNot
        <5>. QED  BY <1>1, <3>2, <4>2, <4>5, <5>1, <5>2 DEF After
      <4>. QED  BY <4>3, <4>4, <4>5
    <3>. QED  BY <3>1, <3>2
  <2>. QED  BY <2>1, <2>2, <2>4, <2>6 DEF Execute
<1>3. InStep'  BY <1>1, <1>2 DEF InStep
<1>4. ResultsTrue'
  <2>1. failed = 0 => stage = "poll"  BY <1>2
  <2>. QED  BY <1>1, <2>1 DEF ResultsTrue
<1>. QED  BY <1>3, <1>4

\* A call returns after its last command.
LEMMA LastReplyIsTrue ==
  ASSUME CamFacts, NEW c, c = call, stage # "idle", After(c), NEW v, v = regs[chdr.reg],
         chdr.write \/ c.name # "flag", chdr.write => todo = <<>>,
         UNCHANGED <<k4w, format, regs>>, stage' = "idle",
         result' = [call |-> c, ok |-> IF chdr.write THEN TRUE ELSE Returned(c, v) # Bad,
                    value |-> IF chdr.write THEN Written(Replied) ELSE Returned(c, v)]
  PROVE  ResultsTrue'
<1>1. /\ c \in Calls /\ ~Refused(c) /\ chdr.reg \in Regs /\ regs \in [Regs -> Nat]
      /\ ~chdr.write => chdr.reg \in Reads(c)
  BY DEF CamFacts, ClientFacts, GoodCommand, Command_
<1>2. ~Refused(c)' /\ Reads(c)' = Reads(c) /\ Returned(c, v)' = Returned(c, v)
      /\ Writes(c, 0)' = Writes(c, 0)
  BY <1>1 DEF Writes, NearMode, Clamp, WithFlag, Or, AndNot, Returned, Reads, Refused
<1>3. CASE ~chdr.write
  <2>1. c.name \in {"get_exposure", "get_brightness"} /\ Reads(c) = {chdr.reg}
    BY <1>1, <1>3 DEF After, Reads
  <2>2. Returned(c, v) # Bad <=> ~(c.name = "get_exposure" /\ format = "ir")
    <3>1. v \in Nat  BY <1>1
    <3>2. CASE c.name = "get_brightness"
      BY <3>1, <3>2 DEF Returned, Bad
    <3>3. CASE c.name = "get_exposure" /\ format = "ir"
      BY <3>3 DEF Returned
    <3>4. CASE c.name = "get_exposure" /\ format # "ir"
      <4>1. Unit[format] \in Nat  BY <3>4 DEF CamFacts, Unit
      <4>2. v * Unit[format] \in Nat  BY <3>1, <4>1
      <4>. QED  BY <3>4, <4>2 DEF Returned, Bad
    <3>. QED  BY <2>1, <3>2, <3>3, <3>4
  <2>. QED
    <3>1. result'.call = c /\ result'.ok = (Returned(c, v) # Bad)
          /\ result'.value = Returned(c, v)
      BY <1>3
    <3>2. \A r \in Reads(c)' : Returned(c, regs[r])' = Returned(c, v)
      BY <1>2, <2>1
    <3>. QED  BY <1>2, <2>1, <2>2, <3>1, <3>2 DEF ResultsTrue
<1>4. CASE chdr.write
  <2>1. result'.call = c /\ result'.ok = TRUE /\ c.name \notin {"get_exposure",
        "get_brightness"}
    <3>1. c.name \notin {"get_exposure", "get_brightness"}
      BY <1>4 DEF After, Writes
    <3>. QED  BY <1>4, <3>1
  <2>2. regs[chdr.reg] = chdr.value  BY <1>4 DEF After
  <2>2a. result'.value = Written(Replied)  BY <1>4
  <2>2b. chdr.reg \notin Cmos => result'.value = 0  BY <2>2a DEF Written
  <2>2c. chdr.reg \in Cmos => result'.value = Replied  BY <2>2a DEF Written
  <2>3. CASE c.name = "flag"
    <3>1. PICK n \in Nat : chdr.value = WithFlag(n, c)  BY <1>4, <2>3 DEF After
    <3>2. (WithFlag(n, c) \div c.flag) % 2 = (IF c.on THEN 1 ELSE 0)
      BY <1>1, <2>3, CallKinds, FlagIsSet
    <3>3. regs["cmos_flags"] = WithFlag(n, c)  BY <1>4, <2>2, <2>3, <3>1 DEF After
    <3>4. result'.value = Replied  BY <1>4, <2>2c, <2>3 DEF After, Cmos
    <3>. QED  BY <1>2, <2>1, <2>3, <3>2, <3>3, <3>4 DEF ResultsTrue, Reads
  <2>4. CASE c.name = "near"
    <3> DEFINE w == IF c.on THEN NearOn ELSE NearOff
    <3>1. chdr.reg = "near" /\ chdr.value = w[2] /\ regs["brightness"] = w[1]
      BY <1>4, <2>4 DEF After, NearPlan
    <3>2. w = <<w[1], w[2]>>  BY PairOfSeq, CommandAssumption
    <3>3. <<regs["brightness"], regs["near"]>> = w  BY <2>2, <3>1, <3>2
    <3>4. Writes(c, 0) = <<<<"brightness", w[1]>>, <<"near", w[2]>>>>  BY <2>4
          DEF Writes, NearMode
    <3>5. \A i \in DOMAIN Writes(c, 0) : regs[Writes(c, 0)[i][1]] = Writes(c, 0)[i][2]
      <4> DEFINE p == Writes(c, 0)
      <4>. HIDE DEF p, w
      <4>1. DOMAIN p = {1, 2} /\ p[1] = <<"brightness", w[1]>> /\ p[2] = <<"near", w[2]>>
        BY <3>4 DEF p
      <4>2. \A i \in DOMAIN p : regs[p[i][1]] = p[i][2]  BY <2>2, <3>1, <4>1
      <4>. QED  BY <4>2 DEF p
    <3>6. result'.value = 0  BY <2>2b, <3>1 DEF Cmos
    <3>. QED  BY <1>2, <2>1, <2>4, <3>3, <3>5, <3>6 DEF ResultsTrue, Reads
  <2>5. CASE c.name \notin {"near", "flag"}
    <3>1. Writes(c, 0) = <<<<chdr.reg, chdr.value>>>>  BY <1>4, <2>5 DEF After
    <3>2. \A i \in DOMAIN Writes(c, 0) : regs[Writes(c, 0)[i][1]] = Writes(c, 0)[i][2]
      <4> DEFINE p == Writes(c, 0)
      <4>. HIDE DEF p
      <4>1. DOMAIN p = {1} /\ p[1] = <<chdr.reg, chdr.value>>  BY <3>1 DEF p
      <4>2. \A i \in DOMAIN p : regs[p[i][1]] = p[i][2]  BY <2>2, <4>1
      <4>. QED  BY <4>2 DEF p
    <3>3. c.name \in {"mirror", "set_brightness"} => result'.value = 0
      <4>1. ASSUME c.name = "mirror" PROVE chdr.reg \in Mirrors
        BY <1>1, <3>1, <4>1 DEF Writes, Refused
      <4>2. ASSUME c.name = "set_brightness" PROVE chdr.reg = "brightness"
        BY <3>1, <4>2 DEF Writes
      <4>. QED  BY <2>2b, <4>1, <4>2 DEF Mirrors, Cmos
    <3>4. c.name = "set_exposure" => result'.value = Replied
      <4>1. ASSUME c.name = "set_exposure" PROVE chdr.reg = "cmos_shutter"
        BY <3>1, <4>1 DEF Writes
      <4>. QED  BY <2>2c, <4>1 DEF Cmos
    <3>. QED  BY <1>2, <2>1, <2>5, <3>2, <3>3, <3>4 DEF ResultsTrue, Reads
  <2>. QED  BY <2>3, <2>4, <2>5
<1>. QED  BY <1>3, <1>4

\* A reply is read: the client's next command, or its result.
LEMMA ReplyIsTrue ==
  ASSUME TrueFacts, Reply
  PROVE  InStep' /\ ResultsTrue'
<1>1. CASE failed # 0
  BY <1>1 DEF Reply, InStep, ResultsTrue
<1>2. CASE failed = 0
  <2> DEFINE v == regs[chdr.reg]
             c == call
             w == IF chdr.write THEN todo ELSE Writes(c, v)
  <2>1. inbox = <<>> /\ replies = <<Answer>> /\ After(c) /\ stage = "poll"
    BY <1>2 DEF Reply, TrueFacts, InStep
  <2>2. /\ c \in Calls /\ chdr.reg \in Regs /\ v \in Nat /\ v # Bad /\ CamFacts
        /\ ~chdr.write => chdr.reg \in Reads(c)
    BY <2>1 DEF TrueFacts, CamFacts, ClientFacts, GoodCommand, Command_, Bad
  <2>3. Head(replies) = Answer /\ Tail(replies) = <<>>
    <3>. HIDE DEF Answer
    <3>. QED  BY <2>1
  <2>4. Matches(Head(replies)) /\ Head(replies).value = v
    BY <2>3 DEF Matches, Answer
  <2>5. Continue(v, Replied) /\ replies' = <<>> /\ UNCHANGED <<k4w, format, regs, inbox, failed>>
    BY <2>3, <2>4 DEF Reply
  <2>6. CASE w = <<>>
    <3>1. Return(IF chdr.write THEN TRUE ELSE Returned(c, v) # Bad,
                 IF chdr.write THEN Written(Replied) ELSE Returned(c, v))
      <4>1. CASE chdr.write
        <5>1. Return(Written(Replied) # Bad, Written(Replied))
          BY <2>5, <2>6, <4>1 DEF Continue
        <5>2. (Written(Replied) # Bad) = TRUE  BY DEF Bad, Written, Replied
        <5>. QED  BY <4>1, <5>1, <5>2 DEF Return
      <4>2. CASE ~chdr.write
        BY <2>2, <2>5, <2>6, <4>2 DEF Continue
      <4>. QED  BY <4>1, <4>2
    <3>2. stage' = "idle" /\ InStep'  BY <2>1, <2>5, <3>1 DEF Return, InStep
    <3>3. chdr.write \/ c.name # "flag"
      <4>1. ASSUME ~chdr.write, c.name = "flag" PROVE FALSE  BY <2>6, <4>1 DEF Writes
      <4>. QED  BY <4>1
    <3>. QED
      <4>1. result' = [call |-> c, ok |-> IF chdr.write THEN TRUE ELSE Returned(c, v) # Bad,
                       value |-> IF chdr.write THEN Written(Replied) ELSE Returned(c, v)]
        BY <3>1 DEF Return
      <4>2. stage # "idle"  BY <2>1
      <4>3. UNCHANGED <<k4w, format, regs>>  BY <2>5
      <4>4. ResultsTrue'  BY <2>1, <2>2, <2>6, <3>2, <3>3, <4>1, <4>2, <4>3, LastReplyIsTrue
      <4>. QED  BY <3>2, <4>4
  <2>7. CASE w # <<>>
    <3>1. /\ stage' = "send" /\ todo' = Tail(w)
          /\ chdr' = [Command(w[1][1], TRUE, w[1][2]) EXCEPT !.tag = cam_tag']
          /\ UNCHANGED <<call, result>>
      BY <2>2, <2>5, <2>7 DEF Continue
    <3>2. chdr'.write = TRUE /\ chdr'.reg = w[1][1] /\ chdr'.value = w[1][2]
      BY <3>1 DEF Command
    <3>3. Before(c)'
      <4>1. CASE chdr.write
        <5>1. c.name = "near" /\ NearPlan(c) /\ todo # <<>> /\ w = todo
          BY <2>1, <2>7, <4>1 DEF After
        <5> DEFINE n == IF c.on THEN NearOn ELSE NearOff
        <5>2. chdr.reg = "brightness" /\ chdr.value = n[1] /\ w = <<<<"near", n[2]>>>>
          BY <5>1 DEF NearPlan
        <5>3. regs["brightness"] = n[1]  BY <2>1, <4>1, <5>2 DEF After
        <5>4. chdr'.reg = "near" /\ chdr'.value = n[2] /\ todo' = <<>>
          <6>. HIDE DEF w, n
          <6>1. w[1][1] = "near" /\ w[1][2] = n[2] /\ Tail(w) = <<>>  BY <5>2
          <6>. QED  BY <3>1, <3>2, <6>1
        <5>. QED  BY <2>5, <3>1, <3>2, <5>1, <5>3, <5>4 DEF Before, NearPlan
      <4>2. CASE ~chdr.write
        <5>1. c.name = "flag" /\ w = <<<<"cmos_flags", WithFlag(v, c)>>>>
          BY <2>1, <2>7, <4>2 DEF After, Writes
        <5>2. v = regs["cmos_flags"]  BY <2>2, <4>2, <5>1 DEF Reads
        <5>3. chdr'.reg = "cmos_flags" /\ chdr'.value = WithFlag(v, c) /\ todo' = <<>>
          <6>. HIDE DEF w, v
          <6>1. w[1][1] = "cmos_flags" /\ w[1][2] = WithFlag(v, c) /\ Tail(w) = <<>>
            BY <5>1
          <6>. QED  BY <3>1, <3>2, <6>1
        <5>4. WithFlag(regs["cmos_flags"], c)' = WithFlag(v, c)
          BY <2>5, <3>1, <5>2 DEF WithFlag, Or, AndNot
        <5>. QED  BY <3>1, <3>2, <5>1, <5>3, <5>4 DEF Before
      <4>. QED  BY <4>1, <4>2
    <3>4. InStep'  BY <2>1, <2>5, <3>1, <3>3 DEF InStep
    <3>5. ResultsTrue'  BY <3>1 DEF ResultsTrue
    <3>. QED  BY <3>4, <3>5
  <2>. QED  BY <2>6, <2>7
<1>. QED  BY <1>1, <1>2 DEF TrueFacts, CamFacts

LEMMA TrueStep == TrueFacts /\ [CamNext]_cmdVars => TrueFacts'
<1> SUFFICES ASSUME TrueFacts, [CamNext]_cmdVars PROVE InStep' /\ ResultsTrue'
  BY CamStepKeeps DEF TrueFacts
<1>1. CASE UNCHANGED cmdVars
  <2>1. UNCHANGED <<k4w, format, call, stage, todo, chdr, result, regs, inbox, replies, failed>>
    BY <1>1 DEF cmdVars, device, client, camera
  <2>2. InStep'
    BY <2>1 DEF TrueFacts, InStep, Before, After, NearPlan, Answer, Writes, NearMode, Clamp,
                WithFlag, Or, AndNot
  <2>3. ResultsTrue'
    <3>1. PICK c : c = result.call  OBVIOUS
    <3>2. /\ \A v : Writes(c, v)' = Writes(c, v) /\ Returned(c, v)' = Returned(c, v)
          /\ Reads(c)' = Reads(c) /\ (Refused(c)' <=> Refused(c))
      BY <2>1, SameWrites
    <3>. QED  BY <2>1, <3>1, <3>2 DEF TrueFacts, ResultsTrue
  <2>. QED  BY <2>2, <2>3
<1>2. ASSUME NEW c \in Calls, Begin(c) PROVE InStep' /\ ResultsTrue'
  BY <1>2, BeginIsTrue
<1>3. CASE Send  BY <1>3, SendIsTrue
<1>4. CASE Reply  BY <1>4, ReplyIsTrue
<1>5. CASE Execute  BY <1>5, ExecuteIsTrue
<1>6. CASE SendFails \/ InputFails
  <2>1. failed \in Nat /\ failed' = failed + 1
    <3>1. MaxFailed \in Nat  BY CommandAssumption
    <3>2. failed \in 0 .. MaxFailed  BY DEF TrueFacts, CamFacts
    <3>3. failed' = failed + 1  BY <1>6 DEF SendFails, InputFails
    <3>. QED  BY <3>1, <3>2, <3>3
  <2>2. failed' # 0  BY <2>1
  <2>. QED  BY <2>2 DEF InStep, ResultsTrue
<1>. QED  BY <1>1, <1>2, <1>3, <1>4, <1>5, <1>6 DEF CamNext

LEMMA TrueFactsHold == CamSpec => []TrueFacts
BY TrueStarts, TrueStep, PTL DEF CamSpec

\* However late the camera answers: as long as no transfer has failed, what a call
\* returns is so; and whatever fails, types and the brightness's range.
THEOREM CommandsAreSafe == CamSpec => []CamInv
<1>1. TrueFacts => CamInv
  BY FactsGiveCamTypes
     DEF TrueFacts, CamFacts, CamInv, BrightnessInRange, GoodCommand, GoodValue
<1>. QED  BY <1>1, TrueFactsHold, PTL

\* As long as no transfer has failed, freenect_set_flag() leaves all flags but the one
\* it is about alone.
THEOREM OtherFlagsStay == CamSpec => OnlyNamedFlag
<1> DEFINE A == regs'["cmos_flags"] # regs["cmos_flags"] /\ failed = 0 =>
                  /\ call.name = "flag"
                  /\ regs'["cmos_flags"] \in {regs["cmos_flags"] + call.flag,
                                              regs["cmos_flags"] - call.flag}
<1>1. TrueFacts /\ [CamNext]_cmdVars => [A]_cmdVars
  <2> SUFFICES ASSUME TrueFacts, CamNext, failed = 0,
                      regs'["cmos_flags"] # regs["cmos_flags"]
               PROVE  A
    OBVIOUS
  <2>1. Execute
    BY DEF CamNext, Begin, Send, SendFails, Reply, InputFails, camera
  <2>2. stage = "poll" /\ inbox = <<chdr>> /\ Before(call)
    BY <2>1 DEF Execute, TrueFacts, InStep, CamFacts, ClientFacts
  <2>3. Head(inbox) = chdr  BY <2>2
  <2>4. regs \in [Regs -> Nat] /\ call \in Calls /\ chdr.reg \in Regs /\ ~Refused(call)
    BY <2>2 DEF TrueFacts, CamFacts, ClientFacts, GoodCommand, Command_
  <2>5. chdr.write /\ regs' = [regs EXCEPT ![chdr.reg] = chdr.value]
    BY <2>1, <2>3 DEF Execute
  <2>6. chdr.reg = "cmos_flags" /\ regs'["cmos_flags"] = chdr.value
    BY <2>4, <2>5 DEF Regs
  <2>7. call.name = "flag"
    <3>1. call.name # "near"  BY <2>2, <2>5, <2>6 DEF Before, NearPlan
    <3>2. ASSUME call.name \in {"mirror", "set_exposure", "set_brightness", "get_exposure",
                                "get_brightness"}
          PROVE  FALSE
      <4>1. Writes(call, 0) = <<<<"cmos_flags", chdr.value>>>>
        BY <2>2, <2>5, <2>6, <3>2 DEF Before
      <4>2. Writes(call, 0)[1][1] = "cmos_flags"
        <5> DEFINE w == Writes(call, 0)
        <5>. HIDE DEF w
        <5>1. w[1][1] = "cmos_flags"  BY <4>1 DEF w
        <5>. QED  BY <5>1 DEF w
      <4>. QED  BY <2>4, <3>2, <4>1, <4>2 DEF Writes, Refused, Mirrors
    <3>. QED  BY <2>4, <3>1, <3>2, CallKinds
  <2>8. chdr.value = WithFlag(regs["cmos_flags"], call)
    BY <2>2, <2>5, <2>7 DEF Before
  <2>9. regs["cmos_flags"] \in Nat  BY <2>4 DEF Regs
  <2>. QED  BY <2>4, <2>6, <2>7, <2>8, <2>9, FlagIsSet, CallKinds
<1>. QED  BY <1>1, TrueFactsHold, PTL DEF CamSpec, OnlyNamedFlag

-----------------------------------------------------------------------------
(* Tilt, LED and accelerometer: what is sent to a motor, whatever fails. *)

MotorSpec == MotorInit /\ [][MotorNext]_motorVars

LEMMA MotorCallKinds ==
  ASSUME NEW c \in MotorCalls
  PROVE  /\ c.dev \in Motors /\ c.name \in {"update", "tilt", "led"}
         /\ c.name = "tilt" => c.angle \in Int
         /\ c # Idle
<1>1. PICK m \in Motors : \/ c = Update(m)
                          \/ \E a \in Angles : c = Tilt(m, a)
                          \/ \E o \in Leds : c = Led(m, o)
  BY DEF MotorCalls
<1>2. CASE c = Update(m)  BY <1>1, <1>2 DEF Update, Idle
<1>3. ASSUME NEW a \in Angles, c = Tilt(m, a)
      PROVE c.dev = m /\ c.name = "tilt" /\ c.angle \in Int
  BY <1>3, MotorAssumption DEF Tilt
<1>4. ASSUME NEW o \in Leds, c = Led(m, o) PROVE c.dev = m /\ c.name = "led"
  BY <1>4 DEF Led
<1>. QED  BY <1>1, <1>2, <1>3, <1>4 DEF Idle

\* Angles are made whole towards zero, and an older motor's are kept in range.
LEMMA TruncType ==
  ASSUME NEW t \in Int
  PROVE  /\ Trunc(t) \in Int
         /\ t \in -620 .. 620 => Trunc(t) \in -62 .. 62
BY DEF Trunc

LEMMA HalfDegreesInRange ==
  ASSUME NEW a \in Int
  PROVE  HalfDegrees(a) \in -2 * MaxTilt .. 2 * MaxTilt
<1> DEFINE b == IF a < -10 * MaxTilt THEN -10 * MaxTilt ELSE IF a > 10 * MaxTilt THEN 10 * MaxTilt ELSE a
<1>1. b \in -310 .. 310  BY DEF MaxTilt
<1>2. HalfDegrees(a) = Trunc(2 * b)  BY DEF HalfDegrees
<1>. HIDE DEF b
<1>3. PICK t \in Int : t = 2 * b /\ t \in -620 .. 620
  <2>1. 2 * b \in Int /\ 2 * b \in -620 .. 620  BY <1>1
  <2>. QED  BY <2>1
<1>4. Trunc(t) \in -62 .. 62  BY <1>3, TruncType
<1>. QED  BY <1>2, <1>3, <1>4 DEF MaxTilt

LEMMA RawTiltType ==
  ASSUME NEW t \in Int
  PROVE  /\ RawTilt(t) \in -128 .. 127
         /\ t \in -62 .. 62 => RawTilt(t) = 2 * t
BY DEF RawTilt

\* What a newer motor is sent and answers.
Acceptable(c) == c \in MotorCalls /\ c.dev \in Alt /\ (c.name = "tilt" => SafeRange(c.angle))
DataAnswers == [kind : {"data"}, tilt : -MaxTilt .. MaxTilt]
AckAnswers == [kind : {"ack"}, status : {0, 1}]
Answers == DataAnswers \cup AckAnswers

MotorFacts ==
  /\ tag_seq \in 0 .. MaxTag /\ tag_next_ack \in Nat
  /\ mcall \in MotorCalls \cup {Idle} /\ mstage \in {"idle", "send", "data", "ack"}
  /\ mstage # "idle" => Acceptable(mcall)
  /\ late \in BOOLEAN
  /\ raw_tilt \in [Motors -> -128 .. 127]
  /\ angle \in [Motors -> -2 * MaxTilt .. 2 * MaxTilt]
  /\ \A m \in Alt : angle[m] \in -MaxTilt .. MaxTilt
  /\ box \in [Motors -> Seq({c \in MotorCalls : Acceptable(c)})]
  /\ fifo \in [Motors -> Seq(Answers)]
  /\ \A m \in Motors \ Alt : box[m] = <<>>

LEMMA MotorFactsStart == MotorInit => MotorFacts
<1>1. 0 \in 0 .. MaxTag /\ 0 \in -128 .. 127 /\ 0 \in -2 * MaxTilt .. 2 * MaxTilt
      /\ 0 \in -MaxTilt .. MaxTilt
  BY MotorAssumption DEF MaxTilt
<1>2. <<>> \in Seq({c \in MotorCalls : Acceptable(c)}) /\ <<>> \in Seq(Answers)  OBVIOUS
<1>3. Alt \subseteq Motors  BY MotorAssumption
<1> SUFFICES ASSUME MotorInit PROVE MotorFacts  OBVIOUS
<1>4. /\ raw_tilt \in [Motors -> -128 .. 127]
      /\ angle \in [Motors -> -2 * MaxTilt .. 2 * MaxTilt]
      /\ \A m \in Alt : angle[m] \in -MaxTilt .. MaxTilt
  BY <1>1, <1>3 DEF MotorInit
<1>5. /\ box \in [Motors -> Seq({c \in MotorCalls : Acceptable(c)})]
      /\ fifo \in [Motors -> Seq(Answers)]
      /\ \A m \in Motors \ Alt : box[m] = <<>>
  BY <1>2 DEF MotorInit
<1>. QED  BY <1>1, <1>4, <1>5 DEF MotorInit, MotorFacts

LEMMA MotorStepKeeps == MotorFacts /\ [MotorNext]_motorVars => MotorFacts'
<1> SUFFICES ASSUME MotorFacts, [MotorNext]_motorVars PROVE MotorFacts'  OBVIOUS
<1>. USE DEF counters, motorClient, motorDevice
<1>0. MaxTag \in Nat /\ Alt \subseteq Motors  BY MotorAssumption
<1>1. CASE UNCHANGED motorVars
  BY <1>1 DEF motorVars, MotorFacts, Acceptable
<1>2. ASSUME NEW c \in MotorCalls, Control(c) PROVE MotorFacts'
  <2>1. c.dev \in Motors /\ c.dev \notin Alt /\ (c.name = "tilt" => c.angle \in Int)
    BY <1>2, MotorCallKinds DEF Control
  <2>2. raw_tilt' \in [Motors -> -128 .. 127]
    <3>1. -2 * MaxTilt .. 2 * MaxTilt \subseteq -128 .. 127  BY DEF MaxTilt
    <3>2. angle[c.dev] \in -128 .. 127  BY <2>1, <3>1 DEF MotorFacts
    <3>3. raw_tilt' = raw_tilt \/ raw_tilt' = [raw_tilt EXCEPT ![c.dev] = angle[c.dev]]
      BY <1>2 DEF Control
    <3>. QED  BY <3>2, <3>3 DEF MotorFacts
  <2>3. /\ angle' \in [Motors -> -2 * MaxTilt .. 2 * MaxTilt]
        /\ \A m \in Alt : angle'[m] \in -MaxTilt .. MaxTilt
    <3>1. angle' = angle \/ (c.name = "tilt"
          /\ angle' = [angle EXCEPT ![c.dev] = HalfDegrees(c.angle)])
      <4>1. PICK ok \in BOOLEAN :
              angle' = IF (Enabled /\ ok) /\ c.name = "tilt"
                       THEN [angle EXCEPT ![c.dev] = HalfDegrees(c.angle)] ELSE angle
        BY <1>2 DEF Control
      <4>2. CASE (Enabled /\ ok) /\ c.name = "tilt"  BY <4>1, <4>2
      <4>3. CASE ~((Enabled /\ ok) /\ c.name = "tilt")  BY <4>1, <4>3
      <4>. QED  BY <4>2, <4>3
    <3>2. CASE angle' = angle  BY <3>2 DEF MotorFacts
    <3>3. CASE c.name = "tilt" /\ angle' = [angle EXCEPT ![c.dev] = HalfDegrees(c.angle)]
      BY <1>0, <2>1, <3>3, HalfDegreesInRange DEF MotorFacts
    <3>. QED  BY <3>1, <3>2, <3>3
  <2>. QED  BY <1>2, <2>2, <2>3 DEF Control, MotorFacts, Acceptable
<1>3. ASSUME NEW c \in MotorCalls, BeginAlt(c) PROVE MotorFacts'
  BY <1>0, <1>3 DEF BeginAlt, MotorFacts, Acceptable
<1>4. ASSUME box' = [box EXCEPT ![mcall.dev] = Append(@, mcall)], mstage # "idle"
      PROVE  /\ box' \in [Motors -> Seq({c \in MotorCalls : Acceptable(c)})]
             /\ \A m \in Motors \ Alt : box'[m] = <<>>
  <2>1. Acceptable(mcall) /\ mcall.dev \in Alt /\ mcall.dev \in Motors
    BY <1>0, <1>4 DEF MotorFacts, Acceptable
  <2>2. Append(box[mcall.dev], mcall) \in Seq({c \in MotorCalls : Acceptable(c)})
    BY <2>1, SequenceFacts DEF MotorFacts, Acceptable
  <2>. QED  BY <1>4, <2>1, <2>2 DEF MotorFacts
<1>5. CASE MotorSend
  <2>1. mstage # "idle" /\ box' = [box EXCEPT ![mcall.dev] = Append(@, mcall)]
    BY <1>5 DEF MotorSend
  <2>. QED  BY <1>4, <1>5, <2>1 DEF MotorSend, MotorFacts, Acceptable
<1>6. CASE Timeout
  <2>1. /\ box' \in [Motors -> Seq({c \in MotorCalls : Acceptable(c)})]
        /\ \A m \in Motors \ Alt : box'[m] = <<>>
    BY <1>4, <1>6 DEF Timeout, MotorFacts
  <2>. QED  BY <1>6, <2>1 DEF Timeout, MotorReturn, MotorFacts, Acceptable
<1>7. ASSUME mstage # "idle", fifo[mcall.dev] # <<>>,
      fifo' = [fifo EXCEPT ![mcall.dev] = Tail(@)]
      PROVE  /\ mcall.dev \in Motors /\ Head(fifo[mcall.dev]) \in Answers
             /\ fifo' \in [Motors -> Seq(Answers)]
  <2>1. mcall.dev \in Motors  BY <1>0, <1>7 DEF MotorFacts, Acceptable
  <2>2. Head(fifo[mcall.dev]) \in Answers /\ Tail(fifo[mcall.dev]) \in Seq(Answers)
    BY <1>7, <2>1, SequenceFacts DEF MotorFacts
  <2>. QED  BY <1>7, <2>1, <2>2 DEF MotorFacts
<1>8. CASE ReadData
  <2>1. mstage # "idle" /\ fifo[mcall.dev] # <<>>
        /\ fifo' = [fifo EXCEPT ![mcall.dev] = Tail(@)]
    BY <1>8 DEF ReadData
  <2>2. PICK t \in IF Head(fifo[mcall.dev]).kind = "data" THEN {Head(fifo[mcall.dev]).tilt} ELSE {-128, 0, 127} :
          raw_tilt' = [raw_tilt EXCEPT ![mcall.dev] = RawTilt(t)]
    BY <1>8 DEF ReadData
  <2>3. t \in Int
    <3>1. Head(fifo[mcall.dev]) \in Answers  BY <1>7, <2>1
    <3>. QED  BY <2>2, <3>1 DEF Answers, DataAnswers, AckAnswers, MaxTilt
  <2>4. raw_tilt' \in [Motors -> -128 .. 127]
    BY <1>7, <2>1, <2>2, <2>3, RawTiltType DEF MotorFacts
  <2>. QED  BY <1>7, <1>8, <2>1, <2>4 DEF ReadData, MotorFacts, Acceptable
<1>9. CASE ReadAck
  <2>1. mstage # "idle" /\ fifo[mcall.dev] # <<>>
        /\ fifo' = [fifo EXCEPT ![mcall.dev] = Tail(@)]
    BY <1>9 DEF ReadAck
  <2>2. tag_next_ack' \in Nat  BY <1>9 DEF ReadAck, Acked, MotorFacts
  <2>. QED  BY <1>7, <1>9, <2>1, <2>2 DEF ReadAck, MotorReturn, MotorFacts, Acceptable
<1>10. ASSUME NEW m \in Motors, MotorExecute(m) PROVE MotorFacts'
  <2> DEFINE c == Head(box[m])
  <2>1. /\ m \in Alt /\ Acceptable(c)
        /\ Tail(box[m]) \in Seq({d \in MotorCalls : Acceptable(d)})
    BY <1>10, SequenceFacts DEF MotorExecute, MotorFacts
  <2>2. PICK status \in {0, 1} :
          fifo' = [fifo EXCEPT ![m] = @ \o
            (IF c.name = "update" THEN <<[kind |-> "data", tilt |-> angle[m]]>> ELSE <<>>)
            \o <<[kind |-> "ack", status |-> status]>>]
    BY <1>10 DEF MotorExecute
  <2>3. angle' = IF c.name = "tilt" THEN [angle EXCEPT ![m] = Trunc(c.angle)] ELSE angle
    BY <1>10 DEF MotorExecute
  <2>. HIDE DEF c
  <2>4. /\ angle' \in [Motors -> -2 * MaxTilt .. 2 * MaxTilt]
        /\ \A n \in Alt : angle'[n] \in -MaxTilt .. MaxTilt
    <3>1. CASE c.name = "tilt"
      <4>1. Trunc(c.angle) \in -MaxTilt .. MaxTilt
        <5>1. c.angle \in Int /\ SafeRange(c.angle)
          BY <2>1, <3>1, MotorCallKinds DEF Acceptable
        <5>2. Trunc(c.angle) \in Int  BY <5>1, TruncType
        <5>. QED  BY <5>1, <5>2 DEF SafeRange, MaxTilt
      <4>2. Trunc(c.angle) \in -2 * MaxTilt .. 2 * MaxTilt  BY <4>1 DEF MaxTilt
      <4>. QED  BY <1>0, <2>3, <3>1, <4>1, <4>2 DEF MotorFacts
    <3>2. CASE c.name # "tilt"  BY <2>3, <3>2 DEF MotorFacts
    <3>. QED  BY <3>1, <3>2
  <2>5. fifo' \in [Motors -> Seq(Answers)]
    <3> DEFINE data == [kind |-> "data", tilt |-> angle[m]]
               ack == [kind |-> "ack", status |-> status]
    <3>1. data \in Answers /\ ack \in Answers
      BY <2>1 DEF MotorFacts, Answers, DataAnswers, AckAnswers
    <3>. HIDE DEF data, ack
    <3>2. fifo[m] \in Seq(Answers)  BY DEF MotorFacts
    <3>3. (IF c.name = "update" THEN <<data>> ELSE <<>>) \o <<ack>> \in Seq(Answers)  BY <3>1
    <3>4. fifo[m] \o (IF c.name = "update" THEN <<data>> ELSE <<>>) \o <<ack>> \in Seq(Answers)
      BY <3>1, <3>2
    <3>. QED  BY <2>2, <3>4 DEF MotorFacts, data, ack
  <2>6. box' = [box EXCEPT ![m] = Tail(@)]  BY <1>10 DEF MotorExecute
  <2>7. /\ box' \in [Motors -> Seq({d \in MotorCalls : Acceptable(d)})]
        /\ \A n \in Motors \ Alt : box'[n] = <<>>
    BY <1>0, <2>1, <2>6 DEF MotorFacts
  <2>. QED  BY <1>10, <2>4, <2>5, <2>7 DEF MotorExecute, MotorFacts, Acceptable
<1>. QED  BY <1>1, <1>2, <1>3, <1>5, <1>6, <1>8, <1>9, <1>10 DEF MotorNext

LEMMA MotorFactsHold == MotorSpec => []MotorFacts
BY MotorFactsStart, MotorStepKeeps, PTL DEF MotorSpec

\* No motor is sent an angle out of its range, whatever the client asks for.
THEOREM TiltKeepsRange == MotorSpec => []TiltInRange
<1>1. MotorFacts => TiltInRange
  <2> SUFFICES ASSUME MotorFacts, NEW m \in Motors
               PROVE  /\ angle[m] \in IF m \in Alt THEN -MaxTilt .. MaxTilt ELSE -2 * MaxTilt .. 2 * MaxTilt
                      /\ \A i \in DOMAIN box[m] : box[m][i].name = "tilt" => SafeRange(box[m][i].angle)
    BY DEF TiltInRange
  <2>1. \A i \in DOMAIN box[m] : Acceptable(box[m][i])
    <3>1. box[m] \in Seq({c \in MotorCalls : Acceptable(c)})  BY DEF MotorFacts
    <3>. QED  BY <3>1
  <2>. QED  BY <2>1 DEF MotorFacts, Acceptable
<1>. QED  BY <1>1, MotorFactsHold, PTL

-----------------------------------------------------------------------------
(* Commands and acknowledgements on their way are counted by an injection   *)
(* from the places where they are after a step into those before it.        *)

Way(bx, ff) ==
  UNION {({m} \X {"command"} \X DOMAIN bx[m])
           \cup ({m} \X {"ack"} \X {i \in DOMAIN ff[m] : ff[m][i].kind = "ack"}) : m \in Motors}

LEMMA OnTheWayIs == OnTheWay = Way(box, fifo)
BY DEF OnTheWay, Way, Acks

LEMMA PlacesOf ==
  ASSUME NEW bx, NEW ff, NEW p
  PROVE  p \in Way(bx, ff) <=>
           \E m \in Motors : \E i :
             \/ p = <<m, "command", i>> /\ i \in DOMAIN bx[m]
             \/ p = <<m, "ack", i>> /\ i \in DOMAIN ff[m] /\ ff[m][i].kind = "ack"
BY DEF Way

LEMMA PlaceKinds ==
  ASSUME NEW bx, NEW ff
  PROVE  \A p \in Way(bx, ff) : \E m \in Motors : \E i \in DOMAIN bx[m] \cup DOMAIN ff[m] :
           \/ p = <<m, "command", i>> /\ i \in DOMAIN bx[m]
           \/ p = <<m, "ack", i>> /\ i \in DOMAIN ff[m] /\ ff[m][i].kind = "ack"
BY DEF Way

LEMMA FewerPlaces ==
  ASSUME NEW S, NEW T, IsFiniteSet(T), NEW f \in [S -> T], \A a, b \in S : f[a] = f[b] => a = b
  PROVE  IsFiniteSet(S) /\ Cardinality(S) \in Nat /\ Cardinality(T) \in Nat
         /\ Cardinality(S) <= Cardinality(T)
<1>1. f \in Injection(S, T)  BY DEF Injection, IsInjective
<1>. QED  BY <1>1, FS_Injection, FS_CardinalityType

\* A command is sent: one place more.
LEMMA WayGrows ==
  ASSUME NEW bx, NEW ff, NEW m \in Motors, NEW C, bx \in [Motors -> Seq(C)], NEW c \in C,
         IsFiniteSet(Way(bx, ff))
  PROVE  LET w == Way([bx EXCEPT ![m] = Append(@, c)], ff)
         IN  IsFiniteSet(w) /\ Cardinality(w) \in Nat /\ Cardinality(w) <= Cardinality(Way(bx,
            ff)) + 1
<1> DEFINE b2 == [bx EXCEPT ![m] = Append(@, c)]
           w == Way(b2, ff)
           new == <<m, "command", Len(bx[m]) + 1>>
<1>1. \A n \in Motors : DOMAIN b2[n] \subseteq DOMAIN bx[n] \cup (IF n = m THEN {Len(bx[m]) + 1} ELSE {})
  <2>1. bx[m] \in Seq(C)  OBVIOUS
  <2>2. DOMAIN Append(bx[m], c) \subseteq DOMAIN bx[m] \cup {Len(bx[m]) + 1}  BY <2>1
  <2>. QED  BY <2>2
<1>. HIDE DEF b2
<1>2. w \subseteq Way(bx, ff) \cup {new}
  <2> SUFFICES ASSUME NEW p \in w, p # new PROVE p \in Way(bx, ff)  OBVIOUS
  <2>1. PICK n, i :
          /\ n \in Motors
          /\ \/ p = <<n, "command", i>> /\ i \in DOMAIN b2[n]
             \/ p = <<n, "ack", i>> /\ i \in DOMAIN ff[n] /\ ff[n][i].kind = "ack"
    BY PlacesOf
  <2>2. CASE p = <<n, "command", i>> /\ i \in DOMAIN b2[n]
    <3>1. i \in DOMAIN bx[n]
      <4>1. n = m => i # Len(bx[m]) + 1  BY <2>2
      <4>2. n \in Motors  BY <2>1
      <4>. QED  BY <1>1, <2>2, <4>1, <4>2
    <3>. QED  BY <2>2, <3>1, PlacesOf
  <2>3. CASE p = <<n, "ack", i>> /\ i \in DOMAIN ff[n] /\ ff[n][i].kind = "ack"
    BY <2>3, PlacesOf
  <2>. QED  BY <2>1, <2>2, <2>3
<1>3. /\ IsFiniteSet(Way(bx, ff) \cup {new})
      /\ Cardinality(Way(bx, ff) \cup {new}) <= Cardinality(Way(bx, ff)) + 1
  <2> DEFINE W == Way(bx, ff)
  <2>. HIDE DEF W, new
  <2>1. IsFiniteSet(W)  BY DEF W
  <2>2. Cardinality(W) \in Nat  BY <2>1, FS_CardinalityType
  <2>3. /\ IsFiniteSet(W \cup {new})
        /\ Cardinality(W \cup {new}) = IF new \in W THEN Cardinality(W) ELSE Cardinality(W) + 1
    BY <2>1, FS_AddElement
  <2>. QED  BY <2>2, <2>3 DEF W
<1>4. IsFiniteSet(w) /\ Cardinality(w) <= Cardinality(Way(bx, ff) \cup {new})
  <2>. HIDE DEF w, new
  <2>. QED  BY <1>2, <1>3, FS_Subset
<1>5. Cardinality(w) \in Nat  BY <1>4, FS_CardinalityType
<1>6. Cardinality(Way(bx, ff)) \in Nat /\ Cardinality(Way(bx, ff) \cup {new}) \in Nat
  BY <1>3, FS_CardinalityType
<1>. QED  BY <1>3, <1>4, <1>5, <1>6 DEF b2

\* An answer is read: if it is an acknowledgement, one place less.
LEMMA WayShrinks ==
  ASSUME NEW bx, NEW ff, NEW m \in Motors, NEW C, ff \in [Motors -> Seq(C)], ff[m] # <<>>,
         IsFiniteSet(Way(bx, ff))
  PROVE  LET w == Way(bx, [ff EXCEPT ![m] = Tail(@)])
         IN  /\ IsFiniteSet(w) /\ Cardinality(w) \in Nat
             /\ Cardinality(w) + (IF Head(ff[m]).kind = "ack" THEN 1 ELSE 0) <= Cardinality(Way(bx, ff))
<1> DEFINE f2 == [ff EXCEPT ![m] = Tail(@)]
           w == Way(bx, f2)
           first == <<m, "ack", 1>>
           T == Way(bx, ff) \ {first}
           back == [p \in w |-> IF p[1] = m /\ p[2] = "ack" THEN <<m, "ack", p[3] + 1>> ELSE p]
<1>1. /\ ff[m] \in Seq(C) /\ Head(ff[m]) = ff[m][1] /\ 1 \in DOMAIN ff[m]
      /\ \A i \in DOMAIN f2[m] : i \in Nat \ {0} /\ i + 1 \in DOMAIN ff[m]
         /\ f2[m][i] = ff[m][i + 1]
      /\ \A n \in Motors \ {m} : f2[n] = ff[n]
  <2>1. ff[m] \in Seq(C)  OBVIOUS
  <2>2. Head(ff[m]) = ff[m][1] /\ 1 \in DOMAIN ff[m]  BY <2>1, SequenceFacts
  <2>3. \A i \in DOMAIN Tail(ff[m]) : i \in Nat \ {0} /\ i + 1 \in DOMAIN ff[m]
        /\ Tail(ff[m])[i] = ff[m][i + 1]
    BY <2>1, SequenceFacts
  <2>. QED  BY <2>1, <2>2, <2>3
<1>. HIDE DEF f2
<1>2. ASSUME NEW p \in w
      PROVE  \/ p[1] = m /\ p[2] = "ack" /\ p = <<m, "ack", p[3]>> /\ p[3] \in Nat \ {0}
                /\ back[p] = <<m, "ack", p[3] + 1>> /\ back[p] \in T
             \/ ~(p[1] = m /\ p[2] = "ack") /\ back[p] = p /\ back[p] \in T
  <2>1. PICK n, i :
          /\ n \in Motors
          /\ \/ p = <<n, "command", i>> /\ i \in DOMAIN bx[n]
             \/ p = <<n, "ack", i>> /\ i \in DOMAIN f2[n] /\ f2[n][i].kind = "ack"
    BY <1>2, PlacesOf
  <2>2. CASE p = <<n, "command", i>> /\ i \in DOMAIN bx[n]
    <3>1. p[2] = "command" /\ back[p] = p  BY <2>2
    <3>2. p \in Way(bx, ff) /\ p # first  BY <2>2, PlacesOf
    <3>. QED  BY <3>1, <3>2
  <2>3. CASE p = <<n, "ack", i>> /\ i \in DOMAIN f2[n] /\ f2[n][i].kind = "ack" /\ n # m
    <3>1. p[1] = n /\ back[p] = p  BY <2>3
    <3>2. p \in Way(bx, ff) /\ p # first  BY <1>1, <2>3, PlacesOf
    <3>. QED  BY <2>3, <3>1, <3>2
  <2>4. CASE p = <<m, "ack", i>> /\ i \in DOMAIN f2[m] /\ f2[m][i].kind = "ack"
    <3>1. p[1] = m /\ p[2] = "ack" /\ p[3] = i /\ back[p] = <<m, "ack", i + 1>>  BY <2>4
    <3>2. i \in Nat \ {0} /\ i + 1 \in DOMAIN ff[m] /\ ff[m][i + 1].kind = "ack"  BY <1>1, <2>4
    <3>3. back[p] \in Way(bx, ff)  BY <3>1, <3>2, PlacesOf
    <3>4. back[p] # first  BY <3>1, <3>2
    <3>. QED  BY <2>4, <3>1, <3>2, <3>3, <3>4
  <2>. QED  BY <2>1, <2>2, <2>3, <2>4
<1>3. back \in [w -> T]  BY <1>2
<1>4. \A a, b \in w : back[a] = back[b] => a = b
  <2> SUFFICES ASSUME NEW a \in w, NEW b \in w, back[a] = back[b] PROVE a = b  OBVIOUS
  <2>. HIDE DEF back, w
  <2>1. ASSUME a[1] = m /\ a[2] = "ack", b[1] = m /\ b[2] = "ack" PROVE a = b
    <3>1. <<m, "ack", a[3] + 1>> = <<m, "ack", b[3] + 1>> /\ a[3] \in Nat /\ b[3] \in Nat
      BY <1>2, <2>1
    <3>2. a[3] = b[3]  BY <3>1
    <3>. QED  BY <1>2, <2>1, <3>2
  <2>2. ASSUME a[1] = m /\ a[2] = "ack", ~(b[1] = m /\ b[2] = "ack") PROVE a = b
    BY <1>2, <2>2
  <2>3. ASSUME ~(a[1] = m /\ a[2] = "ack"), b[1] = m /\ b[2] = "ack" PROVE a = b
    BY <1>2, <2>3
  <2>4. ASSUME ~(a[1] = m /\ a[2] = "ack"), ~(b[1] = m /\ b[2] = "ack") PROVE a = b
    BY <1>2, <2>4
  <2>. QED  BY <2>1, <2>2, <2>3, <2>4
<1>5. /\ IsFiniteSet(T)
      /\ Cardinality(T) + (IF Head(ff[m]).kind = "ack" THEN 1 ELSE 0) <= Cardinality(Way(bx,
         ff))
  <2>1. Head(ff[m]).kind = "ack" => first \in Way(bx, ff)  BY <1>1, PlacesOf
  <2>2. /\ IsFiniteSet(T) /\ Cardinality(Way(bx, ff)) \in Nat
        /\ Cardinality(T) = IF first \in Way(bx, ff) THEN Cardinality(Way(bx, ff)) - 1
                            ELSE Cardinality(Way(bx, ff))
    BY FS_RemoveElement, FS_CardinalityType
  <2>. QED  BY <2>1, <2>2
<1>6. IsFiniteSet(w) /\ Cardinality(w) \in Nat /\ Cardinality(T) \in Nat
      /\ Cardinality(w) <= Cardinality(T)
  <2>. HIDE DEF back, w, T
  <2>. QED  BY <1>3, <1>4, <1>5, FewerPlaces
<1>7. Cardinality(Way(bx, ff)) \in Nat  BY FS_CardinalityType
<1>. QED  BY <1>5, <1>6, <1>7 DEF f2


\* A command is carried out: its place becomes that of its acknowledgement, the last.
Moves(bx, ff, b2, f2, m, last) ==
  /\ 1 \in DOMAIN bx[m]
  /\ \A i \in DOMAIN b2[m] : i \in Nat \ {0} /\ i + 1 \in DOMAIN bx[m]
  /\ \A n \in Motors \ {m} : b2[n] = bx[n] /\ f2[n] = ff[n]
  /\ \A i \in DOMAIN f2[m] : f2[m][i].kind = "ack" =>
       i = last \/ (i \in DOMAIN ff[m] /\ ff[m][i].kind = "ack")

LEMMA PlacesMove ==
  ASSUME NEW bx, NEW ff, NEW b2, NEW f2, NEW m \in Motors, NEW last,
         Moves(bx, ff, b2, f2, m, last), IsFiniteSet(Way(bx, ff))
  PROVE  /\ IsFiniteSet(Way(b2, f2)) /\ Cardinality(Way(b2, f2)) \in Nat
         /\ Cardinality(Way(b2, f2)) <= Cardinality(Way(bx, ff))
<1>0. /\ 1 \in DOMAIN bx[m]
      /\ \A i \in DOMAIN b2[m] : i \in Nat \ {0} /\ i + 1 \in DOMAIN bx[m]
      /\ \A n \in Motors \ {m} : b2[n] = bx[n] /\ f2[n] = ff[n]
      /\ \A i \in DOMAIN f2[m] : f2[m][i].kind = "ack" =>
           i = last \/ (i \in DOMAIN ff[m] /\ ff[m][i].kind = "ack")
  BY DEF Moves
<1> DEFINE w == Way(b2, f2)
           T == Way(bx, ff)
           first == <<m, "command", 1>>
           back == [p \in w |-> IF p = <<m, "ack", last>> THEN first
                                ELSE IF p[1] = m /\ p[2] = "command"
                                THEN <<m, "command", p[3] + 1>> ELSE p]
<1>1. \A p \in w : \E n \in Motors : \E i \in DOMAIN b2[n] \cup DOMAIN f2[n] :
        \/ p = <<n, "command", i>> /\ i \in DOMAIN b2[n]
        \/ p = <<n, "ack", i>> /\ i \in DOMAIN f2[n] /\ f2[n][i].kind = "ack"
  BY PlaceKinds
<1>4. ASSUME NEW p \in w
      PROVE  \/ /\ p = <<m, "ack", last>> /\ back[p] = first /\ back[p] \in T
             \/ /\ p # <<m, "ack", last>> /\ p[1] = m /\ p[2] = "command"
                /\ p = <<m, "command", p[3]>> /\ p[3] \in Nat \ {0}
                /\ back[p] = <<m, "command", p[3] + 1>> /\ back[p] \in T
             \/ /\ p # <<m, "ack", last>> /\ ~(p[1] = m /\ p[2] = "command")
                /\ back[p] = p /\ back[p] \in T
  <2>1. PICK n, i :
          /\ n \in Motors
          /\ \/ p = <<n, "command", i>> /\ i \in DOMAIN b2[n]
             \/ p = <<n, "ack", i>> /\ i \in DOMAIN f2[n] /\ f2[n][i].kind = "ack"
    BY <1>1
  <2>2. CASE p = <<m, "command", i>> /\ i \in DOMAIN b2[m]
    <3>1. p[1] = m /\ p[2] = "command" /\ p[3] = i /\ p # <<m, "ack", last>>  BY <2>2
    <3>2. back[p] = <<m, "command", i + 1>>  BY <3>1
    <3>3. i \in Nat \ {0} /\ i + 1 \in DOMAIN bx[m]  BY <1>0, <2>2
    <3>4. back[p] \in T  BY <3>2, <3>3, PlacesOf
    <3>. QED  BY <2>2, <3>1, <3>2, <3>3, <3>4
  <2>3. CASE p = <<n, "command", i>> /\ i \in DOMAIN b2[n] /\ n # m
    <3>1. p[1] = n /\ p # <<m, "ack", last>> /\ back[p] = p  BY <2>3
    <3>2. p \in T  BY <1>0, <2>1, <2>3, PlacesOf
    <3>. QED  BY <2>3, <3>1, <3>2
  <2>4. CASE p = <<n, "ack", i>> /\ i \in DOMAIN f2[n] /\ f2[n][i].kind = "ack" /\ p # <<m,
        "ack", last>>
    <3>1. p[2] = "ack" /\ back[p] = p  BY <2>4
    <3>2. i \in DOMAIN ff[n] /\ ff[n][i].kind = "ack"
      <4>1. CASE n = m
        <5>1. i # last  BY <2>4, <4>1
        <5>. QED  BY <1>0, <2>4, <4>1, <5>1
      <4>2. CASE n # m  BY <1>0, <2>1, <2>4, <4>2
      <4>. QED  BY <4>1, <4>2
    <3>3. p \in T  BY <2>1, <2>4, <3>2, PlacesOf
    <3>. QED  BY <2>4, <3>1, <3>3
  <2>5. CASE p = <<m, "ack", last>>
    <3>1. back[p] = first  BY <2>5
    <3>2. first \in T  BY <1>0, PlacesOf
    <3>. QED  BY <2>5, <3>1, <3>2
  <2>. QED  BY <2>1, <2>2, <2>3, <2>4, <2>5
<1>5. back \in [w -> T]
  <2>1. \A p \in w : back[p] \in T  BY <1>4
  <2>2. back = [p \in w |-> back[p]]  OBVIOUS
  <2>. HIDE DEF back, w, T
  <2>. QED  BY <2>1, <2>2
<1>6. \A a, b \in w : back[a] = back[b] => a = b
  <2> SUFFICES ASSUME NEW a \in w, NEW b \in w, back[a] = back[b] PROVE a = b  OBVIOUS
  <2> DEFINE Moved(p) == p # <<m, "ack", last>> /\ p[1] = m /\ p[2] = "command"
             Stays(p) == p # <<m, "ack", last>> /\ ~(p[1] = m /\ p[2] = "command")
  <2>1. \A p \in w : \/ p = <<m, "ack", last>> /\ back[p] = <<m, "command", 1>>
                     \/ /\ Moved(p) /\ p = <<m, "command", p[3]>> /\ p[3] \in Nat \ {0}
                        /\ back[p] = <<m, "command", p[3] + 1>>
                     \/ Stays(p) /\ back[p] = p
    BY <1>4
  <2>. HIDE DEF back, w
  <2>2. CASE Moved(a) /\ Moved(b)
    <3>1. <<m, "command", a[3] + 1>> = <<m, "command", b[3] + 1>> /\ a[3] \in Nat
          /\ b[3] \in Nat
      BY <2>1, <2>2
    <3>2. a[3] = b[3]  BY <3>1
    <3>. QED  BY <2>1, <2>2, <3>2
  <2>3. CASE a = <<m, "ack", last>> /\ b = <<m, "ack", last>>
    BY <2>3
  <2>4. ASSUME NEW c \in w, NEW d \in w, c = <<m, "ack", last>>, Moved(d), back[c] = back[d]
        PROVE FALSE
    <3>1. <<m, "command", 1>> = <<m, "command", d[3] + 1>> /\ d[3] \in Nat \ {0}
      BY <2>1, <2>4
    <3>2. 1 = d[3] + 1  BY <3>1
    <3>. QED  BY <3>1, <3>2
  <2>5. ASSUME NEW c \in w, NEW d \in w, ~Stays(c), Stays(d), back[c] = back[d] PROVE FALSE
    <3>1. PICK i : d = <<m, "command", i>>  BY <2>1, <2>5
    <3>2. d[1] = m /\ d[2] = "command"  BY <3>1
    <3>. QED  BY <2>5, <3>2
  <2>6. CASE Stays(a) /\ Stays(b)
    BY <2>1, <2>6
  <2>7. \A p \in w : p = <<m, "ack", last>> \/ Moved(p) \/ Stays(p)  OBVIOUS
  <2>8. CASE ~Stays(a) /\ ~Stays(b)
    BY <2>2, <2>3, <2>4, <2>7, <2>8
  <2>. QED  BY <2>5, <2>6, <2>8
<1>7. IsFiniteSet(w) /\ Cardinality(w) \in Nat /\ Cardinality(w) <= Cardinality(T)
  <2>. HIDE DEF back, w, T
  <2>1. IsFiniteSet(T)  BY DEF T
  <2>. QED  BY <1>5, <1>6, <2>1, FewerPlaces
<1>. QED  BY <1>7

LEMMA WayMoves ==
  ASSUME NEW bx, NEW ff, NEW m \in Motors, NEW C, NEW A, bx \in [Motors -> Seq(C)],
     bx[m] # <<>>,
         ff \in [Motors -> Seq(A)], NEW data \in Seq(A), NEW ack \in A,
         \A i \in DOMAIN data : data[i].kind # "ack",
         IsFiniteSet(Way(bx, ff))
  PROVE  LET w == Way([bx EXCEPT ![m] = Tail(@)], [ff EXCEPT ![m] = @ \o data \o <<ack>>])
         IN  IsFiniteSet(w) /\ Cardinality(w) \in Nat /\ Cardinality(w) <= Cardinality(Way(bx,
            ff))
<1> DEFINE b2 == [bx EXCEPT ![m] = Tail(@)]
           f2 == [ff EXCEPT ![m] = @ \o data \o <<ack>>]
           last == Len(ff[m]) + Len(data) + 1
<1>1. /\ 1 \in DOMAIN bx[m]
      /\ \A i \in DOMAIN b2[m] : i \in Nat \ {0} /\ i + 1 \in DOMAIN bx[m]
      /\ \A n \in Motors \ {m} : b2[n] = bx[n] /\ f2[n] = ff[n]
  <2>1. bx[m] \in Seq(C)  OBVIOUS
  <2>2. 1 \in DOMAIN bx[m]  BY <2>1, SequenceFacts
  <2>3. \A i \in DOMAIN Tail(bx[m]) : i \in Nat \ {0} /\ i + 1 \in DOMAIN bx[m]
    BY <2>1, SequenceFacts
  <2>. QED  BY <2>1, <2>2, <2>3
<1>2. \A i \in DOMAIN f2[m] : f2[m][i].kind = "ack" =>
        i = last \/ (i \in DOMAIN ff[m] /\ ff[m][i].kind = "ack")
  <2>1. ff[m] \in Seq(A)  OBVIOUS
  <2> DEFINE s == ff[m]
             t == s \o data \o <<ack>>
  <2>2. f2[m] = t  OBVIOUS
  <2>. HIDE DEF s
  <2>3. s \in Seq(A)  BY <2>1 DEF s
  <2>4. \A i \in DOMAIN t : \/ i \in DOMAIN s /\ t[i] = s[i]
                            \/ i - Len(s) \in DOMAIN data /\ t[i] = data[i - Len(s)]
                            \/ i = Len(s) + Len(data) + 1
    BY <2>3
  <2>. HIDE DEF t
  <2>5. \A i \in DOMAIN t : t[i].kind = "ack" =>
          i = Len(s) + Len(data) + 1 \/ (i \in DOMAIN s /\ s[i].kind = "ack")
    BY <2>4
  <2>. QED  BY <2>2, <2>5 DEF s
<1>. HIDE DEF b2, f2, last
<1>4. /\ IsFiniteSet(Way(b2, f2)) /\ Cardinality(Way(b2, f2)) \in Nat
      /\ Cardinality(Way(b2, f2)) <= Cardinality(Way(bx, ff))
  <2>1. Moves(bx, ff, b2, f2, m, last)  BY <1>1, <1>2 DEF Moves
  <2>. QED  BY <2>1, PlacesMove
<1>. QED  BY <1>4 DEF b2, f2

AckFacts ==
  /\ IsFiniteSet(OnTheWay)
  /\ tag_next_ack + Cardinality(OnTheWay) + (IF mstage = "send" THEN 1 ELSE 0) <= tag_seq

LEMMA AckFactsStart == MotorInit => AckFacts
<1> SUFFICES ASSUME MotorInit PROVE AckFacts  OBVIOUS
<1>1. \A m \in Motors : box[m] = <<>> /\ fifo[m] = <<>>  BY DEF MotorInit
<1>2. ASSUME NEW p \in Way(box, fifo) PROVE FALSE
  <2>1. \E m \in Motors : \E i \in DOMAIN box[m] \cup DOMAIN fifo[m] : TRUE
    BY <1>2, PlaceKinds
  <2>. QED  BY <1>1, <2>1
<1>3. OnTheWay = {}  BY <1>2, OnTheWayIs
<1>. QED  BY <1>3, FS_EmptySet DEF MotorInit, AckFacts

LEMMA AckStepKeeps ==
  MotorFacts /\ AckFacts /\ [MotorNext]_motorVars => AckFacts'
<1> SUFFICES ASSUME MotorFacts, AckFacts, [MotorNext]_motorVars PROVE AckFacts'  OBVIOUS
<1>. USE DEF counters, motorClient, motorDevice
<1> DEFINE w == Way(box, fifo)
<1>1. /\ IsFiniteSet(w) /\ Cardinality(w) \in Nat /\ tag_seq \in Nat /\ tag_next_ack \in Nat
      /\ tag_next_ack + Cardinality(w) + (IF mstage = "send" THEN 1 ELSE 0) <= tag_seq
  <2>1. IsFiniteSet(w)  BY OnTheWayIs DEF AckFacts
  <2>2. Cardinality(w) \in Nat  BY <2>1, FS_CardinalityType
  <2>3. MaxTag \in Nat  BY MotorAssumption
  <2>4. tag_seq \in Nat  BY <2>3 DEF MotorFacts
  <2>5. tag_next_ack \in Nat  BY DEF MotorFacts
  <2>6. tag_next_ack + Cardinality(w) + (IF mstage = "send" THEN 1 ELSE 0) <= tag_seq
    BY OnTheWayIs DEF AckFacts
  <2>. HIDE DEF w
  <2>. QED  BY <2>1, <2>2, <2>4, <2>5, <2>6
<1>2. OnTheWay' = Way(box', fifo')  BY DEF OnTheWay, Way, Acks
<1>3. ASSUME UNCHANGED <<box, fifo>>, tag_next_ack' = tag_next_ack,
             tag_seq' + (IF mstage = "send" THEN 1 ELSE 0)
               >= tag_seq + (IF mstage' = "send" THEN 1 ELSE 0), tag_seq' \in Nat
      PROVE  AckFacts'
  <2>1. OnTheWay' = w  BY <1>2, <1>3
  <2> DEFINE sending == IF mstage = "send" THEN 1 ELSE 0
             sendingNow == IF mstage' = "send" THEN 1 ELSE 0
             n == Cardinality(w)
  <2>2. sending \in Nat /\ sendingNow \in Nat /\ n \in Nat  BY <1>1
  <2>3. tag_next_ack + n + sending <= tag_seq /\ tag_seq' + sending >= tag_seq + sendingNow
    BY <1>1, <1>3
  <2>4. IsFiniteSet(OnTheWay') /\ Cardinality(OnTheWay') = n  BY <1>1, <2>1
  <2>. HIDE DEF sending, sendingNow, n
  <2>5. tag_next_ack' + n + sendingNow <= tag_seq'
    <3>1. tag_next_ack' = tag_next_ack /\ tag_next_ack \in Nat /\ tag_seq \in Nat
          /\ tag_seq' \in Nat
      BY <1>1, <1>3
    <3>2. PICK a \in Nat, b \in Nat, c \in Nat :
            a = tag_next_ack' /\ b = tag_seq /\ c = tag_seq'
      BY <3>1
    <3>3. a + n + sending <= b /\ c + sending >= b + sendingNow  BY <2>3, <3>1, <3>2
    <3>4. a + n + sendingNow <= c  BY <2>2, <3>3
    <3>. QED  BY <3>2, <3>4
  <2>. QED  BY <2>4, <2>5 DEF AckFacts, sendingNow
<1>4. CASE UNCHANGED motorVars
  BY <1>1, <1>3, <1>4 DEF motorVars
<1>5. ASSUME NEW c \in MotorCalls, Control(c) PROVE AckFacts'
  BY <1>1, <1>3, <1>5 DEF Control
<1>6. ASSUME NEW c \in MotorCalls, BeginAlt(c) PROVE AckFacts'
  <2>1. mstage = "idle" /\ UNCHANGED <<box, fifo, tag_next_ack>>  BY <1>6 DEF BeginAlt
  <2>2. \/ tag_seq' = tag_seq /\ mstage' = mstage
        \/ tag_seq' = tag_seq + 1 /\ mstage' = "send"
    BY <1>6 DEF BeginAlt
  <2>. QED  BY <1>1, <1>3, <2>1, <2>2
<1>7. ASSUME mstage = "send", mstage' # "send", UNCHANGED <<counters, fifo>>,
             box' = [box EXCEPT ![mcall.dev] = Append(@, mcall)]
      PROVE  AckFacts'
  <2>1. mcall.dev \in Motors /\ mcall \in {c \in MotorCalls : Acceptable(c)}
    BY <1>7, MotorAssumption DEF MotorFacts, Acceptable
  <2>2. box \in [Motors -> Seq({c \in MotorCalls : Acceptable(c)})]
    BY DEF MotorFacts
  <2>3. /\ IsFiniteSet(OnTheWay') /\ Cardinality(OnTheWay') \in Nat
        /\ Cardinality(OnTheWay') <= Cardinality(w) + 1
    BY <1>1, <1>2, <1>7, <2>1, <2>2, WayGrows
  <2>. HIDE DEF w
  <2>. QED  BY <1>1, <1>7, <2>3 DEF AckFacts
<1>8. CASE MotorSend
  BY <1>7, <1>8 DEF MotorSend
<1>9. CASE Timeout
  <2>1. mstage' = "idle" /\ UNCHANGED <<counters, fifo>>  BY <1>9 DEF Timeout, MotorReturn
  <2>2. CASE UNCHANGED box
    BY <1>1, <1>3, <2>1, <2>2
  <2>3. CASE mstage = "send" /\ box' = [box EXCEPT ![mcall.dev] = Append(@, mcall)]
    BY <1>7, <2>1, <2>3
  <2>. QED  BY <1>9, <2>2, <2>3 DEF Timeout
<1>10. ASSUME mstage # "idle", fifo[mcall.dev] # <<>>, UNCHANGED box,
              fifo' = [fifo EXCEPT ![mcall.dev] = Tail(@)]
       PROVE  /\ IsFiniteSet(OnTheWay') /\ Cardinality(OnTheWay') \in Nat
              /\ Cardinality(OnTheWay') + Acked(Head(fifo[mcall.dev])) <= Cardinality(w)
  <2>1. mcall.dev \in Motors
    BY <1>10, MotorAssumption DEF MotorFacts, Acceptable
  <2>2. fifo \in [Motors -> Seq(Answers)]  BY DEF MotorFacts
  <2>. QED  BY <1>1, <1>2, <1>10, <2>1, <2>2, WayShrinks DEF Acked
<1>11. CASE ReadData
  <2>1. Acked(Head(fifo[mcall.dev])) \in {0, 1}  BY DEF Acked
  <2>2. /\ IsFiniteSet(OnTheWay') /\ Cardinality(OnTheWay') \in Nat
        /\ Cardinality(OnTheWay') + Acked(Head(fifo[mcall.dev])) <= Cardinality(w)
    BY <1>10, <1>11 DEF ReadData
  <2>3. mstage' = "ack" /\ UNCHANGED counters  BY <1>11 DEF ReadData
  <2>. HIDE DEF w
  <2>. QED  BY <1>1, <2>1, <2>2, <2>3 DEF AckFacts
<1>12. CASE ReadAck
  <2>1. Acked(Head(fifo[mcall.dev])) \in {0, 1}  BY DEF Acked
  <2>2. /\ IsFiniteSet(OnTheWay') /\ Cardinality(OnTheWay') \in Nat
        /\ Cardinality(OnTheWay') + Acked(Head(fifo[mcall.dev])) <= Cardinality(w)
    BY <1>10, <1>12 DEF ReadAck
  <2>3. /\ mstage' = "idle" /\ UNCHANGED tag_seq
        /\ tag_next_ack' = tag_next_ack + Acked(Head(fifo[mcall.dev]))
    BY <1>12 DEF ReadAck, MotorReturn
  <2>. HIDE DEF w
  <2>. QED  BY <1>1, <2>1, <2>2, <2>3 DEF AckFacts
<1>13. ASSUME NEW m \in Motors, MotorExecute(m) PROVE AckFacts'
  <2> DEFINE data == IF Head(box[m]).name = "update" THEN <<[kind |-> "data", tilt |-> angle[m]]>>
                     ELSE <<>>
  <2>1. PICK status \in {0, 1} :
          fifo' = [fifo EXCEPT ![m] = @ \o data \o <<[kind |-> "ack", status |-> status]>>]
    BY <1>13 DEF MotorExecute
  <2>2. box[m] # <<>> /\ box' = [box EXCEPT ![m] = Tail(@)] /\ mstage' = mstage
        /\ UNCHANGED counters
    BY <1>13 DEF MotorExecute
  <2>3. m \in Alt /\ angle[m] \in -MaxTilt .. MaxTilt  BY <2>2 DEF MotorFacts
  <2>4. data \in Seq(Answers) /\ \A i \in DOMAIN data : data[i].kind # "ack"
    <3> DEFINE d == [kind |-> "data", tilt |-> angle[m]]
    <3>1. d \in Answers /\ d.kind # "ack"  BY <2>3 DEF Answers, DataAnswers
    <3>. HIDE DEF d
    <3>2. <<d>> \in Seq(Answers) /\ \A i \in DOMAIN <<d>> : <<d>>[i].kind # "ack"  BY <3>1
    <3>3. data = <<d>> \/ data = <<>>  BY DEF d
    <3>. QED  BY <3>2, <3>3
  <2>5. [kind |-> "ack", status |-> status] \in Answers  BY DEF Answers, AckAnswers
  <2>6. box \in [Motors -> Seq({c \in MotorCalls : Acceptable(c)})]
        /\ fifo \in [Motors -> Seq(Answers)]
    BY DEF MotorFacts
  <2>. HIDE DEF data
  <2>7. /\ IsFiniteSet(OnTheWay') /\ Cardinality(OnTheWay') \in Nat
        /\ Cardinality(OnTheWay') <= Cardinality(w)
    BY <1>1, <1>2, <2>1, <2>2, <2>4, <2>5, <2>6, WayMoves
  <2>. HIDE DEF w
  <2>. QED  BY <1>1, <2>2, <2>7 DEF AckFacts
<1>. QED  BY <1>4, <1>5, <1>6, <1>8, <1>9, <1>11, <1>12, <1>13 DEF MotorNext

-----------------------------------------------------------------------------
(* As long as nothing timed out, only the motor of the call in progress has *)
(* anything on its way, and that is the call's.                             *)

AckOf(m) == \E s \in {0, 1} : fifo[m] = <<[kind |-> "ack", status |-> s]>>
DataOf(m) == \E s \in {0, 1} :
  fifo[m] = <<[kind |-> "data", tilt |-> angle[m]], [kind |-> "ack", status |-> s]>>
QuietBut(S) == \A m \in Motors \ S : box[m] = <<>> /\ fifo[m] = <<>>

CallFacts ==
  ~late =>
    /\ mstage \in {"idle", "send"} => QuietBut({})
    /\ mstage = "data" =>
         /\ mcall.name = "update" /\ QuietBut({mcall.dev})
         /\ \/ box[mcall.dev] = <<mcall>> /\ fifo[mcall.dev] = <<>>
            \/ box[mcall.dev] = <<>> /\ DataOf(mcall.dev)
    /\ mstage = "ack" =>
         /\ QuietBut({mcall.dev})
         /\ \/ mcall.name # "update" /\ box[mcall.dev] = <<mcall>> /\ fifo[mcall.dev] = <<>>
            \/ /\ box[mcall.dev] = <<>> /\ AckOf(mcall.dev)
               /\ mcall.name = "update" => raw_tilt[mcall.dev] = 2 * angle[mcall.dev]

LEMMA CallFactsStart == MotorInit => CallFacts /\ UpdateTrue
BY DEF MotorInit, CallFacts, UpdateTrue, QuietBut, Idle

LEMMA ShortSequences ==
  ASSUME NEW x, NEW y
  PROVE  /\ Head(<<x>>) = x /\ Tail(<<x>>) = <<>>
         /\ <<>> \o <<x>> \o <<y>> = <<x, y>> /\ <<>> \o <<>> \o <<y>> = <<y>>
<1>1. Head(<<x>>) = x /\ Tail(<<x>>) = <<>>  OBVIOUS
<1>2. <<>> \o <<x>> = <<x>> /\ <<>> \o <<>> = <<>> /\ <<>> \o <<y>> = <<y>>
  <2>1. <<x>> \in Seq({x, y}) /\ <<y>> \in Seq({x, y}) /\ <<>> \in Seq({x, y})  OBVIOUS
  <2>. QED  BY <2>1, ConcatEmptySeq
<1>3. <<x>> \o <<y>> = <<x, y>>
  <2>1. <<x>> \in Seq({x, y}) /\ <<y>> \in Seq({x, y}) /\ <<x, y>> \in Seq({x, y})  OBVIOUS
  <2>2. Len(<<x>>) = 1 /\ Len(<<y>>) = 1 /\ Len(<<x, y>>) = 2  OBVIOUS
  <2>3. /\ <<x>> \o <<y>> \in Seq({x, y}) /\ Len(<<x>> \o <<y>>) = 2
        /\ (<<x>> \o <<y>>)[1] = x /\ (<<x>> \o <<y>>)[2] = y
    BY <2>1, <2>2, ConcatProperties
  <2>4. \A i \in 1 .. 2 : (<<x>> \o <<y>>)[i] = <<x, y>>[i]  BY <2>3
  <2>. QED  BY <2>1, <2>2, <2>3, <2>4, SeqEqual
<1>. QED  BY <1>1, <1>2, <1>3

\* An answer is read from the one motor that has any.
LEMMA AnswerRead ==
  ASSUME MotorFacts, NEW m \in Motors, QuietBut({m}), UNCHANGED box,
         fifo' = [fifo EXCEPT ![m] = Tail(@)]
  PROVE  fifo'[m] = Tail(fifo[m]) /\ QuietBut({m})'
BY DEF MotorFacts, QuietBut

LEMMA CallStepKeeps ==
  MotorFacts /\ CallFacts /\ UpdateTrue /\ [MotorNext]_motorVars => CallFacts' /\ UpdateTrue'
<1> SUFFICES ASSUME MotorFacts, CallFacts, UpdateTrue, [MotorNext]_motorVars
             PROVE  CallFacts' /\ UpdateTrue'
  OBVIOUS
<1>. USE DEF counters, motorClient, motorDevice
<1> DEFINE m == mcall.dev
<1>0. mstage # "idle" => mcall \in MotorCalls /\ m \in Alt /\ m \in Motors /\ Acceptable(mcall)
  BY MotorAssumption DEF MotorFacts, Acceptable
<1>1. CASE UNCHANGED motorVars
  BY <1>1 DEF motorVars, CallFacts, UpdateTrue, QuietBut, AckOf, DataOf
<1>2. ASSUME NEW c \in MotorCalls, Control(c) PROVE CallFacts' /\ UpdateTrue'
  <2>1. mstage = "idle" /\ mstage' = "idle" /\ UNCHANGED <<mcall, box, fifo, late>>
    BY <1>2 DEF Control
  <2>2. CallFacts'  BY <2>1 DEF CallFacts, QuietBut
  <2>3. mresult'.call = c /\ c.dev \in Motors /\ c.dev \notin Alt
    BY <1>2, MotorCallKinds DEF Control
  <2>4. ASSUME mresult'.ok, c.name = "update", Enabled PROVE raw_tilt'[c.dev] = angle'[c.dev]
    <3>1. PICK ok \in BOOLEAN :
            /\ mresult' = [call |-> c, ok |-> ok]
            /\ raw_tilt' = IF (Enabled /\ ok) /\ c.name = "update"
                           THEN [raw_tilt EXCEPT ![c.dev] = angle[c.dev]] ELSE raw_tilt
            /\ angle' = IF (Enabled /\ ok) /\ c.name = "tilt"
                        THEN [angle EXCEPT ![c.dev] = HalfDegrees(c.angle)] ELSE angle
      BY <1>2 DEF Control
    <3>2. ok  BY <2>4, <3>1
    <3>. QED  BY <2>3, <2>4, <3>1, <3>2 DEF MotorFacts
  <2>5. ~late => \A n \in Motors : fifo'[n] = <<>> /\ box'[n] = <<>>
    BY <2>1 DEF CallFacts, QuietBut
  <2>. QED  BY <2>1, <2>2, <2>3, <2>4, <2>5 DEF UpdateTrue
<1>3. ASSUME NEW c \in MotorCalls, BeginAlt(c) PROVE CallFacts' /\ UpdateTrue'
  <2>1. mstage = "idle" /\ mstage' \in {"idle", "send"}
        /\ UNCHANGED <<raw_tilt, angle, box, fifo, late>>
    BY <1>3 DEF BeginAlt
  <2>2. CallFacts'  BY <2>1 DEF CallFacts, QuietBut
  <2>3. mstage' = "idle" => ~mresult'.ok  BY <1>3 DEF BeginAlt
  <2>. QED  BY <2>1, <2>2, <2>3 DEF UpdateTrue
<1>4. CASE MotorSend
  <2>1. /\ mstage = "send" /\ mstage' = IF mcall.name = "update" THEN "data" ELSE "ack"
        /\ box' = [box EXCEPT ![m] = Append(@, mcall)] /\ UNCHANGED <<mcall, fifo, angle, late>>
    BY <1>4 DEF MotorSend
  <2>2. ASSUME ~late
        PROVE  box'[m] = <<mcall>> /\ fifo'[m] = <<>> /\ QuietBut({m})'
    <3>1. \A n \in Motors : box[n] = <<>> /\ fifo[n] = <<>>  BY <2>1, <2>2
          DEF CallFacts, QuietBut
    <3>2. box[m] = <<>>  BY <1>0, <2>1, <3>1
    <3>3. box'[m] = <<mcall>>  BY <1>0, <2>1, <3>2 DEF MotorFacts
    <3>. QED  BY <1>0, <2>1, <3>1, <3>3 DEF QuietBut, MotorFacts
  <2>3. mstage' # "idle" /\ mstage' # "send"  BY <2>1
  <2>. QED  BY <2>1, <2>2, <2>3 DEF CallFacts, UpdateTrue
<1>5. CASE Timeout
  BY <1>5 DEF Timeout, CallFacts, UpdateTrue
<1>6. CASE ReadData
  <2>1. /\ mstage = "data" /\ fifo[m] # <<>> /\ fifo' = [fifo EXCEPT ![m] = Tail(@)]
        /\ mstage' = "ack" /\ UNCHANGED <<mcall, box, angle, late>>
    BY <1>6 DEF ReadData
  <2>2. ASSUME ~late
        PROVE  /\ QuietBut({m})' /\ box'[m] = <<>> /\ AckOf(m)'
               /\ mcall'.name = "update" /\ raw_tilt'[m] = 2 * angle'[m]
    <3>1. mcall.name = "update" /\ QuietBut({m}) /\ box[m] = <<>> /\ DataOf(m)
      BY <2>1, <2>2 DEF CallFacts
    <3> DEFINE d == [kind |-> "data", tilt |-> angle[m]]
    <3>2. PICK s \in {0, 1} : fifo[m] = <<d, [kind |-> "ack", status |-> s]>>  BY <3>1
          DEF DataOf
    <3> DEFINE a == [kind |-> "ack", status |-> s]
    <3>3. Head(fifo[m]) = d /\ Tail(fifo[m]) = <<a>>
      <4>. HIDE DEF d, a
      <4>. QED  BY <3>2 DEF a
    <3>4. fifo'[m] = <<a>> /\ QuietBut({m})'
      <4>. HIDE DEF a
      <4>. QED  BY <1>0, <2>1, <3>1, <3>3, AnswerRead
    <3>5. raw_tilt' = [raw_tilt EXCEPT ![m] = RawTilt(angle[m])]
      <4>1. Head(fifo[m]).kind = "data" /\ Head(fifo[m]).tilt = angle[m]  BY <3>3
      <4>. QED  BY <1>6, <4>1 DEF ReadData
    <3>6. RawTilt(angle[m]) = 2 * angle[m]
      <4>1. angle[m] \in -MaxTilt .. MaxTilt  BY <1>0, <2>1 DEF MotorFacts
      <4>2. angle[m] \in Int /\ angle[m] \in -62 .. 62  BY <4>1 DEF MaxTilt
      <4>. HIDE DEF m
      <4>. QED  BY <4>2, RawTiltType
    <3>7. raw_tilt'[m] = 2 * angle'[m]  BY <1>0, <2>1, <3>5, <3>6 DEF MotorFacts
    <3>. QED  BY <2>1, <3>1, <3>4, <3>7 DEF AckOf
  <2>. QED  BY <2>1, <2>2 DEF CallFacts, UpdateTrue
<1>7. CASE ReadAck
  <2>1. /\ mstage = "ack" /\ fifo[m] # <<>> /\ fifo' = [fifo EXCEPT ![m] = Tail(@)]
        /\ mstage' = "idle" /\ mresult'.call = mcall /\ UNCHANGED <<box, angle, raw_tilt, late>>
    BY <1>7 DEF ReadAck, MotorReturn
  <2>2. PICK k \in Motors : k = m  BY <1>0, <2>1
  <2>3. ASSUME ~late
        PROVE  /\ \A n \in Motors : box'[n] = <<>> /\ fifo'[n] = <<>>
               /\ mcall.name = "update" => raw_tilt'[k] = 2 * angle'[k]
    <3>1. /\ QuietBut({k}) /\ box[k] = <<>> /\ AckOf(k)
          /\ mcall.name = "update" => raw_tilt[k] = 2 * angle[k]
      BY <2>1, <2>2, <2>3 DEF CallFacts
    <3>2. PICK s \in {0, 1} : fifo[k] = <<[kind |-> "ack", status |-> s]>>  BY <3>1 DEF AckOf
    <3>3. Tail(fifo[k]) = <<>>  BY <3>2, ShortSequences
    <3>4. UNCHANGED box /\ fifo' = [fifo EXCEPT ![k] = Tail(@)]  BY <2>1, <2>2
    <3>5. fifo'[k] = <<>> /\ QuietBut({k})'  BY <3>1, <3>3, <3>4, AnswerRead
    <3>. QED  BY <2>1, <3>1, <3>5 DEF QuietBut
  <2>4. CallFacts'  BY <2>1, <2>3 DEF CallFacts, QuietBut
  <2>5. mresult'.call.dev = k /\ k \in Alt /\ mresult'.call.name = mcall.name  BY <1>0, <2>1,
        <2>2
  <2>. QED  BY <2>1, <2>3, <2>4, <2>5 DEF UpdateTrue
<1>8. ASSUME NEW n \in Motors, MotorExecute(n) PROVE CallFacts' /\ UpdateTrue'
  <2>1. /\ box[n] # <<>> /\ box' = [box EXCEPT ![n] = Tail(@)]
        /\ UNCHANGED <<mstage, mcall, mresult, raw_tilt, late>>
    BY <1>8 DEF MotorExecute
  <2>2. ASSUME ~late
        PROVE  /\ mstage \in {"data", "ack"} /\ n = m /\ box[m] = <<mcall>> /\ fifo[m] = <<>>
               /\ QuietBut({m})
               /\ mstage = "data" <=> mcall.name = "update"
    BY <2>1, <2>2 DEF CallFacts, QuietBut, MotorFacts
  <2>3. ASSUME ~late
        PROVE  /\ QuietBut({m})' /\ box'[m] = <<>>
               /\ mstage = "data" => DataOf(m)'
               /\ mstage = "ack" => AckOf(m)'
    <3>1. Head(box[m]) = mcall /\ Tail(box[m]) = <<>>
      <4>1. box[m] = <<mcall>>  BY <2>2, <2>3
      <4>. HIDE DEF m
      <4>. QED  BY <4>1, ShortSequences
    <3> DEFINE d == [kind |-> "data", tilt |-> angle[m]]
    <3>2. PICK s \in {0, 1} :
            fifo' = [fifo EXCEPT ![m] = @ \o (IF mcall.name = "update" THEN <<d>> ELSE <<>>)
                                          \o <<[kind |-> "ack", status |-> s]>>]
      BY <1>8, <2>2, <2>3, <3>1 DEF MotorExecute
    <3> DEFINE a == [kind |-> "ack", status |-> s]
    <3>3. mcall.name = "update" => UNCHANGED angle
      BY <1>8, <2>2, <2>3, <3>1 DEF MotorExecute
    <3>4. /\ mcall.name = "update" => fifo'[m] = <<d, a>>
          /\ mcall.name # "update" => fifo'[m] = <<a>>
      <4>1. fifo'[m] = fifo[m] \o (IF mcall.name = "update" THEN <<d>> ELSE <<>>) \o <<a>>
        BY <1>0, <2>2, <2>3, <3>2 DEF MotorFacts
      <4>2. fifo[m] = <<>>  BY <2>2, <2>3
      <4>. HIDE DEF d, a, m
      <4>. QED  BY <4>1, <4>2, ShortSequences
    <3>5. QuietBut({m})' /\ box'[m] = <<>>
      BY <1>0, <2>1, <2>2, <2>3, <3>1, <3>2 DEF QuietBut, MotorFacts
    <3>6. mstage = "data" => DataOf(m)'
      BY <2>1, <2>2, <2>3, <3>3, <3>4 DEF DataOf
    <3>7. mstage = "ack" => AckOf(m)'
      BY <2>1, <2>2, <2>3, <3>4 DEF AckOf
    <3>. QED  BY <3>5, <3>6, <3>7
  <2>4. CallFacts'
    BY <2>1, <2>2, <2>3 DEF CallFacts
  <2>5. UpdateTrue'  BY <2>1, <2>2 DEF UpdateTrue
  <2>. QED  BY <2>4, <2>5
<1>. QED  BY <1>1, <1>2, <1>3, <1>4, <1>5, <1>6, <1>7, <1>8 DEF MotorNext

LEMMA MotorSafetyHolds == MotorSpec => [](MotorFacts /\ AckFacts /\ CallFacts /\ UpdateTrue)
BY MotorFactsStart, MotorStepKeeps, AckFactsStart, AckStepKeeps, CallFactsStart, CallStepKeeps,
   PTL
   DEF MotorSpec

\* The motors' safety: types and ranges, acknowledgements never ahead of commands
\* whatever times out, and states reported as they are as long as nothing has.
THEOREM MotorsAreSafe == MotorSpec => []MotorInv
<1>1. MotorFacts /\ AckFacts => MotorTypeOK /\ AcksBehindCommands
  <2> SUFFICES ASSUME MotorFacts, AckFacts PROVE MotorTypeOK /\ AcksBehindCommands  OBVIOUS
  <2>1. Cardinality(OnTheWay) \in Nat  BY FS_CardinalityType DEF AckFacts
  <2>2. MaxTag \in Nat /\ tag_seq \in 0 .. MaxTag /\ tag_next_ack \in Nat
    BY MotorAssumption DEF MotorFacts
  <2>3. tag_next_ack + Cardinality(OnTheWay) <= tag_seq
    BY <2>1, <2>2 DEF AckFacts
  <2>4. tag_next_ack \in 0 .. MaxTag  BY <2>1, <2>2, <2>3
  <2>. QED  BY <2>3, <2>4 DEF MotorFacts, MotorTypeOK, AcksBehindCommands
<1>. QED  BY <1>1, MotorSafetyHolds, TiltKeepsRange, PTL DEF MotorInv
=============================================================================
