----------------------------- MODULE CamCommand -----------------------------
(***************************************************************************)
(* Commands to the camera (src/src/flags.c): send_cmd(), the register       *)
(* operations over it, and the flags, exposure and brightness calls over    *)
(* those.                                                                   *)
(*                                                                          *)
(* The camera is the environment: it carries commands out in order and      *)
(* queues a reply to each, which the next input transfer reads.  Transfers  *)
(* may fail, an output transfer after the camera got its command too.       *)
(* A register's value is a small number, UINT16_MAX is Bad.                 *)
(***************************************************************************)
EXTENDS Integers, Sequences

CONSTANTS
  TagMod,       \* cam_tag is a uint16_t: 2^16
  MaxQueue,     \* bound: commands, or replies, the camera holds
  Low, High,    \* brightness is kept within 1 .. 50
  NearOn,       \* registers 0x15 and 0x2ef in near mode ...
  NearOff,      \* ... and otherwise
  Calls,        \* the calls of the client
  MaxFailed,    \* bound: transfers that fail
  CameraFaults  \* subset of {"out", "in"}: which transfers may fail

ASSUME CommandAssumption ==
  /\ TagMod \in Nat \ {0, 1} /\ MaxQueue \in Nat \ {0} /\ MaxFailed \in Nat
  /\ Low \in Nat \ {0} /\ High \in Nat /\ Low <= High
  /\ NearOn \in Seq(Nat) /\ Len(NearOn) = 2 /\ NearOn[1] \in Low .. High
  /\ NearOff \in Seq(Nat) /\ Len(NearOff) = 2 /\ NearOff[1] \in Low .. High
  /\ CameraFaults \subseteq {"out", "in"}

\* freenect_set_flag(), the exposure and the brightness calls.
FlagCalls == [name : {"flag"}, flag : Nat \ {0}, on : BOOLEAN] \cup [name : {"near"}, on : BOOLEAN]
               \cup [name : {"mirror"}, flag : STRING, on : BOOLEAN]
ImageCalls == [name : {"get_exposure", "get_brightness"}] \cup [name : {"set_exposure"}, time : Nat]
                \cup [name : {"set_brightness"}, brightness : Int]
ASSUME CallsAssumption == Calls \subseteq FlagCalls \cup ImageCalls

Mirrors == {"mirror_depth", "mirror_video"}
Regs == {"brightness", "near", "cmos_flags", "cmos_shutter"} \cup Mirrors
Cmos == {"cmos_flags", "cmos_shutter"}
Bad == -1
None == [name |-> "none"]

VARIABLES
  cam_tag, k4w, format,   \* of the device
  call,                   \* the call in progress, or None
  stage,                  \* "send" a command, "poll" for its reply
  todo,                   \* writes the call has still to make, <<reg, value>>
  chdr,                   \* the command on its way
  result,                 \* what the last call returned: [call, ok, value]
  \* the camera
  regs, inbox, replies,
  \* history
  failed                  \* how many transfers have failed

device == <<cam_tag, k4w, format>>
client == <<call, stage, todo, chdr, result>>
camera == <<regs, inbox, replies>>
cmdVars == <<device, client, camera, failed>>

-----------------------------------------------------------------------------
(* The calls. *)

Flag(f, on) == [name |-> "flag", flag |-> f, on |-> on]
Near(on) == [name |-> "near", on |-> on]
Mirror(f, on) == [name |-> "mirror", flag |-> f, on |-> on]
GetExposure == [name |-> "get_exposure"]
SetExposure(t) == [name |-> "set_exposure", time |-> t]
GetBrightness == [name |-> "get_brightness"]
SetBrightness(b) == [name |-> "set_brightness", brightness |-> b]

\* Microseconds per unit of shutter width, scaled: 54.21 and 63.25 in the code.
Unit == [rgb |-> 2, yuv |-> 3]

\* The bit f of a register.
Or(v, f) == IF (v \div f) % 2 = 1 THEN v ELSE v + f
AndNot(v, f) == IF (v \div f) % 2 = 1 THEN v - f ELSE v
\* Mutant: the flag replaces the register.
MutWithFlag(v, c) == IF c.on THEN c.flag ELSE AndNot(v, c.flag)
WithFlag(v, c) == IF c.on THEN Or(v, c.flag) ELSE AndNot(v, c.flag)

\* Mutant: a value below the range is not brought into it.
MutClamp(b) == IF b > High THEN High ELSE b
Clamp(b) == IF b < Low THEN Low ELSE IF b > High THEN High ELSE b

\* Refused before anything is sent.  register_for_flag() knows two flags.
Refused(c) ==
  \/ c.name = "mirror" /\ c.flag \notin Mirrors
  \/ c.name = "near" /\ ~k4w
  \/ c.name = "set_exposure" /\ format = "ir"

\* The register a call reads first ...
Reads(c) ==
  CASE c.name = "flag" -> {"cmos_flags"}
    [] c.name = "get_exposure" -> {"cmos_shutter"}
    [] c.name = "get_brightness" -> {"brightness"}
    [] OTHER -> {}

\* Near mode is two registers.
\* Mutant: the second is forgotten.
MutNearMode(on) == LET v == IF on THEN NearOn ELSE NearOff IN <<<<"brightness", v[1]>>>>
NearMode(on) ==
  LET v == IF on THEN NearOn ELSE NearOff
  IN <<<<"brightness", v[1]>>, <<"near", v[2]>>>>

\* ... and what it writes, given the value read.
Writes(c, v) ==
  CASE c.name = "near" -> NearMode(c.on)
    [] c.name = "mirror" -> <<<<c.flag, IF c.on THEN 1 ELSE 0>>>>
    [] c.name = "flag" -> <<<<"cmos_flags", WithFlag(v, c)>>>>
    [] c.name = "set_exposure" -> <<<<"cmos_shutter", c.time \div Unit[format]>>>>
    [] c.name = "set_brightness" -> <<<<"brightness", Clamp(c.brightness)>>>>
    [] OTHER -> <<>>

\* What a call that only reads makes of the value.
Returned(c, v) ==
  CASE c.name = "get_exposure" -> IF format = "ir" THEN Bad ELSE v * Unit[format]
    [] OTHER -> v

\* Two commands for the camera's registers, a third for both directions of the
\* image sensor's.
Command(reg, write, value) ==
  [cmd |-> IF reg \in Cmos THEN "cmos" ELSE IF write THEN "write" ELSE "read",
   tag |-> cam_tag, reg |-> reg, write |-> write, value |-> value]

Return(ok, value) ==
  /\ result' = [call |-> call, ok |-> ok, value |-> value]
  /\ call' = None /\ stage' = "idle" /\ todo' = <<>>
  /\ chdr' = [cmd |-> "none"]

-----------------------------------------------------------------------------

CamInit ==
  /\ cam_tag = 0 /\ k4w \in BOOLEAN /\ format \in {"rgb", "yuv", "ir"}
  /\ call = None /\ stage = "idle" /\ todo = <<>>
  /\ chdr = [cmd |-> "none"] /\ result = [call |-> None, ok |-> TRUE, value |-> 0]
  /\ regs = [r \in Regs |-> CASE r = "brightness" -> Low [] r = "near" -> NearOff[2]
                             [] r = "cmos_flags" -> 1 [] OTHER -> 0]
  /\ inbox = <<>> /\ replies = <<>>
  /\ failed = 0

\* The client calls.
Begin(c) ==
  /\ stage = "idle"
  /\ IF Refused(c)
     THEN /\ result' = [call |-> c, ok |-> FALSE, value |-> Bad]
          /\ UNCHANGED <<call, stage, todo, chdr>>
     ELSE /\ call' = c /\ stage' = "send"
          /\ IF Reads(c) = {}
             THEN LET w == Writes(c, 0) IN
                  /\ todo' = Tail(w) /\ chdr' = Command(w[1][1], TRUE, w[1][2])
             ELSE /\ todo' = <<>>
                  /\ \E r \in Reads(c) : chdr' = Command(r, FALSE, 0)
          /\ UNCHANGED result
  /\ UNCHANGED <<device, camera, failed>>

\* send_cmd(): the output transfer ...
Send ==
  /\ stage = "send" /\ Len(inbox) < MaxQueue
  /\ inbox' = Append(inbox, chdr)
  /\ stage' = "poll"
  /\ UNCHANGED <<device, call, todo, chdr, result, regs, replies, failed>>

\* ... or its failure, with or without the command having got there.
SendFails ==
  /\ stage = "send" /\ "out" \in CameraFaults /\ failed < MaxFailed
  /\ \/ UNCHANGED inbox
     \/ Len(inbox) < MaxQueue /\ inbox' = Append(inbox, chdr)
  /\ Return(FALSE, Bad)
  /\ failed' = failed + 1
  /\ UNCHANGED <<device, regs, replies>>

\* Bytes of a command to the image sensor, with its header, and of its reply's data.
Sent == 14
Replied == 6

\* write_register() returns 0, write_cmos_register() what send_cmd() returned.
Written(length) == IF chdr.reg \in Cmos THEN length ELSE 0

\* What a call does when send_cmd() returned a length, which is not negative: its
\* next command, or its end.
Continue(v, length) ==
  LET w == IF chdr.write THEN todo ELSE IF v = Bad THEN <<>> ELSE Writes(call, v)
      value == IF chdr.write THEN Written(length) ELSE IF v = Bad THEN Bad ELSE Returned(call, v)
  IN
  IF w = <<>>
  THEN Return(value # Bad, value)
  ELSE /\ stage' = "send" /\ todo' = Tail(w)
       /\ chdr' = [Command(w[1][1], TRUE, w[1][2]) EXCEPT !.tag = cam_tag']
       /\ UNCHANGED <<call, result>>

\* The reply has the right command and tag.
Matches(r) == r.cmd = chdr.cmd /\ r.tag = chdr.tag

\* Mutant: the tag does not wrap.
MutNextTag == cam_tag + 1
NextTag == (cam_tag + 1) % TagMod

\* The reply is read; only one that matches moves the tag on.
\* Mutant: after one that does not match, the command is sent again.
MutReply ==
  /\ stage = "poll" /\ replies # <<>>
  /\ replies' = Tail(replies)
  /\ cam_tag' = NextTag
  /\ IF Matches(Head(replies))
     THEN Continue(Head(replies).value, Replied)
     ELSE /\ stage' = "send" /\ chdr' = [chdr EXCEPT !.tag = NextTag]
          /\ UNCHANGED <<call, todo, result>>
  /\ UNCHANGED <<k4w, format, regs, inbox, failed>>
Reply ==
  /\ stage = "poll" /\ replies # <<>>
  /\ replies' = Tail(replies)
  /\ LET r == Head(replies) IN
     IF Matches(r)
     THEN /\ cam_tag' = NextTag
          /\ Continue(r.value, Replied)
     ELSE /\ UNCHANGED cam_tag
          /\ Return(FALSE, Bad)
  /\ UNCHANGED <<k4w, format, regs, inbox, failed>>

\* The input transfer fails.  send_cmd() returns the result of the output
\* transfer, so that its caller goes on with a reply never written.
\* The value is whatever was on the stack.
InputFails ==
  /\ stage = "poll" /\ "in" \in CameraFaults /\ failed < MaxFailed
  /\ \/ UNCHANGED replies
     \/ replies # <<>> /\ replies' = Tail(replies)
  /\ failed' = failed + 1
  /\ UNCHANGED <<device, regs, inbox>>
  /\ \E garbage \in {Bad, High} : Continue(garbage, Sent)

-----------------------------------------------------------------------------
(* The camera. *)

Execute ==
  /\ inbox # <<>> /\ Len(replies) < MaxQueue
  /\ LET c == Head(inbox) IN
     /\ regs' = IF c.write THEN [regs EXCEPT ![c.reg] = c.value] ELSE regs
     /\ replies' = Append(replies, [cmd |-> c.cmd, tag |-> c.tag, reg |-> c.reg,
                                    value |-> regs'[c.reg]])
  /\ inbox' = Tail(inbox)
  /\ UNCHANGED <<device, client, failed>>

CamNext ==
  \/ \E c \in Calls : Begin(c)
  \/ Send \/ SendFails \/ Reply \/ InputFails \/ Execute

-----------------------------------------------------------------------------
(* Properties. *)

Values == Nat \cup {Bad}
Command_ == [cmd : {"read", "write", "cmos"}, tag : 0 .. TagMod - 1, reg : Regs,
             write : BOOLEAN, value : Values]

\* Every variable has its type: the tag stays within its 16 bits.
CamTypeOK ==
  /\ cam_tag \in 0 .. TagMod - 1 /\ k4w \in BOOLEAN /\ format \in {"rgb", "yuv", "ir"}
  /\ call \in Calls \cup {None} /\ stage \in {"idle", "send", "poll"}
  /\ stage # "idle" => chdr \in Command_
  /\ regs \in [Regs -> Nat] /\ inbox \in Seq(Command_)
  /\ \A i \in DOMAIN replies : replies[i].tag \in 0 .. TagMod - 1
  /\ failed \in 0 .. MaxFailed

\* However late the camera answers: as long as no transfer has failed, what a
\* call returns is so.  A read has the register's value, a write that is
\* reported has been made, all of its registers of it, and a flag is as it was set.
\* Zero is returned by the writes that do not go to the image sensor; one that does
\* returns the length of the reply, against libfreenect.h:670 and 698.
ResultsTrue ==
  LET c == result.call
      reads == Reads(c)
  IN
  stage = "idle" /\ failed = 0 /\ c # None =>
    /\ result.ok <=> ~Refused(c) /\ ~(c.name = "get_exposure" /\ format = "ir")
    /\ result.ok => \A r \in reads : c.name # "flag" => result.value = Returned(c, regs[r])
    /\ result.ok /\ c.name = "flag" => (regs["cmos_flags"] \div c.flag) % 2 = (IF c.on THEN 1 ELSE 0)
    /\ result.ok /\ c.name \in {"near", "mirror", "set_brightness"} => result.value = 0
    /\ result.ok /\ c.name \in {"flag", "set_exposure"} => result.value = Replied
    /\ result.ok /\ c.name = "near" =>
         <<regs["brightness"], regs["near"]>> = IF c.on THEN NearOn ELSE NearOff
    /\ result.ok /\ reads = {} =>
         \A i \in DOMAIN Writes(c, 0) : regs[Writes(c, 0)[i][1]] = Writes(c, 0)[i][2]

\* Whatever fails, and however commands and replies get out of step, the
\* brightness register only gets values in its range.
BrightnessInRange ==
  /\ regs["brightness"] \in Low .. High
  /\ \A i \in DOMAIN inbox : inbox[i].write /\ inbox[i].reg = "brightness" => inbox[i].value \in Low .. High

\* As long as no transfer has failed, freenect_set_flag() leaves all flags but
\* the one it is about alone.
OnlyNamedFlag ==
  [][regs'["cmos_flags"] # regs["cmos_flags"] /\ failed = 0 =>
       /\ call.name = "flag"
       /\ regs'["cmos_flags"] \in {regs["cmos_flags"] + call.flag, regs["cmos_flags"] - call.flag}]_cmdVars

\* Every call returns, if the camera answers what it gets and transfers end.
CamFairness ==
  /\ WF_cmdVars(Send) /\ WF_cmdVars(Execute) /\ WF_cmdVars(Reply)
CallsReturn == stage # "idle" ~> stage = "idle"

\* The commands' safety: their types, the range of the brightness whatever fails,
\* and results that are so as long as nothing has failed.
CamInv == CamTypeOK /\ BrightnessInRange /\ ResultsTrue
=============================================================================
