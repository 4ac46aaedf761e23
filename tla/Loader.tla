------------------------------- MODULE Loader -------------------------------
(***************************************************************************)
(* Uploading firmware to an audio device in its boot loader                 *)
(* (src/src/loader.c).  The image goes out in pages, a page as a command    *)
(* and chunks of data, and every page is answered; the answers are read     *)
(* and not looked at.  Then the device is told to launch it.                *)
(*                                                                          *)
(* Sizes are in units of a few bytes.  An image is [bytes, size]: what      *)
(* there is of it, and what its header declares.                            *)
(***************************************************************************)
EXTENDS Integers, Sequences, FiniteSetsExt

CONSTANTS
  PageSize, Chunk, Header,   \* 0x4000, 512 and the size of the header
  LoaderFaults               \* subset of {"bulk", "status"}

ASSUME LoaderAssumption ==
  /\ PageSize \in Nat \ {0} /\ Chunk \in Nat \ {0} /\ Header \in Nat \ {0}
  /\ LoaderFaults \subseteq {"bulk", "status"}

NoImage == [bytes |-> 0, size |-> 0]

VARIABLES
  fw,            \* the image on its way
  lstage,        \* "idle", "page", "chunk", "reply", "launch", "end"
  read,          \* length of the page
  bytes_sent,    \* of the page
  total,         \* total_bytes_sent
  audio_tag,
  lres,          \* the result
  \* the device
  mem,           \* addresses written, from base_addr on
  launched,
  refused        \* it has reported an error about a page

loaderHost == <<fw, lstage, read, bytes_sent, total, audio_tag, lres>>
loaderDevice == <<mem, launched, refused>>
loaderVars == <<loaderHost, loaderDevice>>

-----------------------------------------------------------------------------

\* upload_firmware(): the file is looked for in a list of places.
FirstFile(files) ==
  LET found == {i \in DOMAIN files : files[i] # NoImage}
  IN IF found = {} THEN NoImage ELSE files[Min(found)]

\* What of the image the next page takes: neither more than the header
\* declares, nor more than there is.
PageRead == Min({PageSize, fw.size - total, fw.bytes - total})

LoaderInit ==
  /\ fw = NoImage /\ lstage = "idle" /\ read = 0 /\ bytes_sent = 0 /\ total = 0
  /\ audio_tag = 0 /\ lres = 0
  /\ mem = {} /\ launched = FALSE /\ refused = FALSE

\* The variables of a call that has returned.
LoaderReset ==
  /\ fw' = NoImage /\ lstage' = "idle" /\ read' = 0 /\ bytes_sent' = 0 /\ total' = 0
  /\ audio_tag' = 0 /\ lres' = 0
  /\ mem' = {} /\ launched' = FALSE /\ refused' = FALSE

End(r) == lstage' = "end" /\ lres' = r

\* upload_firmware_from_memory(), for a device just switched on.  The error of
\* an image without a header is whatever is in errno, negated; that of a file
\* that is not there as well.
Upload(image) ==
  /\ lstage = "idle"
  /\ fw' = image /\ total' = 0 /\ read' = 0 /\ bytes_sent' = 0 /\ audio_tag' = 0
  /\ mem' = {} /\ launched' = FALSE /\ refused' = FALSE
  /\ IF image.bytes < Header THEN \E errno \in {0, 1} : End(-errno)
     ELSE lstage' = "page" /\ UNCHANGED lres

\* A bulk transfer fails, or moves less than it should.
BulkFails ==
  /\ lstage \in {"page", "chunk", "launch"} /\ "bulk" \in LoaderFaults
  /\ End(-1)
  /\ UNCHANGED <<fw, read, bytes_sent, total, audio_tag, loaderDevice>>

\* The command for the next page, or the end of the pages.
\* Mutants: an image that ends early is not noticed; the loop goes on until all
\* that is declared has been sent.
MutPageForever ==
  /\ lstage = "page" /\ (PageRead > 0 \/ total = fw.size)
  /\ lstage' = IF PageRead > 0 THEN "chunk" ELSE "launch"
  /\ read' = PageRead /\ bytes_sent' = 0
  /\ UNCHANGED <<fw, total, audio_tag, lres, loaderDevice>>
MutPage ==
  /\ lstage = "page"
  /\ IF PageRead <= 0
     THEN lstage' = "launch" /\ UNCHANGED <<read, bytes_sent, lres>>
     ELSE lstage' = "chunk" /\ read' = PageRead /\ bytes_sent' = 0 /\ UNCHANGED lres
  /\ UNCHANGED <<fw, total, audio_tag, loaderDevice>>
Page ==
  /\ lstage = "page"
  /\ IF PageRead <= 0
     THEN /\ IF total # fw.size THEN End(-1) ELSE lstage' = "launch" /\ UNCHANGED lres
          /\ UNCHANGED <<read, bytes_sent>>
     ELSE lstage' = "chunk" /\ read' = PageRead /\ bytes_sent' = 0 /\ UNCHANGED lres
  /\ UNCHANGED <<fw, total, audio_tag, loaderDevice>>

SendChunk ==
  /\ lstage = "chunk"
  /\ LET to_send == Min({Chunk, read - bytes_sent}) IN
     /\ mem' = mem \cup (total .. total + to_send - 1)
     /\ bytes_sent' = bytes_sent + to_send
     /\ total' = total + to_send
  /\ lstage' = IF bytes_sent' < read THEN "chunk" ELSE "reply"
  /\ UNCHANGED <<fw, read, audio_tag, lres, launched, refused>>

\* The answer to a page, which nobody looks at.
PageReply ==
  /\ lstage = "reply"
  /\ \/ UNCHANGED <<mem, refused>>
     \/ /\ "status" \in LoaderFaults
        /\ mem' = mem \ (total - read .. total - 1) /\ refused' = TRUE
  /\ audio_tag' = audio_tag + 1
  /\ lstage' = "page"
  /\ UNCHANGED <<fw, read, bytes_sent, total, lres, launched>>

\* The command to launch it, and its answer.
\* Mutant: the result of that answer is returned.
MutLaunch ==
  /\ lstage = "launch"
  /\ launched' = TRUE /\ audio_tag' = audio_tag + 1
  /\ \E r \in {0, -1} : End(r)
  /\ UNCHANGED <<fw, read, bytes_sent, total, mem, refused>>
Launch ==
  /\ lstage = "launch"
  /\ launched' = TRUE /\ audio_tag' = audio_tag + 1
  /\ End(0)
  /\ UNCHANGED <<fw, read, bytes_sent, total, mem, refused>>

LoaderStep == Page \/ SendChunk \/ PageReply \/ Launch

-----------------------------------------------------------------------------
(* Properties. *)

\* A device is only told to launch an image that it has been sent whole, page
\* by page without a gap; unless it had refused a page.  And nothing is sent
\* that is not in the image.
LaunchedWhole ==
  /\ launched => mem = 0 .. fw.size - 1 \/ refused
  /\ mem \subseteq 0 .. fw.bytes - 1

\* Success is reported exactly when the device was told to launch the image; an
\* image too small for a header aside, whose error may be 0.
UploadReported ==
  lstage = "end" => IF launched THEN lres = 0 ELSE lres < 0 \/ fw.bytes < Header

\* The upload's safety: only a whole image is launched, and only that is success.
LoaderInv == LaunchedWhole /\ UploadReported
=============================================================================
