---------------------------- MODULE DeviceProofs ----------------------------
(***************************************************************************)
(* For any bus, any images and any number of failures: an audio device is   *)
(* only told to launch firmware it has been sent whole, no handle is lost   *)
(* or shared, and what is opened is what was selected, of one Kinect.       *)
(***************************************************************************)
EXTENDS Devices, FiniteSetTheorems, WellFoundedInduction, TLAPS

DevSpec == DevInit /\ [][DevNext]_devVars

-----------------------------------------------------------------------------
(* The least member of a set, and the devices of a set in their order. *)

LEMMA MinFacts ==
  ASSUME NEW S \in SUBSET Nat, S # {}
  PROVE  Min(S) \in S /\ \A y \in S : Min(S) <= y
<1>1. \E x \in S : \A y \in S : ~(<<y, x>> \in OpToRel(<, Nat))
  BY WFMin, NatLessThanWellFounded, Zenon
<1>2. \A x, y \in S : x <= y \/ <<y, x>> \in OpToRel(<, Nat)
  <2> TAKE x, y \in S
  <2>1. x \in Nat /\ y \in Nat /\ (x <= y \/ y < x)  OBVIOUS
  <2>2. y < x => <<y, x>> \in OpToRel(<, Nat)
    BY <2>1, Zenon DEF OpToRel
  <2>. QED  BY <2>1, <2>2
<1>. QED  BY <1>1, <1>2 DEF Min

LEMMA MinOfThree ==
  ASSUME NEW a \in Int, NEW b \in Int, NEW c \in Int
  PROVE  /\ Min({a, b, c}) \in {a, b, c}
         /\ Min({a, b, c}) <= a /\ Min({a, b, c}) <= b /\ Min({a, b, c}) <= c
<1>1. \E x \in {a, b, c} : \A y \in {a, b, c} : x <= y
  <2>1. CASE a <= b /\ a <= c  BY <2>1
  <2>2. CASE b <= a /\ b <= c  BY <2>2
  <2>3. CASE c <= a /\ c <= b  BY <2>3
  <2>. QED  BY <2>1, <2>2, <2>3
<1>. QED  BY <1>1 DEF Min

LEMMA MinOfTwo ==
  ASSUME NEW a \in Int, NEW b \in Int
  PROVE  Min({a, b}) \in {a, b} /\ Min({a, b}) <= a /\ Min({a, b}) <= b
<1>1. {a, b} = {a, b, b}  OBVIOUS
<1>. QED  BY <1>1, MinOfThree

LEMMA InOrderType ==
  ASSUME NEW S \in SUBSET Nat, IsFiniteSet(S)
  PROVE  InOrder(S) \in Seq(S) /\ Len(InOrder(S)) = Cardinality(S)
<1> DEFINE n == Cardinality(S)
           below(d) == {e \in S : e < d}
           rank == [d \in S |-> Cardinality(below(d))]
<1>1. n \in Nat  BY FS_CardinalityType
<1>2. ASSUME NEW d \in S
      PROVE  IsFiniteSet(below(d)) /\ rank[d] \in 0 .. n - 1
  <2>1. IsFiniteSet(below(d)) /\ Cardinality(below(d)) \in Nat
    <3>1. below(d) \subseteq S  OBVIOUS
    <3>. QED  BY <3>1, FS_Subset, FS_CardinalityType
  <2>2. d \notin below(d) /\ below(d) \cup {d} \subseteq S  OBVIOUS
  <2>3. Cardinality(below(d) \cup {d}) = Cardinality(below(d)) + 1  BY <2>1, <2>2, FS_AddElement
  <2>4. Cardinality(below(d) \cup {d}) <= n  BY <2>2, FS_Subset
  <2>. QED  BY <1>1, <2>1, <2>3, <2>4
<1>3. ASSUME NEW d \in S, NEW e \in S, d < e
      PROVE  rank[d] < rank[e]
  <2>0. \A f \in S : f \in Nat  OBVIOUS
  <2>a. ~(d < d) /\ \A f \in S : f < d => f < e  BY <1>3, <2>0
  <2>1. d \notin below(d) /\ below(d) \cup {d} \subseteq below(e)  BY <1>3, <2>a
  <2>2. Cardinality(below(d) \cup {d}) = Cardinality(below(d)) + 1  BY <1>2, <2>1, FS_AddElement
  <2>3. Cardinality(below(d) \cup {d}) <= Cardinality(below(e))  BY <1>2, <2>1, FS_Subset
  <2>. QED  BY <1>2, <2>2, <2>3
<1>4. rank \in Injection(S, 0 .. n - 1)
  <2>1. rank \in [S -> 0 .. n - 1]  BY <1>2
  <2>2. \A d, e \in S : d # e => rank[d] # rank[e]  
    <3> SUFFICES ASSUME NEW d \in S, NEW e \in S, d # e PROVE rank[d] # rank[e]  OBVIOUS
    <3>0. d \in Nat /\ e \in Nat /\ rank[d] \in Int /\ rank[e] \in Int  BY <1>2
    <3>1. CASE d < e  BY <1>3, <3>0, <3>1
    <3>2. CASE e < d  BY <1>3, <3>0, <3>2
    <3>. QED  BY <3>0, <3>1, <3>2
  <2>. QED  BY <2>1, <2>2 DEF Injection, IsInjective
<1>5. IsFiniteSet(0 .. n - 1) /\ Cardinality(0 .. n - 1) = n
  BY <1>1, FS_Interval, n - 1 \in Int, 0 \in Int
<1>6. rank \in Surjection(S, 0 .. n - 1)
  BY <1>4, <1>5, FS_Injection
<1>7. \A i \in 1 .. n : \E d \in S : Cardinality(below(d)) = i - 1
  <2> TAKE i \in 1 .. n
  <2>1. i - 1 \in 0 .. n - 1  BY <1>1
  <2>. QED  BY <1>6, <2>1 DEF Surjection
<1>8. \A i \in 1 .. n : InOrder(S)[i] \in S
  BY <1>7 DEF InOrder
<1>9. InOrder(S) \in [1 .. n -> S]
  BY <1>8 DEF InOrder
<1>. QED  BY <1>1, <1>9
-----------------------------------------------------------------------------
(* The loader. *)

\* What is at the device is what has been sent, unless it refused a page; what
\* is still to be sent of a page is in the image.
LoaderBounds ==
  /\ fw \in Images /\ lstage \in {"idle", "page", "chunk", "reply", "launch", "end"}
  /\ read \in Nat /\ bytes_sent \in Nat /\ total \in Nat /\ lres \in Int
  /\ launched \in BOOLEAN /\ refused \in BOOLEAN
  /\ total <= fw.bytes /\ total <= fw.size
  /\ mem \subseteq 0 .. total - 1
  /\ ~refused => mem = 0 .. total - 1
  /\ lstage = "chunk" =>
       /\ bytes_sent < read /\ bytes_sent <= total
       /\ total + read - bytes_sent <= fw.size /\ total + read - bytes_sent <= fw.bytes
  /\ lstage = "reply" => read <= total
  /\ lstage = "launch" => total = fw.size
  /\ launched => total = fw.size /\ lstage = "end" /\ lres = 0
  /\ lstage = "end" /\ ~launched => lres < 0 \/ fw.bytes < Header

LEMMA BoundsGiveLoaderInv == LoaderBounds => LoaderInv
<1> SUFFICES ASSUME LoaderBounds PROVE LoaderInv  OBVIOUS
<1>1. LaunchedWhole
  BY SMT DEF LoaderBounds, LaunchedWhole, Images
<1>2. UploadReported
  BY DEF LoaderBounds, UploadReported
<1>. QED  BY <1>1, <1>2 DEF LoaderInv

LEMMA LoaderStarts == LoaderInit => LoaderBounds
<1> SUFFICES ASSUME LoaderInit PROVE LoaderBounds  OBVIOUS
<1>1. fw \in Images /\ fw.bytes = 0 /\ fw.size = 0
  BY DEF LoaderInit, NoImage, Images
<1>2. total = 0 /\ mem = {}  BY DEF LoaderInit
<1>3. mem = 0 .. total - 1  BY <1>2
<1>4. lstage = "idle" /\ ~launched /\ ~refused /\ read = 0 /\ bytes_sent = 0 /\ lres = 0
      /\ launched \in BOOLEAN /\ refused \in BOOLEAN
  BY DEF LoaderInit
<1>. QED  BY <1>1, <1>2, <1>3, <1>4 DEF LoaderBounds

LEMMA LoaderResets == LoaderReset => LoaderBounds'
<1> SUFFICES ASSUME LoaderReset PROVE LoaderBounds'  OBVIOUS
<1>1. fw' \in Images /\ fw'.bytes = 0 /\ fw'.size = 0
  BY DEF LoaderReset, NoImage, Images
<1>2. total' = 0 /\ mem' = {}  BY DEF LoaderReset
<1>3. mem' = 0 .. total' - 1  BY <1>2
<1>4. lstage' = "idle" /\ ~launched' /\ ~refused' /\ read' = 0 /\ bytes_sent' = 0 /\ lres' = 0
      /\ launched' \in BOOLEAN /\ refused' \in BOOLEAN
  BY DEF LoaderReset
<1>. QED  BY <1>1, <1>2, <1>3, <1>4 DEF LoaderBounds

LEMMA LoaderStutters == LoaderBounds /\ UNCHANGED loaderVars => LoaderBounds'
BY DEF LoaderBounds, loaderVars, loaderHost, loaderDevice

LEMMA UploadKeepsBounds ==
  ASSUME LoaderBounds, NEW image \in Images, Upload(image)
  PROVE  LoaderBounds'
<1>1. image.bytes \in Nat /\ image.size \in Nat  BY DEF Images
<1>2. lres' \in Int /\ lstage' \in {"page", "end"} /\ (lstage' = "end" => image.bytes < Header)
  BY DEF Upload, End, LoaderBounds
<1>3. /\ fw' = image /\ total' = 0 /\ read' = 0 /\ bytes_sent' = 0
      /\ mem' = {} /\ launched' = FALSE /\ refused' = FALSE
  BY DEF Upload
<1>4. mem' = 0 .. total' - 1  BY <1>3
<1>5. /\ fw' \in Images /\ fw'.bytes \in Nat /\ fw'.size \in Nat
      /\ lstage' = "end" => fw'.bytes < Header
  BY <1>1, <1>2, <1>3
<1>. HIDE DEF Images
<1>6. /\ total' = 0 /\ read' = 0 /\ bytes_sent' = 0 /\ launched' = FALSE /\ refused' = FALSE
      /\ mem' \subseteq 0 .. total' - 1
  BY <1>3, <1>4
<1>7. /\ lres' \in Int /\ lstage' \in {"idle", "page", "chunk", "reply", "launch", "end"}
      /\ lstage' \notin {"chunk", "reply", "launch"}
  BY <1>2
<1>8. total' <= fw'.bytes /\ total' <= fw'.size  BY <1>5, <1>6
<1>9. read' \in Nat /\ bytes_sent' \in Nat /\ total' \in Nat BY <1>6
<1>10. lstage' = "end" => fw'.bytes < Header BY <1>5
<1>11. mem' \subseteq 0 .. total' - 1 /\ (~refused' => mem' = 0 .. total' - 1) BY <1>4, <1>6
<1>12. launched' \in BOOLEAN /\ refused' \in BOOLEAN /\ ~launched' BY <1>6
<1>. QED  BY <1>8, <1>9, <1>10, <1>11, <1>12, <1>5, <1>7 DEF LoaderBounds

LEMMA PageReadFacts ==
  ASSUME LoaderBounds
  PROVE  /\ PageRead \in Int /\ PageRead <= PageSize
         /\ total + PageRead <= fw.size /\ total + PageRead <= fw.bytes
<1>1. PageSize \in Int /\ fw.size - total \in Int /\ fw.bytes - total \in Int
  BY LoaderAssumption DEF LoaderBounds, Images
<1> DEFINE a == fw.size - total
           b == fw.bytes - total
<1>2. PageRead \in {PageSize, a, b} /\ PageRead <= PageSize /\ PageRead <= a /\ PageRead <= b
  <2>. HIDE DEF a, b
  <2>1. Min({PageSize, a, b}) \in {PageSize, a, b} /\ Min({PageSize, a, b}) <= PageSize
        /\ Min({PageSize, a, b}) <= a /\ Min({PageSize, a, b}) <= b
    BY <1>1, MinOfThree DEF a, b
  <2>. QED  BY <2>1 DEF PageRead, a, b
<1>. QED  BY <1>1, <1>2 DEF LoaderBounds, Images

LEMMA LoaderStepKeepsBounds ==
  ASSUME LoaderBounds, LoaderStep \/ BulkFails
  PROVE  LoaderBounds'
<1>. USE DEF loaderVars, loaderHost, loaderDevice, End
<1>1. CASE BulkFails
  BY <1>1 DEF BulkFails, LoaderBounds, Images
<1>2. CASE Page
  <2>1. CASE PageRead <= 0
    BY <1>2, <2>1 DEF Page, LoaderBounds, Images
  <2>2. CASE PageRead > 0
    <3>1. read' = PageRead /\ bytes_sent' = 0 /\ lstage' = "chunk"
      BY <1>2, <2>2, PageReadFacts DEF Page
    <3>. QED  BY <1>2, <2>2, <3>1, PageReadFacts DEF Page, LoaderBounds, Images
  <2>. QED  BY <2>1, <2>2, PageReadFacts
<1>3. CASE SendChunk
  <2> DEFINE n == Min({Chunk, read - bytes_sent})
  <2>1. n \in Nat \ {0} /\ n <= read - bytes_sent
    <3>1. Chunk \in Nat \ {0} /\ read - bytes_sent \in Nat \ {0}
      BY <1>3, LoaderAssumption DEF SendChunk, LoaderBounds
    <3>. HIDE DEF n
    <3>2. n \in {Chunk, read - bytes_sent} /\ n <= read - bytes_sent
      BY <3>1, MinOfTwo DEF n
    <3>. QED  BY <3>1, <3>2
  <2>2. /\ mem' = mem \cup (total .. total + n - 1)
        /\ bytes_sent' = bytes_sent + n /\ total' = total + n
        /\ lstage = "chunk"
        /\ lstage' = IF bytes_sent' < read THEN "chunk" ELSE "reply"
        /\ UNCHANGED <<fw, read, lres, launched, refused>>
    BY <1>3 DEF SendChunk
  <2>. HIDE DEF n
  <2>3. /\ total' \in Nat /\ bytes_sent' \in Nat
        /\ total' <= fw.bytes /\ total' <= fw.size
        /\ lstage' = "chunk" => /\ bytes_sent' < read' /\ bytes_sent' <= total'
                                /\ total' + read' - bytes_sent' <= fw.size
                                /\ total' + read' - bytes_sent' <= fw.bytes
        /\ lstage' = "reply" => read' <= total'
    BY <2>1, <2>2 DEF LoaderBounds, Images
  <2>4. 0 .. total' - 1 = (0 .. total - 1) \cup (total .. total + n - 1)
    BY <2>1, <2>2 DEF LoaderBounds
  <2>. QED  BY <2>2, <2>3, <2>4 DEF LoaderBounds
<1>4. CASE PageReply
  BY <1>4 DEF PageReply, LoaderBounds, Images
<1>5. CASE Launch
  BY <1>5 DEF Launch, LoaderBounds, Images
<1>. QED  BY <1>1, <1>2, <1>3, <1>4, <1>5 DEF LoaderStep

-----------------------------------------------------------------------------
(* The devices on the bus. *)

LEMMA SequenceFacts ==
  ASSUME NEW S, NEW s \in Seq(S)
  PROVE  Len(s) \in Nat /\ DOMAIN s = 1 .. Len(s) /\ \A i \in DOMAIN s : s[i] \in S
OBVIOUS

LEMMA SubsequenceType ==
  ASSUME NEW S, NEW T, S \subseteq T, NEW s \in Seq(S)
  PROVE  s \in Seq(T)
OBVIOUS

LEMMA DevicesAreNumbers == D \in SUBSET Nat /\ IsFiniteSet(D) /\ Nothing \notin D
<1>1. D = 1 .. Len(Bus) /\ Len(Bus) \in Nat
  BY DevicesAssumption, SequenceFacts DEF D
<1>2. IsFiniteSet(1 .. Len(Bus))  BY <1>1, FS_Interval
<1>. QED  BY <1>1, <1>2 DEF Nothing

LEMMA BusFacts ==
  /\ \A d \in D : Bus[d] \in [kind : {"old camera", "new camera", "motor", "audio"},
                              hub : Nat, bus : Nat, serial : STRING]
  /\ \A d, e \in D : Bus[d].hub = Bus[e].hub => Bus[d].bus = Bus[e].bus
BY DevicesAssumption, SequenceFacts DEF D

LEMMA CamerasAreDevices == Cameras \in Seq(D)
<1>1. CameraSet \subseteq D /\ CameraSet \in SUBSET Nat /\ IsFiniteSet(CameraSet)
  BY DevicesAreNumbers, FS_Subset DEF CameraSet
<1>2. Cameras \in Seq(CameraSet)
  BY <1>1, InOrderType DEF Cameras
<1>. QED  BY <1>1, <1>2, SubsequenceType

\* fnusb_find_sibling_device() finds a device of the kind asked for in the list,
\* at the camera's hub if there is one.
LEMMA SiblingFacts ==
  ASSUME NEW camera \in D, NEW k, NEW devs \in SUBSET D
  PROVE  LET s == FindSibling(camera, k, devs) IN
         /\ s \in devs \cup {Nothing}
         /\ s # Nothing => Bus[s].kind = k
         /\ (\E e \in devs : Bus[e].kind = k /\ Bus[e].hub = Bus[camera].hub) =>
              s # Nothing /\ Bus[s].hub = Bus[camera].hub
<1> DEFINE all == {d \in devs : Bus[d].kind = k}
           sameBus == {d \in all : Bus[d].bus = Bus[camera].bus}
           sameHub == {d \in sameBus : Bus[d].hub = Bus[camera].hub}
           Only(t) == IF Cardinality(t) = 1 THEN Min(t) ELSE Nothing
           s == FindSibling(camera, k, devs)
<1>1. /\ sameHub \subseteq sameBus /\ sameBus \subseteq all /\ all \subseteq devs
      /\ all \in SUBSET Nat /\ sameBus \in SUBSET Nat /\ sameHub \in SUBSET Nat
  BY DevicesAreNumbers
<1>2. s = IF sameHub # {} THEN Min(sameHub)
          ELSE IF Only(sameBus) # Nothing THEN Only(sameBus) ELSE Only(all)
  BY DEF FindSibling
<1>3. ASSUME NEW t \in SUBSET all
      PROVE  Only(t) \in t \cup {Nothing}
  <2>1. CASE Cardinality(t) = 1
    <3>1. t # {}  BY <2>1, FS_EmptySet
    <3>2. t \in SUBSET Nat  BY <1>1
    <3>. QED  BY <2>1, <3>1, <3>2, MinFacts
  <2>2. CASE Cardinality(t) # 1  BY <2>2
  <2>. QED  BY <2>1, <2>2
<1>4. sameHub # {} => Min(sameHub) \in sameHub  BY <1>1, MinFacts
<1>5. Only(sameBus) \in sameBus \cup {Nothing} /\ Only(all) \in all \cup {Nothing}
  BY <1>1, <1>3
<1>. HIDE DEF Only
<1>6. s \in all \cup {Nothing}
  BY <1>1, <1>2, <1>4, <1>5
<1>7. (\E e \in devs : Bus[e].kind = k /\ Bus[e].hub = Bus[camera].hub) => sameHub # {}
  BY BusFacts
<1>8. sameHub # {} => s # Nothing /\ Bus[s].hub = Bus[camera].hub
  BY <1>1, <1>2, <1>4, DevicesAreNumbers
<1>. HIDE DEF s
<1>9. /\ s \in devs \cup {Nothing}
      /\ s # Nothing => Bus[s].kind = k
      /\ (\E e \in devs : Bus[e].kind = k /\ Bus[e].hub = Bus[camera].hub) =>
              s # Nothing /\ Bus[s].hub = Bus[camera].hub
  BY <1>6, <1>7, <1>8
<1>. QED  BY <1>9 DEF s

LEMMA FirstFileIsImage == FirstFile(Files) \in Images
<1> DEFINE found == {i \in DOMAIN Files : Files[i] # NoImage}
<1>1. NoImage \in Images  BY DEF NoImage, Images
<1>2. found \in SUBSET Nat /\ found \subseteq DOMAIN Files
  <2>1. DOMAIN Files = 1 .. Len(Files)  BY DevicesAssumption, SequenceFacts
  <2>. QED  BY <2>1
<1>3. CASE found = {}  BY <1>1, <1>3 DEF FirstFile
<1>4. CASE found # {}
  <2>1. Min(found) \in DOMAIN Files  BY <1>2, <1>4, MinFacts
  <2>2. FirstFile(Files) = Files[Min(found)]  BY <1>4 DEF FirstFile
  <2>. HIDE DEF found, Images
  <2>3. Files \in Seq(Images)  BY DevicesAssumption
  <2>4. \A i \in DOMAIN Files : Files[i] \in Images  BY <2>3, SequenceFacts
  <2>. QED  BY <2>1, <2>2, <2>4
<1>. QED  BY <1>3, <1>4

-----------------------------------------------------------------------------
(* The handles. *)

DevRec == [camera : D \cup {Nothing}, motor : D \cup {Nothing}, audio : D \cup {Nothing},
           found : D, alt : BOOLEAN, does_alt : BOOLEAN, devs : SUBSET D,
           waits : D \cup {Nothing}, reset : D \cup {Nothing},
           wants : SUBSET Sub, after : BOOLEAN]

\* What the open under way holds, and what the context's devices hold.
Holding == IF ostage = "idle" THEN {} ELSE Held(pdev)
Linked(d) == \E i \in DOMAIN linked : d \in Held(linked[i])

\* An audio device that may have been opened while another one was waited for.
Stray(d) == Bus[d].kind = "audio" /\ \E e \in uploaded : Bus[e].serial # Bus[d].serial
Owners(d) == IF claimed[d] THEN 1 ELSE 0

NotShared ==
  /\ \A i, j \in DOMAIN linked : i # j => Held(linked[i]) \cap Held(linked[j]) = {}
  /\ \A i \in DOMAIN linked : Holding \cap Held(linked[i]) = {}
ClaimedByOne == \A d \in D : claimed[d] <=> d \in Holding \/ Linked(d)
HandlesCounted ==
  \A d \in D : handles[d] >= Owners(d) /\ (handles[d] = Owners(d) \/ Stray(d))
HandleFacts ==
  /\ handles \in [D -> Nat] /\ claimed \in [D -> BOOLEAN]
  /\ NotShared /\ ClaimedByOne /\ HandlesCounted

\* An open step that leaves the bus alone.
LEMMA HandlesStay ==
  ASSUME HandleFacts, UNCHANGED <<handles, claimed, linked>>, Holding' = Holding,
         uploaded \subseteq uploaded'
  PROVE  HandleFacts'
<1>1. NotShared'
  BY DEF HandleFacts, NotShared, Held
<1>2. ClaimedByOne'
  BY DEF HandleFacts, ClaimedByOne, Linked, Held
<1>3. HandlesCounted'
  BY DEF HandleFacts, HandlesCounted, Owners, Stray
<1>. QED  BY <1>1, <1>2, <1>3 DEF HandleFacts

\* The open takes a device that was free; others may be opened and forgotten.
LEMMA HandlesTaken ==
  ASSUME HandleFacts, NEW it \in D, ~claimed[it], NEW strays \in SUBSET D, it \notin strays,
         \A d \in strays : Stray(d),
         handles' = [d \in D |-> handles[d] + (IF d \in strays \cup {it} THEN 1 ELSE 0)],
         claimed' = [d \in D |-> claimed[d] \/ d = it],
         linked' = linked, Holding' = Holding \cup {it}, uploaded' = uploaded
  PROVE  HandleFacts'
<1>1. ~Linked(it) /\ it \notin Holding
  BY DEF HandleFacts, ClaimedByOne
<1>2. NotShared'
  BY <1>1 DEF HandleFacts, NotShared, Held, Linked
<1>3. ClaimedByOne'
  BY DEF HandleFacts, ClaimedByOne, Linked, Held
<1>4. ASSUME NEW d \in D
      PROVE  handles'[d] >= Owners(d)' /\ (handles'[d] = Owners(d)' \/ Stray(d)')
  <2>1. /\ handles[d] \in Nat /\ handles[d] >= Owners(d)
        /\ handles[d] = Owners(d) \/ Stray(d)
        /\ Stray(d)' = Stray(d)
        /\ Owners(d) \in Nat
    BY DEF HandleFacts, HandlesCounted, Stray, Owners
  <2>2. CASE d = it
    <3>1. Owners(d) = 0 /\ Owners(d)' = 1 /\ handles'[d] = handles[d] + 1
      BY <2>2 DEF Owners
    <3>. QED  BY <2>1, <3>1
  <2>3. CASE d \in strays
    <3>1. Owners(d)' = Owners(d) /\ handles'[d] = handles[d] + 1
      BY <2>3 DEF Owners
    <3>. QED  BY <2>1, <2>3, <3>1
  <2>4. CASE d \notin strays /\ d # it
    <3>1. handles'[d] = handles[d]  BY <2>1, <2>4
    <3>2. Owners(d)' = Owners(d)  BY <2>4 DEF Owners
    <3>. QED  BY <2>1, <3>1, <3>2
  <2>. QED  BY <2>2, <2>3, <2>4
<1>5. handles' \in [D -> Nat] /\ claimed' \in [D -> BOOLEAN]
  BY DEF HandleFacts
<1>. QED  BY <1>2, <1>3, <1>4, <1>5 DEF HandleFacts, HandlesCounted

\* Nothing is taken, but others may be opened and forgotten.
LEMMA HandlesLost ==
  ASSUME HandleFacts, NEW strays \in SUBSET D, \A d \in strays : Stray(d),
         handles' = [d \in D |-> handles[d] + (IF d \in strays THEN 1 ELSE 0)],
         claimed' = claimed, linked' = linked, Holding' = Holding, uploaded' = uploaded
  PROVE  HandleFacts'
<1>1. NotShared'
  BY DEF HandleFacts, NotShared, Held
<1>2. ClaimedByOne'
  BY DEF HandleFacts, ClaimedByOne, Linked, Held
<1>3. ASSUME NEW d \in D
      PROVE  handles'[d] >= Owners(d)' /\ (handles'[d] = Owners(d)' \/ Stray(d)')
  <2>1. /\ handles[d] \in Nat /\ handles[d] >= Owners(d)
        /\ handles[d] = Owners(d) \/ Stray(d)
        /\ Stray(d)' = Stray(d)
        /\ Owners(d) \in Nat /\ Owners(d)' = Owners(d)
    BY DEF HandleFacts, HandlesCounted, Stray, Owners
  <2>2. CASE d \in strays
    <3>1. handles'[d] = handles[d] + 1  BY <2>2
    <3>. QED  BY <2>1, <2>2, <3>1
  <2>3. CASE d \notin strays
    <3>1. handles'[d] = handles[d]  BY <2>1, <2>3
    <3>. QED  BY <2>1, <3>1
  <2>. QED  BY <2>2, <2>3
<1>4. handles' \in [D -> Nat] /\ claimed' \in [D -> BOOLEAN]
  BY DEF HandleFacts
<1>. QED  BY <1>1, <1>2, <1>3, <1>4 DEF HandleFacts, HandlesCounted

\* Handles are closed that somebody held; whatever is held after that was held
\* before, by the same or by a device that takes the open's place.
LEMMA HandlesClosed ==
  ASSUME HandleFacts, NEW closed \in SUBSET D,
         \A d \in closed : d \in Holding \/ Linked(d),
         handles' = [d \in D |-> IF d \in closed THEN handles[d] - 1 ELSE handles[d]],
         claimed' = [d \in D |-> claimed[d] /\ d \notin closed],
         NotShared',
         \A d \in D : (d \in Holding \/ Linked(d))' <=> (d \in Holding \/ Linked(d)) /\ d \notin closed,
         uploaded \subseteq uploaded'
  PROVE  HandleFacts'
<1>1. ASSUME NEW d \in D
      PROVE  /\ claimed'[d] <=> (d \in Holding \/ Linked(d))'
             /\ handles'[d] \in Nat /\ handles'[d] >= Owners(d)'
             /\ handles'[d] = Owners(d)' \/ Stray(d)'
  <2>1. /\ handles[d] \in Nat /\ handles[d] >= Owners(d)
        /\ handles[d] = Owners(d) \/ Stray(d)
        /\ Stray(d) => Stray(d)'
        /\ claimed[d] <=> d \in Holding \/ Linked(d)
    BY DEF HandleFacts, HandlesCounted, Stray, ClaimedByOne
  <2>2. CASE d \in closed
    <3>1. claimed[d] /\ ~claimed'[d] /\ handles'[d] = handles[d] - 1
      BY <2>1, <2>2
    <3>2. Owners(d) = 1 /\ Owners(d)' = 0
      BY <3>1 DEF Owners
    <3>. QED  BY <2>1, <2>2, <3>1, <3>2
  <2>3. CASE d \notin closed
    <3>1. claimed'[d] = claimed[d] /\ handles'[d] = handles[d]
      BY <2>3 DEF HandleFacts
    <3>2. Owners(d)' = Owners(d)
      BY <3>1 DEF Owners
    <3>. QED  BY <2>1, <2>3, <3>1, <3>2
  <2>. QED  BY <2>2, <2>3
<1>2. handles' \in [D -> Nat] /\ claimed' \in [D -> BOOLEAN]
  <2>1. DOMAIN handles' = D /\ handles' = [d \in D |-> handles'[d]]  OBVIOUS
  <2>. QED  BY <1>1, <2>1 DEF HandleFacts
<1>. QED  BY <1>1, <1>2 DEF HandleFacts, HandlesCounted, ClaimedByOne

-----------------------------------------------------------------------------
(* Each step of the client, the bus and the library. *)

\* The stages of an open: what is not open yet.
StageHolds ==
  /\ ostage = "camera" => pdev.camera = Nothing
  /\ ostage \in {"camera", "motor"} => pdev.motor = Nothing
  /\ ostage \in {"camera", "motor", "audio", "wait"} => pdev.audio = Nothing
  /\ ostage = "upload" => pdev.audio \notin {Nothing, pdev.camera, pdev.motor}
  /\ ostage = "wait" => pdev.waits \in uploaded

\* What became of the flags that were selected.
FlagFacts ==
  /\ swapped \in BOOLEAN
  /\ enabled \subseteq selected \cup {"audio"} /\ selected \ enabled \subseteq {"motor"}
  /\ "audio" \in enabled \ selected => "motor" \in selected /\ swapped
  /\ "motor" \in selected \ enabled => "audio" \in enabled /\ swapped

DevFacts ==
  /\ DevTypeOK /\ linked \in Seq(DevRec) /\ (ostage # "idle" => pdev \in DevRec)
  /\ uploaded \subseteq D /\ fw_ptr \in Images
  /\ StageHolds /\ FlagFacts /\ HandleFacts /\ LoaderBounds

LEMMA DevStarts == DevInit => DevFacts
<1> SUFFICES ASSUME DevInit PROVE DevFacts  OBVIOUS
<1>. USE DEF DevInit
<1>1. DevTypeOK
  <2>1. mode \in [D -> {"boot", "restarting", "running"}]
    <3>1. mode \in [D -> {"boot", "running"}]  OBVIOUS
    <3>. QED  BY <3>1
  <2>2. handles \in [D -> Nat] /\ claimed \in [D -> BOOLEAN]  OBVIOUS
  <2>3. tries \in 0 .. MaxTries /\ faults \in 0 .. MaxFaults
    <3>1. MaxTries \in Nat /\ MaxFaults \in Nat  BY DevicesAssumption
    <3>. QED  BY <3>1
  <2>. QED  BY <2>1, <2>2, <2>3 DEF DevTypeOK, Sub
<1>2. linked \in Seq(DevRec) /\ DOMAIN linked = {} /\ ostage = "idle"
  <2>1. linked = <<>> /\ ostage = "idle"  OBVIOUS
  <2>. QED  BY <2>1
<1>3. uploaded \subseteq D /\ fw_ptr \in Images  BY DEF NoImage, Images
<1>4. StageHolds  BY DEF StageHolds
<1>5. FlagFacts  BY DEF FlagFacts
<1>6. HandleFacts
  <2>1. handles \in [D -> Nat] /\ claimed \in [D -> BOOLEAN]
        /\ \A d \in D : handles[d] = 0 /\ claimed[d] = FALSE
    OBVIOUS
  <2>2. Holding = {} /\ \A d : ~Linked(d)  BY <1>2 DEF Holding, Linked
  <2>. QED  BY <1>2, <2>1, <2>2 DEF HandleFacts, NotShared, ClaimedByOne, HandlesCounted, Owners
<1>7. LoaderBounds  BY LoaderStarts
<1>. QED  BY <1>1, <1>2, <1>3, <1>4, <1>5, <1>6, <1>7 DEF DevFacts

\* What all steps that leave the bus, the list and what the open holds alone
\* have still to show.
LEMMA BusStays ==
  ASSUME DevFacts, UNCHANGED <<handles, claimed, linked>>, Holding' = Holding,
         uploaded' = uploaded, LoaderBounds',
         enabled' \subseteq Sub, selected' \subseteq Sub, FlagFacts', fw_ptr' \in Images,
         ostage' \in {"idle", "camera", "motor", "audio", "upload", "wait", "last"},
         tries' \in 0 .. MaxTries, faults' \in 0 .. MaxFaults,
         mode' \in [D -> {"boot", "restarting", "running"}],
         ostage' # "idle" => pdev' \in DevRec, StageHolds'
  PROVE  DevFacts'
<1>1. HandleFacts'  BY HandlesStay DEF DevFacts
<1>2. DevTypeOK'  BY DEF DevFacts, DevTypeOK
<1>. QED  BY <1>1, <1>2 DEF DevFacts

LEMMA SelectKeeps ==
  ASSUME DevFacts, NEW subdevs, Select(subdevs)
  PROVE  DevFacts'
<1>. USE DEF Select, opening, bus
<1>1. FlagFacts' /\ enabled' \subseteq Sub /\ selected' \subseteq Sub
  BY DEF FlagFacts, Known
<1>2. Holding' = Holding  BY DEF Holding
<1>3. LoaderBounds'  BY LoaderStutters DEF DevFacts
<1>4. StageHolds'  BY DEF StageHolds
<1>. QED  BY <1>1, <1>2, <1>3, <1>4, BusStays DEF DevFacts, DevTypeOK

LEMMA SetFirmwareKeeps ==
  ASSUME DevFacts, NEW image \in Memory, SetFirmware(image)
  PROVE  DevFacts'
<1>. USE DEF SetFirmware, opening, bus
<1>1. FlagFacts'  BY DEF DevFacts, FlagFacts
<1>2. Holding' = Holding  BY DEF Holding
<1>3. LoaderBounds'  BY LoaderStutters DEF DevFacts
<1>4. StageHolds'  BY DEF StageHolds
<1>5. fw_ptr' \in Images  BY DevicesAssumption
<1>. QED  BY <1>1, <1>2, <1>3, <1>4, <1>5, BusStays DEF DevFacts, DevTypeOK

LEMMA RestartKeeps ==
  ASSUME DevFacts, NEW d \in D, Restart(d)
  PROVE  DevFacts'
<1>. USE DEF Restart, opening, context
<1>1. FlagFacts'  BY DEF DevFacts, FlagFacts
<1>2. Holding' = Holding  BY DEF Holding
<1>3. LoaderBounds'  BY LoaderStutters DEF DevFacts
<1>4. StageHolds'  BY DEF DevFacts, StageHolds
<1>5. mode' \in [D -> {"boot", "restarting", "running"}]  BY DEF DevFacts, DevTypeOK
<1>. QED  BY <1>1, <1>2, <1>3, <1>4, <1>5, BusStays DEF DevFacts, DevTypeOK

LEMMA UploadingKeeps ==
  ASSUME DevFacts, Uploading \/ UploadFails
  PROVE  DevFacts'
<1>. USE DEF Uploading, UploadFails, opening, context, bus
<1>1. FlagFacts'  BY DEF DevFacts, FlagFacts
<1>2. Holding' = Holding  BY DEF Holding
<1>3. LoaderBounds'  BY LoaderStepKeepsBounds DEF DevFacts
<1>4. StageHolds'  BY DEF DevFacts, StageHolds
<1>. QED  BY <1>1, <1>2, <1>3, <1>4, BusStays DEF DevFacts, DevTypeOK

LEMMA GiveUpKeeps ==
  ASSUME DevFacts, GiveUp
  PROVE  DevFacts'
<1>. USE DEF GiveUp, context, bus
<1>1. FlagFacts'  BY DEF DevFacts, FlagFacts
<1>2. Holding' = Holding  BY DEF Holding
<1>3. LoaderBounds'  BY LoaderStutters DEF DevFacts
<1>4. StageHolds'  BY DEF DevFacts, StageHolds
<1>. QED  BY <1>1, <1>2, <1>3, <1>4, BusStays DEF DevFacts, DevTypeOK

\* A new device holds nothing, and its camera is one of those on the bus.
LEMMA OpenAtFacts ==
  ASSUME DevFacts, ostage = "idle", NEW index \in Nat, NEW asked, OpenAt(index, asked)
  PROVE  /\ Holding' = Holding
         /\ ostage' \in {"idle", "camera"}
         /\ ostage' # "idle" => pdev' \in DevRec
         /\ StageHolds'
<1>. USE DEF OpenAt
<1>1. CASE index < Len(Cameras)
  <2>1. Len(Cameras) \in Nat /\ index + 1 \in DOMAIN Cameras
    BY <1>1, CamerasAreDevices, SequenceFacts
  <2>2. Cameras[index + 1] \in D
    BY <2>1, CamerasAreDevices, SequenceFacts
  <2>3. Present \in SUBSET D  BY DEF Present
  <2>4. pdev' = [camera |-> Nothing, motor |-> Nothing, audio |-> Nothing,
                 found |-> Cameras[index + 1], alt |-> FALSE, does_alt |-> FALSE,
                 devs |-> Present, waits |-> Nothing, reset |-> Nothing,
                 wants |-> selected, after |-> swapped] /\ ostage' = "camera"
    BY <1>1 DEF NewDevice
  <2>5. pdev' \in DevRec  BY <2>2, <2>3, <2>4 DEF DevRec, DevFacts, DevTypeOK, FlagFacts
  <2>6. Held(pdev') = {}  BY <2>4 DEF Held
  <2>7. Holding' = Holding  BY <2>4, <2>6 DEF Holding, Held
  <2>. QED  BY <2>4, <2>5, <2>7 DEF StageHolds
<1>2. CASE ~(index < Len(Cameras))
  BY <1>2 DEF Holding, StageHolds
<1>. QED  BY <1>1, <1>2

LEMMA OpenKeeps ==
  ASSUME DevFacts, NEW index \in Nat, Open(index)
  PROVE  DevFacts'
<1>. USE DEF Open, context, bus
<1>0. OpenAt(index, "none") /\ ostage = "idle"  OBVIOUS
<1>1. FlagFacts'  BY <1>0 DEF DevFacts, FlagFacts, OpenAt
<1>3. LoaderBounds'  BY <1>0, LoaderStutters DEF DevFacts, OpenAt
<1>4. UNCHANGED <<context, tries, bus, selected, swapped, uploaded, faults>>  BY <1>0 DEF OpenAt
<1>. QED  BY <1>0, <1>1, <1>3, <1>4, OpenAtFacts, BusStays DEF DevFacts, DevTypeOK

LEMMA OpenBySerialKeeps ==
  ASSUME DevFacts, NEW serial, OpenBySerial(serial)
  PROVE  DevFacts'
<1>1. PICK skipped \in {{}} \cup {{Cameras[i]} : i \in {j \in DOMAIN Cameras : faults < MaxFaults}} :
        LET list == Listed(skipped)
            at == {i \in DOMAIN list : list[i] = serial}
        IN
        /\ faults' = faults + (IF skipped = {} THEN 0 ELSE 1)
        /\ IF at # {} THEN OpenAt(IndexOf(at), serial)
           ELSE /\ oresult' = [oresult EXCEPT !.ok = FALSE, !.asked = serial]
                /\ UNCHANGED <<context, pdev, ostage, tries, bus, selected, swapped, uploaded, loaderVars>>
  BY DEF OpenBySerial
<1> DEFINE list == Listed(skipped)
           at == {i \in DOMAIN list : list[i] = serial}
           there == {d \in CameraSet : Bus[d].serial # "none" /\ d \notin skipped}
<1>2. faults' \in 0 .. MaxFaults
  <2>1. skipped = {} \/ faults < MaxFaults  BY <1>1
  <2>2. MaxFaults \in Nat /\ faults \in 0 .. MaxFaults  BY DevicesAssumption DEF DevFacts, DevTypeOK
  <2>. QED  BY <1>1, <2>1, <2>2
<1>3. at \in SUBSET Nat /\ \A i \in at : i >= 1
  <2>1. there \in SUBSET Nat /\ IsFiniteSet(there)
    <3>1. there \subseteq D  BY DEF CameraSet
    <3>. QED  BY <3>1, DevicesAreNumbers, FS_Subset
  <2>2. Len(InOrder(there)) \in Nat /\ DOMAIN InOrder(there) = 1 .. Len(InOrder(there))
    BY <2>1, InOrderType, SequenceFacts
  <2>3. DOMAIN list = DOMAIN InOrder(there)  BY DEF Listed
  <2>4. at \subseteq DOMAIN list  OBVIOUS
  <2>5. \A n \in Nat : 1 .. n \subseteq Nat /\ \A i \in 1 .. n : i >= 1  OBVIOUS
  <2>. HIDE DEF at, list, there
  <2>6. at \subseteq 1 .. Len(InOrder(there))  BY <2>2, <2>3, <2>4
  <2>. QED  BY <2>2, <2>5, <2>6
<1>4. CASE at # {}
  <2>1. IndexOf(at) \in Nat
    <3>1. Min(at) \in at  BY <1>3, <1>4, MinFacts
    <3>. QED  BY <1>3, <3>1 DEF IndexOf
  <2>2. OpenAt(IndexOf(at), serial) /\ ostage = "idle"  BY <1>1, <1>4 DEF OpenBySerial
  <2>3. /\ Holding' = Holding
        /\ ostage' \in {"idle", "camera"}
        /\ ostage' # "idle" => pdev' \in DevRec
        /\ StageHolds'
    BY <2>1, <2>2, OpenAtFacts
  <2>4. UNCHANGED <<context, tries, bus, selected, swapped, uploaded, loaderVars>>  BY <2>2 DEF OpenAt
  <2>5. FlagFacts'  BY <2>4 DEF DevFacts, FlagFacts, context
  <2>6. LoaderBounds'  BY <2>4, LoaderStutters DEF DevFacts
  <2>. QED  BY <1>2, <2>3, <2>4, <2>5, <2>6, BusStays DEF DevFacts, DevTypeOK, context, bus
<1>5. CASE at = {}
  <2>1. UNCHANGED <<context, pdev, ostage, tries, bus, selected, swapped, uploaded, loaderVars>>
    BY <1>1, <1>5
  <2>2. FlagFacts'  BY <2>1 DEF DevFacts, FlagFacts, context
  <2>3. LoaderBounds'  BY <2>1, LoaderStutters DEF DevFacts
  <2>4. Holding' = Holding /\ StageHolds'  BY <2>1 DEF DevFacts, Holding, StageHolds
  <2>. QED  BY <1>2, <2>1, <2>2, <2>3, <2>4, BusStays DEF DevFacts, DevTypeOK, context, bus
<1>. QED  BY <1>4, <1>5

\* What is opened for the first time becomes the open's.
LEMMA OpensAsKeeps ==
  ASSUME DevFacts, NEW d \in D, NEW k \in {"camera", "motor", "audio"}, NEW more \in DevRec,
         OpensAs(k, d, more), ostage # "idle", ostage' # "idle",
         Held(more) = Held(pdev), more[k] = Nothing, linked' = linked, uploaded' = uploaded
  PROVE  /\ HandleFacts' /\ pdev' \in DevRec /\ pdev' = [more EXCEPT ![k] = d]
         /\ UNCHANGED <<oresult, faults>> /\ d \notin Held(pdev)
<1>. USE DEF OpensAs
<1>1. d # Nothing  BY DevicesAreNumbers
<1>2. pdev' \in DevRec  BY DEF DevRec
<1>3. Held(pdev') = Held(pdev) \cup {d}
  <2>1. CASE k = "camera"
    BY <1>1, <2>1 DEF Held, DevRec
  <2>2. CASE k = "motor"
    BY <1>1, <2>2 DEF Held, DevRec
  <2>3. CASE k = "audio"
    BY <1>1, <2>3 DEF Held, DevRec
  <2>. QED  BY <2>1, <2>2, <2>3
<1>4. Holding' = Holding \cup {d}  BY <1>3 DEF Holding, Held
<1>5. handles \in [D -> Nat] /\ claimed \in [D -> BOOLEAN]  BY DEF DevFacts, HandleFacts
<1>6. handles' = [e \in D |-> handles[e] + (IF e \in {} \cup {d} THEN 1 ELSE 0)]
  <2>1. \A e \in D : handles[e] + (IF e \in {} \cup {d} THEN 1 ELSE 0)
                       = IF e = d THEN handles[e] + 1 ELSE handles[e]
    <3> TAKE e \in D
    <3>1. handles[e] \in Nat  BY <1>5
    <3>2. CASE e = d  BY <3>2
    <3>3. CASE e # d  BY <3>1, <3>3
    <3>. QED  BY <3>2, <3>3
  <2>. QED  BY <1>5, <2>1
<1>7. claimed' = [e \in D |-> claimed[e] \/ e = d]
  BY <1>5
<1>8. HandleFacts'
  <2>1. HandleFacts /\ ~claimed[d]  BY DEF DevFacts
  <2>2. {} \in SUBSET D /\ d \notin {} /\ \A e \in {} : Stray(e)  OBVIOUS
  <2>. QED  BY <1>4, <1>6, <1>7, <2>1, <2>2, HandlesTaken
<1>9. d \notin Held(pdev)
  BY DEF DevFacts, HandleFacts, ClaimedByOne, Holding
<1>. QED  BY <1>2, <1>8, <1>9

\* The label failure: everything the open holds is closed.
LEMMA FailureKeeps ==
  ASSUME DevFacts, ostage # "idle", Failure, linked' = linked, uploaded' = uploaded
  PROVE  /\ HandleFacts' /\ ostage' = "idle" /\ StageHolds'
<1>. USE DEF Failure, CloseSubdevices
<1>1. Holding = Held(pdev) /\ Holding' = {}  BY DEF Holding
<1>2. Held(pdev) \in SUBSET D  BY DEF DevFacts, Held, DevRec
<1>3. \A d : Linked(d)' <=> Linked(d)
  BY DEF Linked, Held
<1>4. NotShared'
  BY <1>1 DEF DevFacts, HandleFacts, NotShared, Held
<1>5. \A d \in Held(pdev) : ~Linked(d)
  BY <1>1 DEF DevFacts, HandleFacts, NotShared, Linked
<1>6. /\ handles' = [d \in D |-> IF d \in Held(pdev) THEN handles[d] - 1 ELSE handles[d]]
      /\ claimed' = [d \in D |-> claimed[d] /\ d \notin Held(pdev)]
  BY DEF ToClose
<1>7. HandleFacts
  BY DEF DevFacts
<1>8. \A d \in D : (d \in Holding \/ Linked(d))' <=> (d \in Holding \/ Linked(d)) /\ d \notin Held(pdev)
  BY <1>1, <1>3, <1>5
<1>9. HandleFacts'
  BY <1>1, <1>2, <1>4, <1>6, <1>7, <1>8, HandlesClosed
<1>. QED  BY <1>9 DEF StageHolds

LEMMA CannotOpenKeeps ==
  ASSUME DevFacts, ostage # "idle", NEW d, CannotOpen(d), linked' = linked, uploaded' = uploaded
  PROVE  /\ HandleFacts' /\ ostage' = "idle" /\ StageHolds' /\ faults' \in 0 .. MaxFaults
<1>1. MaxFaults \in Nat /\ faults \in 0 .. MaxFaults  BY DevicesAssumption DEF DevFacts, DevTypeOK
<1>2. faults' \in 0 .. MaxFaults /\ Failure  BY <1>1 DEF CannotOpen, CallFails
<1>. QED  BY <1>2, FailureKeeps

\* What every step of an open has to show.
LEMMA OpenStep ==
  ASSUME DevFacts, HandleFacts', LoaderBounds', linked' = linked, uploaded' \subseteq D,
         FlagFacts', UNCHANGED <<fw_ptr, selected>>, enabled' \subseteq Sub,
         ostage' \in {"idle", "camera", "motor", "audio", "upload", "wait", "last"},
         tries' \in 0 .. MaxTries, faults' \in 0 .. MaxFaults,
         mode' \in [D -> {"boot", "restarting", "running"}],
         ostage' # "idle" => pdev' \in DevRec, StageHolds'
  PROVE  DevFacts'
<1>1. DevTypeOK'  BY DEF DevFacts, DevTypeOK, HandleFacts
<1>. QED  BY <1>1 DEF DevFacts

\* What is reset for a camera is an audio device, at its hub if one is there.
LEMMA KeptAliveFacts ==
  ASSUME pdev \in DevRec, NEW camera \in D, NEW a \in KeptAlive(camera)
  PROVE  /\ a \in D \cup {Nothing}
         /\ a # Nothing => Bus[a].kind = "audio"
         /\ (\E e \in pdev.devs : Bus[e].kind = "audio" /\ Bus[e].hub = Bus[camera].hub) =>
              a # Nothing /\ Bus[a].hub = Bus[camera].hub
<1>1. pdev.devs \in SUBSET D /\ a = FindSibling(camera, "audio", pdev.devs)
  BY DEF KeptAlive, DevRec
<1>. QED  BY <1>1, SiblingFacts

LEMMA OpenCameraKeeps ==
  ASSUME DevFacts, OpenCamera
  PROVE  DevFacts'
<1> DEFINE d == pdev.found
           newer == Bus[d].kind = "new camera"
<1>0. ostage = "camera" /\ pdev \in DevRec /\ d \in D  BY DEF OpenCamera, DevFacts, DevRec
<1>1. UNCHANGED <<fw_ptr, linked, alive, tries, mode, selected, uploaded, loaderVars, opens>>
  BY DEF OpenCamera
<1>2. LoaderBounds'  BY <1>1, LoaderStutters DEF DevFacts
<1>3. \/ enabled' = enabled /\ swapped' = swapped
      \/ enabled' = Swap(enabled) /\ swapped' = TRUE
  BY DEF OpenCamera, DevFacts, FlagFacts
<1>4. FlagFacts' /\ enabled' \subseteq Sub
  BY <1>1, <1>3 DEF DevFacts, DevTypeOK, FlagFacts, Swap, Sub
<1>5. CASE UNCHANGED <<pdev, handles, claimed, faults>> /\ ostage' = "motor"
  <2>1. HandleFacts'
    BY <1>0, <1>1, <1>5, HandlesStay DEF DevFacts, Holding
  <2>2. StageHolds'  BY <1>0, <1>5 DEF DevFacts, StageHolds
  <2>. QED  BY <1>0, <1>1, <1>2, <1>4, <1>5, <2>1, <2>2, OpenStep DEF DevFacts, DevTypeOK
<1>6. ASSUME NEW a \in D \cup {Nothing}, ostage' = "motor",
             OpensAs("camera", d, [pdev EXCEPT !.does_alt = newer, !.reset = a])
      PROVE  DevFacts'
  <2> DEFINE more == [pdev EXCEPT !.does_alt = newer, !.reset = a]
  <2>1. /\ more \in DevRec /\ Held(more) = Held(pdev) /\ more.camera = Nothing
        /\ more.motor = Nothing /\ more.audio = Nothing
    BY <1>0 DEF DevRec, Held, DevFacts, StageHolds
  <2>. HIDE DEF more
  <2>2. OpensAs("camera", d, more)  BY <1>6 DEF more
  <2>3. HandleFacts' /\ pdev' \in DevRec /\ pdev' = [more EXCEPT !.camera = d] /\ faults' = faults
    BY <1>0, <1>1, <1>6, <2>1, <2>2, OpensAsKeeps
  <2>4. StageHolds'  BY <1>0, <1>6, <2>1, <2>3 DEF StageHolds, DevRec
  <2>. QED  BY <1>0, <1>1, <1>2, <1>4, <1>6, <2>3, <2>4, OpenStep DEF DevFacts, DevTypeOK
<1>7. CASE CannotOpen(d)
  <2>1. HandleFacts' /\ ostage' = "idle" /\ StageHolds' /\ faults' \in 0 .. MaxFaults
    BY <1>0, <1>1, <1>7, CannotOpenKeeps
  <2>. QED  BY <1>0, <1>1, <1>2, <1>4, <2>1, OpenStep DEF DevFacts, DevTypeOK
<1>8. {Nothing} \cup KeptAlive(d) \subseteq D \cup {Nothing}
  BY <1>0, KeptAliveFacts DEF DevRec
<1>. QED  BY <1>5, <1>6, <1>7, <1>8 DEF OpenCamera

LEMMA OpenMotorKeeps ==
  ASSUME DevFacts, OpenMotor
  PROVE  DevFacts'
<1> DEFINE d == FindSibling(pdev.found, "motor", pdev.devs)
<1>0. ostage = "motor" /\ pdev \in DevRec /\ pdev.found \in D /\ pdev.devs \in SUBSET D
  BY DEF OpenMotor, DevFacts, DevRec
<1>1. UNCHANGED <<context, tries, mode, selected, swapped, uploaded, loaderVars, opens>>
  BY DEF OpenMotor
<1>2. LoaderBounds'  BY <1>1, LoaderStutters DEF DevFacts
<1>3. UNCHANGED <<enabled, fw_ptr, linked>>  BY <1>1 DEF context
<1>4. FlagFacts' /\ enabled' \subseteq Sub
  BY <1>1, <1>3 DEF DevFacts, DevTypeOK, FlagFacts
<1>5. d \in D \cup {Nothing}
  BY <1>0, SiblingFacts
<1>. HIDE DEF d
<1>6. CASE UNCHANGED <<pdev, handles, claimed, faults>> /\ ostage' = "audio"
  <2>1. HandleFacts'
    BY <1>0, <1>1, <1>3, <1>6, HandlesStay DEF DevFacts, Holding
  <2>2. StageHolds'  BY <1>0, <1>6 DEF DevFacts, StageHolds
  <2>. QED  BY <1>0, <1>1, <1>2, <1>3, <1>4, <1>6, <2>1, <2>2, OpenStep DEF DevFacts, DevTypeOK
<1>7. CASE d # Nothing /\ OpensAs("motor", d, pdev) /\ ostage' = "audio"
  <2>1. pdev.motor = Nothing /\ pdev.audio = Nothing  BY <1>0 DEF DevFacts, StageHolds
  <2>2. HandleFacts' /\ pdev' \in DevRec /\ pdev' = [pdev EXCEPT !.motor = d] /\ faults' = faults
    BY <1>0, <1>1, <1>3, <1>5, <1>7, <2>1, OpensAsKeeps
  <2>3. StageHolds'  BY <1>0, <1>7, <2>1, <2>2 DEF StageHolds, DevRec
  <2>. QED  BY <1>0, <1>1, <1>2, <1>3, <1>4, <1>7, <2>2, <2>3, OpenStep DEF DevFacts, DevTypeOK
<1>8. CASE Failure /\ UNCHANGED faults
  <2>1. HandleFacts' /\ ostage' = "idle" /\ StageHolds'
    BY <1>0, <1>1, <1>3, <1>8, FailureKeeps
  <2>. QED  BY <1>0, <1>1, <1>2, <1>3, <1>4, <1>8, <2>1, OpenStep DEF DevFacts, DevTypeOK
<1>9. CASE CannotOpen(d)
  <2>1. HandleFacts' /\ ostage' = "idle" /\ StageHolds' /\ faults' \in 0 .. MaxFaults
    BY <1>0, <1>1, <1>3, <1>9, CannotOpenKeeps
  <2>. QED  BY <1>0, <1>1, <1>2, <1>3, <1>4, <2>1, OpenStep DEF DevFacts, DevTypeOK
<1>. QED  BY <1>6, <1>7, <1>8, <1>9 DEF OpenMotor, d

LEMMA OpenAudioKeeps ==
  ASSUME DevFacts, OpenAudio
  PROVE  DevFacts'
<1> DEFINE d == FindSibling(pdev.found, "audio", pdev.devs)
<1>0. ostage = "audio" /\ pdev \in DevRec /\ pdev.found \in D /\ pdev.devs \in SUBSET D
      /\ pdev.audio = Nothing
  BY DEF OpenAudio, DevFacts, DevRec, StageHolds
<1>1. UNCHANGED <<context, tries, mode, selected, swapped, uploaded, opens>>
  BY DEF OpenAudio
<1>2. LoaderBounds /\ uploaded \subseteq D  BY DEF DevFacts
<1>3. UNCHANGED <<enabled, fw_ptr, linked>>  BY <1>1 DEF context
<1>4. FlagFacts' /\ enabled' \subseteq Sub
  BY <1>1, <1>3 DEF DevFacts, DevTypeOK, FlagFacts
<1>5. d \in D \cup {Nothing}
  BY <1>0, SiblingFacts
<1>. HIDE DEF d
<1>6. CASE UNCHANGED <<pdev, handles, claimed, faults, loaderVars>> /\ ostage' = "last"
  <2>1. HandleFacts'
    BY <1>0, <1>1, <1>3, <1>6, HandlesStay DEF DevFacts, Holding
  <2>2. StageHolds'  BY <1>6 DEF StageHolds
  <2>3. LoaderBounds'  BY <1>2, <1>6, LoaderStutters
  <2>. QED  BY <1>0, <1>1, <1>3, <1>4, <1>6, <2>1, <2>2, <2>3, OpenStep DEF DevFacts, DevTypeOK
<1>7. CASE d # Nothing /\ OpensAs("audio", d, [pdev EXCEPT !.alt = pdev.does_alt])
           /\ ostage' = "last" /\ UNCHANGED loaderVars
  <2> DEFINE more == [pdev EXCEPT !.alt = pdev.does_alt]
  <2>1. more \in DevRec /\ Held(more) = Held(pdev) /\ more.audio = Nothing
    BY <1>0 DEF DevRec, Held
  <2>. HIDE DEF more
  <2>2. OpensAs("audio", d, more)  BY <1>7 DEF more
  <2>3. HandleFacts' /\ pdev' \in DevRec /\ faults' = faults
    BY <1>0, <1>1, <1>3, <1>5, <1>7, <2>1, <2>2, OpensAsKeeps
  <2>4. StageHolds'  BY <1>7 DEF StageHolds
  <2>5. LoaderBounds'  BY <1>2, <1>7, LoaderStutters
  <2>. QED  BY <1>0, <1>1, <1>3, <1>4, <1>7, <2>3, <2>4, <2>5, OpenStep DEF DevFacts, DevTypeOK
<1>8. CASE /\ d # Nothing /\ OpensAs("audio", d, pdev) /\ ostage' = "upload"
           /\ Upload(IF fw_ptr # NoImage THEN fw_ptr ELSE FirstFile(Files))
  <2>1. HandleFacts' /\ pdev' \in DevRec /\ pdev' = [pdev EXCEPT !.audio = d] /\ faults' = faults
        /\ d \notin Held(pdev)
    BY <1>0, <1>1, <1>3, <1>5, <1>8, OpensAsKeeps
  <2>2. StageHolds'  BY <1>0, <1>8, <2>1 DEF StageHolds, DevRec, Held
  <2>3. (IF fw_ptr # NoImage THEN fw_ptr ELSE FirstFile(Files)) \in Images
    BY FirstFileIsImage DEF DevFacts
  <2>4. LoaderBounds'  BY <1>2, <1>8, <2>3, UploadKeepsBounds
  <2>. QED  BY <1>0, <1>1, <1>3, <1>4, <1>8, <2>1, <2>2, <2>4, OpenStep DEF DevFacts, DevTypeOK
<1>9. CASE Failure /\ UNCHANGED <<faults, loaderVars>>
  <2>1. HandleFacts' /\ ostage' = "idle" /\ StageHolds'
    BY <1>0, <1>1, <1>3, <1>9, FailureKeeps
  <2>2. LoaderBounds'  BY <1>2, <1>9, LoaderStutters
  <2>. QED  BY <1>0, <1>1, <1>3, <1>4, <1>9, <2>1, <2>2, OpenStep DEF DevFacts, DevTypeOK
<1>10. CASE CannotOpen(d) /\ UNCHANGED loaderVars
  <2>1. HandleFacts' /\ ostage' = "idle" /\ StageHolds' /\ faults' \in 0 .. MaxFaults
    BY <1>0, <1>1, <1>3, <1>10, CannotOpenKeeps
  <2>2. LoaderBounds'  BY <1>2, <1>10, LoaderStutters
  <2>. QED  BY <1>0, <1>1, <1>3, <1>4, <2>1, <2>2, OpenStep DEF DevFacts, DevTypeOK
<1>. QED  BY <1>6, <1>7, <1>8, <1>9, <1>10 DEF OpenAudio, d

LEMMA UploadedKeeps ==
  ASSUME DevFacts, Uploaded
  PROVE  DevFacts'
<1> DEFINE d == pdev.audio
<1>0. ostage = "upload" /\ pdev \in DevRec /\ d \in D /\ d \notin {pdev.camera, pdev.motor}
  BY DEF Uploaded, DevFacts, StageHolds, DevRec
<1>1. UNCHANGED <<context, selected, swapped, faults, opens>> /\ LoaderReset  BY DEF Uploaded
<1>2. LoaderBounds'  BY <1>1, LoaderResets
<1>3. UNCHANGED <<enabled, fw_ptr, linked>>  BY <1>1 DEF context
<1>4. FlagFacts' /\ enabled' \subseteq Sub
  BY <1>1, <1>3 DEF DevFacts, DevTypeOK, FlagFacts
<1>5. mode' \in [D -> {"boot", "restarting", "running"}]
  BY DEF Uploaded, DevFacts, DevTypeOK
<1>6. 0 \in 0 .. MaxTries
  <2>1. MaxTries \in Nat  BY DevicesAssumption
  <2>. QED  BY <2>1
<1>7. CASE lres < 0
  <2>1. Failure /\ UNCHANGED <<tries, uploaded>>  BY <1>7 DEF Uploaded
  <2>2. HandleFacts' /\ ostage' = "idle" /\ StageHolds'
    BY <1>0, <1>3, <2>1, FailureKeeps
  <2>. QED  BY <1>1, <1>2, <1>3, <1>4, <1>5, <2>1, <2>2, OpenStep DEF DevFacts, DevTypeOK
<1>8. CASE ~(lres < 0)
  <2>1. /\ handles' = [handles EXCEPT ![d] = @ - 1] /\ claimed' = [claimed EXCEPT ![d] = FALSE]
        /\ pdev' = [pdev EXCEPT !.audio = Nothing, !.waits = d]
        /\ ostage' = "wait" /\ tries' = 0 /\ uploaded' = uploaded \cup {d}
    BY <1>8 DEF Uploaded
  <2>2. handles \in [D -> Nat] /\ claimed \in [D -> BOOLEAN] /\ HandleFacts
    BY DEF DevFacts, HandleFacts
  <2>3. /\ handles' = [e \in D |-> IF e \in {d} THEN handles[e] - 1 ELSE handles[e]]
        /\ claimed' = [e \in D |-> claimed[e] /\ e \notin {d}]
    BY <2>1, <2>2
  <2>4. pdev' \in DevRec /\ Held(pdev') = Held(pdev) \ {d} /\ d \in Held(pdev)
    BY <1>0, <2>1, DevicesAreNumbers DEF DevRec, Held
  <2>5. Holding' = Holding \ {d} /\ d \in Holding
    BY <1>0, <2>1, <2>4 DEF Holding, Held
  <2>6. \A e : Linked(e)' <=> Linked(e)  BY <1>3 DEF Linked, Held
  <2>7. NotShared'  BY <1>3, <2>2, <2>5 DEF HandleFacts, NotShared, Held
  <2>8. ~Linked(d)  BY <2>2, <2>5 DEF HandleFacts, NotShared, Linked
  <2>9. /\ {d} \in SUBSET D /\ \A e \in {d} : e \in Holding \/ Linked(e)
        /\ \A e \in D : (e \in Holding \/ Linked(e))' <=> (e \in Holding \/ Linked(e)) /\ e \notin {d}
        /\ uploaded \subseteq uploaded'
    BY <1>0, <2>1, <2>5, <2>6, <2>8
  <2>10. HandleFacts'  BY <2>2, <2>3, <2>7, <2>9, HandlesClosed
  <2>11. StageHolds'  BY <1>0, <2>1 DEF StageHolds, DevRec
  <2>12. uploaded' \subseteq D  BY <1>0, <2>1 DEF DevFacts
  <2>. QED
    BY <1>1, <1>2, <1>3, <1>4, <1>5, <1>6, <2>1, <2>4, <2>10, <2>11, <2>12, OpenStep
    DEF DevFacts, DevTypeOK
<1>. QED  BY <1>7, <1>8

LEMMA LookKeeps ==
  ASSUME DevFacts, Look
  PROVE  DevFacts'
<1> DEFINE audio == {d \in D : Bus[d].kind = "audio" /\ mode[d] # "restarting"}
           serial == Bus[pdev.waits].serial
           found == {d \in audio : Bus[d].serial = serial /\ mode[d] = "running" /\ ~claimed[d]}
           seen(it) == {d \in audio : it = Nothing \/ d <= it}
           other(it) == {d \in seen(it) : Bus[d].serial # serial}
<1>0. ostage = "wait" /\ pdev \in DevRec /\ pdev.audio = Nothing /\ pdev.waits \in uploaded
      /\ tries < MaxTries
  BY DEF Look, DevFacts, StageHolds
<1>1. UNCHANGED <<context, oresult, mode, selected, swapped, uploaded, loaderVars, opens>>
      /\ tries' = tries + 1
  BY DEF Look
<1>2. LoaderBounds'  BY <1>1, LoaderStutters DEF DevFacts
<1>3. UNCHANGED <<enabled, fw_ptr, linked>>  BY <1>1 DEF context
<1>4. FlagFacts' /\ enabled' \subseteq Sub
  BY <1>1, <1>3 DEF DevFacts, DevTypeOK, FlagFacts
<1>5. PICK it \in found \cup {Nothing} : \E opened \in SUBSET other(it) :
        /\ IF opened = other(it) /\ found \cap seen(it) \subseteq {it} THEN UNCHANGED faults
           ELSE CallFails
        /\ handles' = [d \in D |-> handles[d] + (IF d \in opened \cup {it} THEN 1 ELSE 0)]
        /\ claimed' = [d \in D |-> claimed[d] \/ d = it]
        /\ pdev' = IF it = Nothing THEN pdev
                   ELSE [pdev EXCEPT !.audio = it, !.alt = pdev.does_alt]
        /\ ostage' = IF it = Nothing THEN "wait" ELSE "last"
  BY DEF Look
<1>6. PICK opened \in SUBSET other(it) :
        /\ UNCHANGED faults \/ CallFails
        /\ handles' = [d \in D |-> handles[d] + (IF d \in opened \cup {it} THEN 1 ELSE 0)]
        /\ claimed' = [d \in D |-> claimed[d] \/ d = it]
        /\ pdev' = IF it = Nothing THEN pdev
                   ELSE [pdev EXCEPT !.audio = it, !.alt = pdev.does_alt]
        /\ ostage' = IF it = Nothing THEN "wait" ELSE "last"
  BY <1>5
<1>7. tries' \in 0 .. MaxTries /\ faults' \in 0 .. MaxFaults
  <2>1. MaxTries \in Nat /\ MaxFaults \in Nat  BY DevicesAssumption
  <2>2. tries \in 0 .. MaxTries /\ faults \in 0 .. MaxFaults  BY DEF DevFacts, DevTypeOK
  <2>. QED  BY <1>0, <1>1, <1>6, <2>1, <2>2 DEF CallFails
<1>8. opened \in SUBSET D /\ \A d \in opened : Stray(d)
  BY <1>0 DEF Stray
<1>9. it \in D => ~claimed[it] /\ it \notin opened
  BY DevicesAreNumbers
<1>10. it \in D \cup {Nothing}  OBVIOUS
<1>11. HandleFacts  BY DEF DevFacts
<1>. HIDE DEF found, seen, other
<1>12. CASE it = Nothing
  <2>1. ostage' = "wait" /\ pdev' = pdev  BY <1>6, <1>12
  <2>2. Nothing \notin D /\ handles \in [D -> Nat] /\ claimed \in [D -> BOOLEAN]
    BY <1>11, DevicesAreNumbers DEF HandleFacts
  <2>3. handles' = [d \in D |-> handles[d] + (IF d \in opened THEN 1 ELSE 0)]
    BY <1>6, <1>12, <2>2
  <2>4. claimed' = claimed
    BY <1>6, <1>12, <2>2
  <2>5. Holding' = Holding  BY <1>0, <2>1 DEF Holding
  <2>6. HandleFacts'  BY <1>1, <1>3, <1>8, <1>11, <2>3, <2>4, <2>5, HandlesLost
  <2>7. StageHolds'  BY <1>0, <1>1, <2>1 DEF StageHolds
  <2>. QED
    BY <1>0, <1>1, <1>2, <1>3, <1>4, <1>7, <2>1, <2>6, <2>7, OpenStep DEF DevFacts, DevTypeOK
<1>13. CASE it # Nothing
  <2>1. ostage' = "last" /\ pdev' = [pdev EXCEPT !.audio = it, !.alt = pdev.does_alt] /\ it \in D
    BY <1>6, <1>10, <1>13
  <2>2. pdev' \in DevRec /\ Held(pdev') = Held(pdev) \cup {it}
    BY <1>0, <1>13, <2>1 DEF DevRec, Held
  <2>3. Holding' = Holding \cup {it}  BY <1>0, <2>1, <2>2 DEF Holding, Held
  <2>4. HandleFacts'  BY <1>1, <1>3, <1>6, <1>8, <1>9, <1>11, <2>1, <2>3, HandlesTaken
  <2>5. StageHolds'  BY <2>1 DEF StageHolds
  <2>. QED
    BY <1>0, <1>1, <1>2, <1>3, <1>4, <1>7, <2>1, <2>2, <2>4, <2>5, OpenStep DEF DevFacts, DevTypeOK
<1>. QED  BY <1>12, <1>13

LEMMA LastKeeps ==
  ASSUME DevFacts, Last
  PROVE  DevFacts'
<1> DEFINE dev == IF AllOpen THEN pdev
                  ELSE [pdev EXCEPT !.camera = Nothing, !.motor = Nothing, !.audio = Nothing]
           closed == IF AllOpen THEN {} ELSE Held(pdev)
<1>0. ostage = "last" /\ pdev \in DevRec /\ linked \in Seq(DevRec)
  BY DEF Last, DevFacts
<1>1. UNCHANGED <<enabled, fw_ptr, alive, tries, mode, selected, swapped, uploaded, loaderVars, opens>>
      /\ ostage' = "idle" /\ linked' = Append(linked, dev)
  BY DEF Last
<1>2. LoaderBounds'  BY <1>1, LoaderStutters DEF DevFacts
<1>3. FlagFacts' /\ enabled' \subseteq Sub
  BY <1>1 DEF DevFacts, DevTypeOK, FlagFacts
<1>4. dev \in DevRec /\ Held(dev) = Held(pdev) \ closed /\ closed \in SUBSET D
  BY <1>0 DEF DevRec, Held
<1>5. HandleFacts /\ handles \in [D -> Nat] /\ claimed \in [D -> BOOLEAN]
  BY DEF DevFacts, HandleFacts
<1>6. /\ handles' = [d \in D |-> IF d \in closed THEN handles[d] - 1 ELSE handles[d]]
      /\ claimed' = [d \in D |-> claimed[d] /\ d \notin closed]
  <2>1. CASE AllOpen
    BY <1>5, <2>1 DEF Last
  <2>2. CASE ~AllOpen
    BY <2>2 DEF Last, CloseSubdevices, ToClose
  <2>. QED  BY <2>1, <2>2
<1>7. faults' \in 0 .. MaxFaults
  <2>1. MaxFaults \in Nat /\ faults \in 0 .. MaxFaults  BY DevicesAssumption DEF DevFacts, DevTypeOK
  <2>. QED  BY <2>1 DEF Last, CallFails
<1>8. Holding = Held(pdev) /\ Holding' = {} /\ closed \subseteq Holding
  BY <1>0, <1>1 DEF Holding
<1>. HIDE DEF dev, closed
<1>9. /\ linked' \in Seq(DevRec) /\ Len(linked) \in Nat
      /\ DOMAIN linked = 1 .. Len(linked) /\ DOMAIN linked' = 1 .. Len(linked) + 1
      /\ \A i \in 1 .. Len(linked) : linked'[i] = linked[i]
      /\ linked'[Len(linked) + 1] = dev
  BY <1>0, <1>1, <1>4
<1>10. DOMAIN linked' = DOMAIN linked \cup {Len(linked) + 1}
       /\ \A i \in DOMAIN linked : i # Len(linked) + 1
  BY <1>9
<1>11. \A e : Linked(e)' <=> Linked(e) \/ e \in Held(dev)
  BY <1>9, <1>10 DEF Linked, Held
<1>12. NotShared'
  <2>1. \A i \in DOMAIN linked : Held(dev) \cap Held(linked[i]) = {}
    BY <1>4, <1>5, <1>8 DEF HandleFacts, NotShared
  <2>2. ASSUME NEW i \in DOMAIN linked', NEW j \in DOMAIN linked', i # j
        PROVE  Held(linked'[i]) \cap Held(linked'[j]) = {}
    <3>1. CASE i \in DOMAIN linked /\ j \in DOMAIN linked
      BY <1>5, <1>9, <2>2, <3>1 DEF HandleFacts, NotShared
    <3>2. CASE i = Len(linked) + 1 /\ j \in DOMAIN linked
      BY <1>9, <2>1, <3>2
    <3>3. CASE j = Len(linked) + 1 /\ i \in DOMAIN linked
      BY <1>9, <2>1, <3>3
    <3>. QED  BY <1>10, <2>2, <3>1, <3>2, <3>3
  <2>. QED  BY <1>8, <2>2 DEF NotShared, Held
<1>13. /\ \A d \in closed : d \in Holding \/ Linked(d)
       /\ \A d \in closed : ~Linked(d)
  BY <1>5, <1>8 DEF HandleFacts, NotShared, Linked
<1>14. \A d \in D : (d \in Holding \/ Linked(d))' <=> (d \in Holding \/ Linked(d)) /\ d \notin closed
  BY <1>4, <1>8, <1>11, <1>13
<1>15. HandleFacts'
  BY <1>1, <1>4, <1>5, <1>6, <1>12, <1>13, <1>14, HandlesClosed
<1>16. DevTypeOK'
  BY <1>1, <1>3, <1>7, <1>15 DEF DevFacts, DevTypeOK, HandleFacts
<1>. QED  BY <1>1, <1>2, <1>3, <1>9, <1>15, <1>16 DEF DevFacts, StageHolds

LEMMA CloseKeeps ==
  ASSUME DevFacts, NEW i \in DOMAIN linked, Close(i)
  PROVE  DevFacts'
<1> DEFINE closed == Held(linked[i])
           from(j) == IF j < i THEN j ELSE j + 1
<1>0. ostage = "idle" /\ linked \in Seq(DevRec) /\ linked[i] \in DevRec
      /\ Len(linked) \in Nat /\ DOMAIN linked = 1 .. Len(linked)
  BY DEF Close, DevFacts
<1>1. UNCHANGED <<enabled, fw_ptr, alive, opening, mode, selected, swapped, uploaded, faults, loaderVars, opens>>
      /\ linked' = [j \in 1 .. Len(linked) - 1 |-> linked[IF j < i THEN j ELSE j + 1]]
  BY DEF Close
<1>2. LoaderBounds'  BY <1>1, LoaderStutters DEF DevFacts
<1>3. UNCHANGED <<pdev, ostage, tries>>  BY <1>1 DEF opening
<1>4. FlagFacts' /\ enabled' \subseteq Sub
  BY <1>1 DEF DevFacts, DevTypeOK, FlagFacts
<1>5. HandleFacts /\ handles \in [D -> Nat] /\ claimed \in [D -> BOOLEAN] /\ closed \in SUBSET D
  BY <1>0 DEF DevFacts, HandleFacts, DevRec, Held
<1>6. /\ handles' = [d \in D |-> IF d \in closed THEN handles[d] - 1 ELSE handles[d]]
      /\ claimed' = [d \in D |-> claimed[d] /\ d \notin closed]
  BY DEF Close, CloseSubdevices, ToClose
<1>7. Holding = {} /\ Holding' = {}
  BY <1>0, <1>3 DEF Holding
<1>8. /\ i \in 1 .. Len(linked) /\ DOMAIN linked' = 1 .. Len(linked) - 1
      /\ \A j \in DOMAIN linked' : from(j) \in DOMAIN linked /\ from(j) # i
                                  /\ linked'[j] = linked[from(j)]
      /\ \A j, k \in DOMAIN linked' : j # k => from(j) # from(k)
      /\ \A j \in DOMAIN linked : j # i => \E k \in DOMAIN linked' : from(k) = j
  <2>1. i \in 1 .. Len(linked) /\ DOMAIN linked' = 1 .. Len(linked) - 1  BY <1>0, <1>1
  <2>2. ASSUME NEW j \in DOMAIN linked'
        PROVE  from(j) \in DOMAIN linked /\ from(j) # i /\ linked'[j] = linked[from(j)]
    BY <1>0, <1>1, <2>1
  <2>3. \A j, k \in DOMAIN linked' : j # k => from(j) # from(k)  BY <2>1
  <2>4. ASSUME NEW j \in DOMAIN linked, j # i
        PROVE  \E k \in DOMAIN linked' : from(k) = j
    <3>1. CASE j < i
      <4>1. j \in DOMAIN linked' /\ from(j) = j  BY <1>0, <2>1, <3>1
      <4>. QED  BY <4>1
    <3>2. CASE j > i
      <4>1. j - 1 \in DOMAIN linked' /\ from(j - 1) = j  BY <1>0, <2>1, <3>2
      <4>. QED  BY <4>1
    <3>. QED  BY <1>0, <2>1, <2>4, <3>1, <3>2
  <2>. QED  BY <2>1, <2>2, <2>3, <2>4
<1>. HIDE DEF from
<1>9. linked' \in Seq(DevRec)
  <2>1. Len(linked) - 1 \in Nat  BY <1>0, <1>8
  <2>2. \A j \in DOMAIN linked' : linked'[j] \in DevRec  BY <1>0, <1>8
  <2>3. linked' \in [1 .. Len(linked) - 1 -> DevRec]  BY <1>1, <1>8, <2>2
  <2>. QED  BY <2>1, <2>3
<1>10. \A e : Linked(e)' <=> \E j \in DOMAIN linked : j # i /\ e \in Held(linked[j])
  BY <1>8 DEF Linked, Held
<1>11. \A j, k \in DOMAIN linked : j # k => Held(linked[j]) \cap Held(linked[k]) = {}
  BY <1>5 DEF HandleFacts, NotShared
<1>12. NotShared'
  <2>1. \A j, k \in DOMAIN linked' : j # k => Held(linked'[j]) \cap Held(linked'[k]) = {}
    BY <1>8, <1>11
  <2>. QED  BY <1>7, <2>1 DEF NotShared, Held
<1>13. \A d \in closed : d \in Holding \/ Linked(d)
  BY DEF Linked
<1>14. \A d \in D : (d \in Holding \/ Linked(d))' <=> (d \in Holding \/ Linked(d)) /\ d \notin closed
  <2>1. \A d : (\E j \in DOMAIN linked : j # i /\ d \in Held(linked[j])) <=> Linked(d) /\ d \notin closed
    BY <1>11 DEF Linked
  <2>. QED  BY <1>7, <1>10, <2>1
<1>. HIDE DEF closed
<1>15. HandleFacts'
  BY <1>1, <1>5, <1>6, <1>12, <1>13, <1>14, HandlesClosed
<1>16. StageHolds'  BY <1>0, <1>3 DEF StageHolds
<1>17. DevTypeOK'
  BY <1>1, <1>3, <1>4, <1>15 DEF DevFacts, DevTypeOK, HandleFacts
<1>. QED  BY <1>0, <1>1, <1>2, <1>3, <1>4, <1>9, <1>15, <1>16, <1>17 DEF DevFacts

LEMMA ShutdownKeeps ==
  ASSUME DevFacts, Shutdown
  PROVE  DevFacts'
<1> DEFINE closed == UNION {Held(linked[i]) : i \in DOMAIN linked}
<1>0. ostage = "idle" /\ linked \in Seq(DevRec) /\ \A i \in DOMAIN linked : linked[i] \in DevRec
  BY DEF Shutdown, DevFacts
<1>1. UNCHANGED <<enabled, fw_ptr, opening, mode, selected, swapped, uploaded, faults, loaderVars, opens>>
      /\ linked' = <<>>
  BY DEF Shutdown
<1>2. LoaderBounds'  BY <1>1, LoaderStutters DEF DevFacts
<1>3. UNCHANGED <<pdev, ostage, tries>>  BY <1>1 DEF opening
<1>4. FlagFacts' /\ enabled' \subseteq Sub
  BY <1>1 DEF DevFacts, DevTypeOK, FlagFacts
<1>5. HandleFacts /\ closed \in SUBSET D
  BY <1>0 DEF DevFacts, DevRec, Held
<1>6. /\ handles' = [d \in D |-> IF d \in closed THEN handles[d] - 1 ELSE handles[d]]
      /\ claimed' = [d \in D |-> claimed[d] /\ d \notin closed]
  BY DEF Shutdown
<1>7. Holding = {} /\ Holding' = {}  BY <1>0, <1>3 DEF Holding
<1>8. linked' \in Seq(DevRec) /\ DOMAIN linked' = {}  BY <1>1
<1>9. \A e : ~Linked(e)' /\ (Linked(e) <=> e \in closed)
  BY <1>8 DEF Linked
<1>10. NotShared'  BY <1>8 DEF NotShared
<1>. HIDE DEF closed
<1>11. HandleFacts'
  BY <1>1, <1>5, <1>6, <1>7, <1>9, <1>10, HandlesClosed
<1>12. StageHolds'  BY <1>0, <1>3 DEF StageHolds
<1>13. DevTypeOK'
  BY <1>1, <1>3, <1>4, <1>11 DEF DevFacts, DevTypeOK, HandleFacts
<1>. QED  BY <1>0, <1>1, <1>2, <1>3, <1>4, <1>8, <1>11, <1>12, <1>13 DEF DevFacts

LEMMA DevStepKeeps == DevFacts /\ [DevNext]_devVars => DevFacts'
<1> SUFFICES ASSUME DevFacts, [DevNext]_devVars PROVE DevFacts'  OBVIOUS
<1>1. CASE UNCHANGED devVars
  <2>1. UNCHANGED <<enabled, fw_ptr, linked, pdev, ostage, tries, handles, claimed, mode,
                    selected, swapped, uploaded, faults, loaderVars>>
    BY <1>1 DEF devVars, context, opening, bus
  <2>2. LoaderBounds'  BY <2>1, LoaderStutters DEF DevFacts
  <2>3. FlagFacts' /\ StageHolds' /\ Holding' = Holding
    BY <2>1 DEF DevFacts, FlagFacts, StageHolds, Holding
  <2>. QED  BY <2>1, <2>2, <2>3, BusStays DEF DevFacts, DevTypeOK
<1>2. ASSUME NEW s \in Selections, Select(s) PROVE DevFacts'  BY <1>2, SelectKeeps
<1>3. ASSUME NEW image \in Memory, SetFirmware(image) PROVE DevFacts'  BY <1>3, SetFirmwareKeeps
<1>4. ASSUME NEW i \in 0 .. Len(Cameras), Open(i) PROVE DevFacts'
  <2>1. i \in Nat  BY CamerasAreDevices, SequenceFacts
  <2>. QED  BY <1>4, <2>1, OpenKeeps
<1>5. ASSUME NEW s \in Serials, OpenBySerial(s) PROVE DevFacts'  BY <1>5, OpenBySerialKeeps
<1>6. ASSUME NEW d \in D, Restart(d) PROVE DevFacts'  BY <1>6, RestartKeeps
<1>7. ASSUME NEW i \in DOMAIN linked, Close(i) PROVE DevFacts'  BY <1>7, CloseKeeps
<1>. QED
  BY <1>1, <1>2, <1>3, <1>4, <1>5, <1>6, <1>7, OpenCameraKeeps, OpenMotorKeeps, OpenAudioKeeps,
     UploadingKeeps, UploadedKeeps, LookKeeps, GiveUpKeeps, LastKeeps, ShutdownKeeps
  DEF DevNext

-----------------------------------------------------------------------------
(* What was selected is open. *)

HasSelected(dev) ==
  dev.camera # Nothing =>
    /\ "audio" \in dev.wants => dev.audio # Nothing
    /\ "motor" \in dev.wants => HasMotor(dev) \/ (~dev.does_alt /\ dev.after)
    /\ dev.motor # Nothing => "motor" \in dev.wants
    /\ dev.audio # Nothing /\ "audio" \notin dev.wants =>
         "motor" \in dev.wants /\ (dev.does_alt \/ dev.after)

\* An open opens what is enabled, and knows of a change of that since the selection.
WantsOpened ==
  ostage # "idle" =>
    /\ pdev.wants = selected
    /\ IF pdev.does_alt THEN swapped /\ "motor" \notin enabled ELSE pdev.after = swapped
    /\ ostage = "camera" => ~pdev.does_alt
    /\ pdev.motor # Nothing => "motor" \in enabled
    /\ pdev.audio # Nothing \/ ostage \in {"upload", "wait"} => "audio" \in enabled
    /\ ostage = "last" /\ pdev.audio # Nothing => pdev.alt = pdev.does_alt
WantFacts == (\A i \in DOMAIN linked : HasSelected(linked[i])) /\ WantsOpened

LEMMA WantStays ==
  ASSUME WantFacts, UNCHANGED <<linked, ostage>>,
         ostage # "idle" => UNCHANGED <<pdev, enabled, selected, swapped>>
  PROVE  WantFacts'
BY DEF WantFacts, WantsOpened, HasSelected, HasMotor

LEMMA WantEnds ==
  ASSUME WantFacts, linked' = linked, ostage' = "idle"
  PROVE  WantFacts'
BY DEF WantFacts, WantsOpened, HasSelected, HasMotor

LEMMA WantOpens ==
  ASSUME WantFacts, linked' = linked, WantsOpened'
  PROVE  WantFacts'
BY DEF WantFacts, HasSelected, HasMotor

LEMMA WantOpenAt ==
  ASSUME DevFacts, WantFacts, ostage = "idle", NEW index, NEW asked, OpenAt(index, asked)
  PROVE  WantFacts'
<1>1. linked' = linked /\ enabled' = enabled /\ selected' = selected /\ swapped' = swapped
  BY DEF OpenAt, context
<1>2. CASE index < Len(Cameras)
  <2>1. /\ ostage' = "camera" /\ pdev'.camera = Nothing /\ pdev'.motor = Nothing
        /\ pdev'.audio = Nothing /\ pdev'.does_alt = FALSE
        /\ pdev'.wants = selected /\ pdev'.after = swapped
    BY <1>2 DEF OpenAt, NewDevice
  <2>2. WantsOpened'  BY <1>1, <2>1 DEF WantsOpened
  <2>. QED  BY <1>1, <2>2, WantOpens
<1>3. CASE ~(index < Len(Cameras))
  BY <1>1, <1>3, WantEnds DEF OpenAt
<1>. QED  BY <1>2, <1>3

LEMMA WantOpenCamera ==
  ASSUME DevFacts, WantFacts, OpenCamera
  PROVE  WantFacts'
<1> DEFINE d == pdev.found
           newer == Bus[d].kind = "new camera"
<1>0. ostage = "camera" /\ pdev \in DevRec /\ linked' = linked /\ selected' = selected
      /\ pdev.motor = Nothing /\ pdev.audio = Nothing
  BY DEF OpenCamera, DevFacts, StageHolds
<1>1. WantsOpened /\ ~pdev.does_alt /\ pdev.wants = selected /\ pdev.after = swapped
  BY <1>0 DEF WantFacts, WantsOpened
<1>2. CASE UNCHANGED <<pdev, enabled, swapped>> /\ ostage' = "motor"
  <2>1. WantsOpened'  BY <1>0, <1>1, <1>2 DEF WantsOpened
  <2>. QED  BY <1>0, <2>1, WantOpens
<1>3. ASSUME NEW a, ostage' = "motor",
             enabled' = IF newer THEN Swap(enabled) ELSE enabled, swapped' = (swapped \/ newer),
             OpensAs("camera", d, [pdev EXCEPT !.does_alt = newer, !.reset = a])
      PROVE  WantFacts'
  <2>1. pdev' = [pdev EXCEPT !.does_alt = newer, !.reset = a, !.camera = d]
    <3> DEFINE more == [pdev EXCEPT !.does_alt = newer, !.reset = a]
    <3>1. pdev' = [more EXCEPT !.camera = d]
      <4>1. OpensAs("camera", d, more)  BY <1>3
      <4>. HIDE DEF more
      <4>. QED  BY <4>1 DEF OpensAs
    <3>. QED  BY <1>0, <3>1 DEF DevRec
  <2>2. /\ pdev'.motor = Nothing /\ pdev'.audio = Nothing /\ (pdev'.does_alt <=> newer)
        /\ pdev'.wants = pdev.wants /\ pdev'.after = pdev.after
    BY <1>0, <2>1 DEF DevRec
  <2>3. newer => "motor" \notin enabled' /\ swapped'  BY <1>3 DEF Swap
  <2>4. ~newer => swapped' = swapped  BY <1>3 DEF DevFacts, FlagFacts
  <2>5. WantsOpened'
    BY <1>0, <1>1, <1>3, <2>2, <2>3, <2>4 DEF WantsOpened
  <2>. QED  BY <1>0, <2>5, WantOpens
<1>4. CASE CannotOpen(d)
  BY <1>0, <1>4, WantEnds DEF CannotOpen, Failure
<1>. QED  BY <1>2, <1>3, <1>4 DEF OpenCamera

LEMMA WantOpenMotor ==
  ASSUME DevFacts, WantFacts, OpenMotor
  PROVE  WantFacts'
<1>0. ostage = "motor" /\ pdev \in DevRec
      /\ UNCHANGED <<linked, enabled, selected, swapped>>
  BY DEF OpenMotor, DevFacts, context
<1>1. WantsOpened  BY DEF WantFacts
<1>2. CASE UNCHANGED pdev /\ ostage' = "audio"
  <2>1. WantsOpened'  BY <1>0, <1>1, <1>2 DEF WantsOpened
  <2>. QED  BY <1>0, <2>1, WantOpens
<1>3. ASSUME NEW d, "motor" \in enabled, OpensAs("motor", d, pdev), ostage' = "audio"
      PROVE  WantFacts'
  <2>1. pdev' = [pdev EXCEPT !.motor = d]  BY <1>3 DEF OpensAs
  <2>2. /\ pdev'.audio = pdev.audio /\ pdev'.does_alt = pdev.does_alt
        /\ pdev'.wants = pdev.wants /\ pdev'.after = pdev.after
    BY <1>0, <2>1 DEF DevRec
  <2>3. WantsOpened'  BY <1>0, <1>1, <1>3, <2>2 DEF WantsOpened
  <2>. QED  BY <1>0, <2>3, WantOpens
<1>4. ASSUME NEW d, Failure \/ CannotOpen(d) PROVE WantFacts'
  BY <1>0, <1>4, WantEnds DEF CannotOpen, Failure
<1>. QED  BY <1>2, <1>3, <1>4 DEF OpenMotor

LEMMA WantOpenAudio ==
  ASSUME DevFacts, WantFacts, OpenAudio
  PROVE  WantFacts'
<1>0. ostage = "audio" /\ pdev \in DevRec /\ pdev.audio = Nothing
      /\ UNCHANGED <<linked, enabled, selected, swapped>>
  BY DEF OpenAudio, DevFacts, context, StageHolds
<1>1. WantsOpened  BY DEF WantFacts
<1>2. CASE UNCHANGED pdev /\ ostage' = "last"
  <2>1. WantsOpened'  BY <1>0, <1>1, <1>2 DEF WantsOpened
  <2>. QED  BY <1>0, <2>1, WantOpens
<1>3. ASSUME NEW d, "audio" \in enabled, OpensAs("audio", d, [pdev EXCEPT !.alt = pdev.does_alt]),
             ostage' = "last"
      PROVE  WantFacts'
  <2>1. pdev' = [pdev EXCEPT !.alt = pdev.does_alt, !.audio = d]
    <3> DEFINE more == [pdev EXCEPT !.alt = pdev.does_alt]
    <3>1. pdev' = [more EXCEPT !.audio = d]
      <4>1. OpensAs("audio", d, more)  BY <1>3
      <4>. HIDE DEF more
      <4>. QED  BY <4>1 DEF OpensAs
    <3>. QED  BY <1>0, <3>1 DEF DevRec
  <2>2. /\ pdev'.motor = pdev.motor /\ pdev'.does_alt = pdev.does_alt
        /\ pdev'.wants = pdev.wants /\ pdev'.after = pdev.after /\ pdev'.alt = pdev.does_alt
    BY <1>0, <2>1 DEF DevRec
  <2>3. WantsOpened'  BY <1>0, <1>1, <1>3, <2>2 DEF WantsOpened
  <2>. QED  BY <1>0, <2>3, WantOpens
<1>4. ASSUME NEW d, "audio" \in enabled, OpensAs("audio", d, pdev), ostage' = "upload"
      PROVE  WantFacts'
  <2>1. pdev' = [pdev EXCEPT !.audio = d]  BY <1>4 DEF OpensAs
  <2>2. /\ pdev'.motor = pdev.motor /\ pdev'.does_alt = pdev.does_alt
        /\ pdev'.wants = pdev.wants /\ pdev'.after = pdev.after
    BY <1>0, <2>1 DEF DevRec
  <2>3. WantsOpened'  BY <1>0, <1>1, <1>4, <2>2 DEF WantsOpened
  <2>. QED  BY <1>0, <2>3, WantOpens
<1>5. ASSUME NEW d, Failure \/ CannotOpen(d) PROVE WantFacts'
  BY <1>0, <1>5, WantEnds DEF CannotOpen, Failure
<1>. QED  BY <1>2, <1>3, <1>4, <1>5 DEF OpenAudio

LEMMA WantUploaded ==
  ASSUME DevFacts, WantFacts, Uploaded
  PROVE  WantFacts'
<1>0. ostage = "upload" /\ pdev \in DevRec
      /\ UNCHANGED <<linked, enabled, selected, swapped>>
  BY DEF Uploaded, DevFacts, context
<1>1. CASE Failure
  BY <1>0, <1>1, WantEnds DEF Failure
<1>2. CASE pdev' = [pdev EXCEPT !.audio = Nothing, !.waits = pdev.audio] /\ ostage' = "wait"
  <2>1. /\ pdev'.motor = pdev.motor /\ pdev'.audio = Nothing /\ pdev'.does_alt = pdev.does_alt
        /\ pdev'.wants = pdev.wants /\ pdev'.after = pdev.after
    BY <1>0, <1>2 DEF DevRec
  <2>2. WantsOpened'  BY <1>0, <1>2, <2>1 DEF WantFacts, WantsOpened
  <2>. QED  BY <1>0, <2>2, WantOpens
<1>. QED  BY <1>1, <1>2 DEF Uploaded

LEMMA WantLook ==
  ASSUME DevFacts, WantFacts, Look
  PROVE  WantFacts'
<1>0. ostage = "wait" /\ pdev \in DevRec
      /\ UNCHANGED <<linked, enabled, selected, swapped>>
  BY DEF Look, DevFacts, context
<1>1. PICK it \in D \cup {Nothing} :
        /\ pdev' = IF it = Nothing THEN pdev
                   ELSE [pdev EXCEPT !.audio = it, !.alt = pdev.does_alt]
        /\ ostage' = IF it = Nothing THEN "wait" ELSE "last"
  BY DEF Look
<1>2. CASE it = Nothing
  BY <1>0, <1>1, <1>2, WantStays
<1>3. CASE it # Nothing
  <2>1. /\ pdev'.motor = pdev.motor /\ pdev'.does_alt = pdev.does_alt
        /\ pdev'.wants = pdev.wants /\ pdev'.after = pdev.after
        /\ pdev'.alt = pdev.does_alt /\ ostage' = "last"
    BY <1>0, <1>1, <1>3 DEF DevRec
  <2>2. WantsOpened'  BY <1>0, <2>1 DEF WantFacts, WantsOpened
  <2>. QED  BY <1>0, <2>2, WantOpens
<1>. QED  BY <1>2, <1>3

LEMMA WantLast ==
  ASSUME DevFacts, WantFacts, Last
  PROVE  WantFacts'
<1> DEFINE dev == IF AllOpen THEN pdev
                  ELSE [pdev EXCEPT !.camera = Nothing, !.motor = Nothing, !.audio = Nothing]
<1>0. ostage = "last" /\ pdev \in DevRec /\ linked \in Seq(DevRec) /\ FlagFacts
  BY DEF Last, DevFacts
<1>1. ostage' = "idle" /\ linked' = Append(linked, dev)
  BY DEF Last
<1>2. WantsOpened  BY DEF WantFacts
<1>3. HasSelected(dev)
  <2>1. CASE AllOpen
    <3>1. /\ dev = pdev
          /\ "motor" \in enabled => pdev.motor # Nothing
          /\ "audio" \in enabled => pdev.audio # Nothing
      BY <1>0, <2>1 DEF AllOpen, DevRec
    <3>2. /\ pdev.wants = selected /\ (pdev.motor # Nothing => "motor" \in enabled)
          /\ pdev.audio # Nothing => "audio" \in enabled /\ pdev.alt = pdev.does_alt
          /\ IF pdev.does_alt THEN swapped /\ "motor" \notin enabled ELSE pdev.after = swapped
      BY <1>0, <1>2 DEF WantsOpened
    <3>. QED  BY <1>0, <3>1, <3>2 DEF HasSelected, HasMotor, FlagFacts
  <2>2. CASE ~AllOpen
    <3>1. dev.camera = Nothing  BY <1>0, <2>2 DEF DevRec
    <3>. QED  BY <3>1 DEF HasSelected
  <2>. QED  BY <2>1, <2>2
<1>4. dev \in DevRec  BY <1>0 DEF DevRec
<1>. HIDE DEF dev
<1>5. \A i \in DOMAIN linked' : linked'[i] = dev \/ \E j \in DOMAIN linked : linked'[i] = linked[j]
  BY <1>0, <1>1, <1>4
<1>6. \A i \in DOMAIN linked' : HasSelected(linked'[i])
  BY <1>3, <1>5 DEF WantFacts
<1>. QED  BY <1>1, <1>6 DEF WantFacts, WantsOpened, HasSelected, HasMotor

LEMMA WantClose ==
  ASSUME DevFacts, WantFacts, NEW i \in DOMAIN linked, Close(i)
  PROVE  WantFacts'
<1>1. /\ ostage' = "idle" /\ Len(linked) \in Nat /\ DOMAIN linked = 1 .. Len(linked)
      /\ linked' = [j \in 1 .. Len(linked) - 1 |-> linked[IF j < i THEN j ELSE j + 1]]
  BY DEF Close, DevFacts, opening
<1>2. \A j \in DOMAIN linked' : \E k \in DOMAIN linked : linked'[j] = linked[k]
  BY <1>1
<1>3. \A j \in DOMAIN linked' : HasSelected(linked'[j])
  BY <1>2 DEF WantFacts
<1>. QED  BY <1>1, <1>3 DEF WantFacts, WantsOpened, HasSelected, HasMotor

LEMMA WantStep ==
  ASSUME DevFacts, WantFacts, [DevNext]_devVars
  PROVE  WantFacts'
<1>1. CASE UNCHANGED devVars
  BY <1>1, WantStays DEF devVars, context, opening
<1>2. ASSUME NEW s \in Selections, Select(s) PROVE WantFacts'
  BY <1>2, WantStays DEF Select, opening
<1>3. ASSUME NEW image \in Memory, SetFirmware(image) PROVE WantFacts'
  BY <1>3, WantStays DEF SetFirmware, opening
<1>4. ASSUME NEW i \in 0 .. Len(Cameras), Open(i) PROVE WantFacts'
  BY <1>4, WantOpenAt DEF Open
<1>5. ASSUME NEW s \in Serials, OpenBySerial(s) PROVE WantFacts'
  <2>1. ostage = "idle"  BY <1>5 DEF OpenBySerial
  <2>2. (\E i : OpenAt(i, s)) \/ UNCHANGED <<linked, ostage>>
    BY <1>5 DEF OpenBySerial, context
  <2>. QED  BY <2>1, <2>2, WantOpenAt, WantStays
<1>6. ASSUME NEW d \in D, Restart(d) PROVE WantFacts'
  BY <1>6, WantStays DEF Restart, context, opening
<1>7. ASSUME NEW i \in DOMAIN linked, Close(i) PROVE WantFacts'  BY <1>7, WantClose
<1>8. CASE Uploading \/ UploadFails
  BY <1>8, WantStays DEF Uploading, UploadFails, context, opening
<1>9. CASE GiveUp
  <2>1. WantsOpened'
    BY <1>9 DEF GiveUp, context, DevFacts, StageHolds, WantFacts, WantsOpened
  <2>. QED  BY <1>9, <2>1, WantOpens DEF GiveUp, context
<1>10. CASE Shutdown
  <2>1. linked' = <<>> /\ DOMAIN linked' = {} /\ ostage' = "idle"  BY <1>10 DEF Shutdown, opening
  <2>. QED  BY <2>1 DEF WantFacts, WantsOpened
<1>. QED
  BY <1>1, <1>2, <1>3, <1>4, <1>5, <1>6, <1>7, <1>8, <1>9, <1>10, WantOpenCamera,
     WantOpenMotor, WantOpenAudio, WantUploaded, WantLook, WantLast
  DEF DevNext

-----------------------------------------------------------------------------
(* Whole Kinects, of a bus whose audio devices have serial numbers of their own. *)

DistinctSerials ==
  \A d, e \in D :
    Bus[d].kind = "audio" /\ Bus[e].kind = "audio" /\ Bus[d].serial = Bus[e].serial => d = e

\* The device d is at the hub of the camera of dev, if one of its kind is there.
AtItsHub(dev, d) ==
  (\E e \in dev.devs : Bus[e].kind = Bus[d].kind /\ Bus[e].hub = Bus[dev.found].hub) =>
    Bus[d].hub = Bus[dev.found].hub
WholeKinect(dev) ==
  /\ dev.alt => dev.audio # Nothing /\ dev.does_alt
  /\ dev.does_alt => dev.motor = Nothing
  /\ \A d \in Touched(dev) : AtItsHub(dev, d)

\* What an open has opened by its stage, of what is enabled.
OpenedWhole ==
  ostage # "idle" =>
    /\ WholeKinect(pdev)
    /\ ostage = "camera" => ~pdev.does_alt
    /\ ostage # "camera" =>
         ("camera" \in enabled => pdev.camera # Nothing) /\ (pdev.does_alt => "motor" \notin enabled)
    /\ ostage \notin {"camera", "motor"} => ("motor" \in enabled => pdev.motor # Nothing)
    /\ ostage = "upload" => Bus[pdev.audio].kind = "audio"
    /\ ostage = "wait" => Bus[pdev.waits].kind = "audio" /\ AtItsHub(pdev, pdev.waits)
    /\ ostage # "last" => ~pdev.alt
WholeFacts == (\A i \in DOMAIN linked : WholeKinect(linked[i])) /\ OpenedWhole

LEMMA WholeStays ==
  ASSUME WholeFacts, UNCHANGED <<linked, ostage>>,
         ostage # "idle" => UNCHANGED <<pdev, enabled>>
  PROVE  WholeFacts'
BY DEF WholeFacts, OpenedWhole, WholeKinect, AtItsHub, Touched, Held

LEMMA WholeEnds ==
  ASSUME WholeFacts, linked' = linked, ostage' = "idle"
  PROVE  WholeFacts'
BY DEF WholeFacts, OpenedWhole, WholeKinect, AtItsHub, Touched, Held

LEMMA WholeOpens ==
  ASSUME WholeFacts, linked' = linked, OpenedWhole'
  PROVE  WholeFacts'
BY DEF WholeFacts, WholeKinect, AtItsHub, Touched, Held

LEMMA WholeOpenAt ==
  ASSUME DevFacts, WholeFacts, ostage = "idle", NEW index, NEW asked, OpenAt(index, asked)
  PROVE  WholeFacts'
<1>1. linked' = linked  BY DEF OpenAt, context
<1>2. CASE index < Len(Cameras)
  <2>1. /\ ostage' = "camera" /\ pdev'.camera = Nothing /\ pdev'.motor = Nothing
        /\ pdev'.audio = Nothing /\ pdev'.alt = FALSE /\ pdev'.does_alt = FALSE
        /\ pdev'.reset = Nothing
    BY <1>2 DEF OpenAt, NewDevice
  <2>2. Touched(pdev') = {}  BY <2>1 DEF Touched, Held
  <2>3. OpenedWhole'  BY <2>1, <2>2 DEF OpenedWhole, WholeKinect, Touched, Held, AtItsHub
  <2>. QED  BY <1>1, <2>3, WholeOpens
<1>3. CASE ~(index < Len(Cameras))
  BY <1>1, <1>3, WholeEnds DEF OpenAt
<1>. QED  BY <1>2, <1>3

LEMMA WholeOpenCamera ==
  ASSUME DevFacts, WholeFacts, OpenCamera
  PROVE  WholeFacts'
<1> DEFINE d == pdev.found
           newer == Bus[d].kind = "new camera"
<1>0. ostage = "camera" /\ pdev \in DevRec /\ d \in D /\ linked' = linked
      /\ pdev.camera = Nothing /\ pdev.motor = Nothing /\ pdev.audio = Nothing
  BY DEF OpenCamera, DevFacts, DevRec, StageHolds
<1>1. ~pdev.alt /\ ~pdev.does_alt  BY <1>0 DEF WholeFacts, OpenedWhole
<1>2. CASE "camera" \notin enabled /\ UNCHANGED <<pdev, enabled>> /\ ostage' = "motor"
  <2>1. OpenedWhole'
    BY <1>0, <1>1, <1>2 DEF WholeFacts, OpenedWhole, WholeKinect, AtItsHub, Touched, Held
  <2>. QED  BY <1>0, <2>1, WholeOpens
<1>3. ASSUME NEW a \in {Nothing} \cup KeptAlive(d), ostage' = "motor",
             enabled' = IF newer THEN Swap(enabled) ELSE enabled,
             OpensAs("camera", d, [pdev EXCEPT !.does_alt = newer, !.reset = a])
      PROVE  WholeFacts'
  <2>1. pdev' = [pdev EXCEPT !.does_alt = newer, !.reset = a, !.camera = d]
    <3> DEFINE more == [pdev EXCEPT !.does_alt = newer, !.reset = a]
    <3>1. pdev' = [more EXCEPT !.camera = d]
      <4>1. OpensAs("camera", d, more)  BY <1>3
      <4>. HIDE DEF more
      <4>. QED  BY <4>1 DEF OpensAs
    <3>. QED  BY <1>0, <3>1 DEF DevRec
  <2>2. /\ pdev'.camera = d /\ pdev'.motor = Nothing /\ pdev'.audio = Nothing
        /\ pdev'.found = d /\ ~pdev'.alt /\ (pdev'.does_alt <=> newer)
        /\ pdev'.reset = a /\ pdev'.devs = pdev.devs
    BY <1>0, <1>1, <2>1 DEF DevRec
  <2>3. Touched(pdev') \subseteq {d, a} /\ d # Nothing
        /\ (a = Nothing => Touched(pdev') = {d})
    BY <1>0, <2>2, DevicesAreNumbers DEF Touched, Held
  <2>4. newer => "motor" \notin enabled'  BY <1>3 DEF Swap
  <2>5. WholeKinect(pdev)'
    <3>1. AtItsHub(pdev', d)  BY <2>2 DEF AtItsHub
    <3>2. a # Nothing => AtItsHub(pdev', a)
      <4>1. CASE a = Nothing  BY <4>1
      <4>2. CASE a \in KeptAlive(d)
        BY <1>0, <2>2, <4>2, KeptAliveFacts DEF AtItsHub
      <4>. QED  BY <4>1, <4>2
    <3>3. \A e \in Touched(pdev') : AtItsHub(pdev', e)  BY <2>3, <3>1, <3>2
    <3>. QED  BY <2>2, <3>3 DEF WholeKinect, AtItsHub, Touched, Held
  <2>6. OpenedWhole'
    BY <1>3, <2>2, <2>3, <2>4, <2>5 DEF OpenedWhole
  <2>. QED  BY <1>0, <2>6, WholeOpens
<1>4. CASE CannotOpen(d)
  BY <1>0, <1>4, WholeEnds DEF CannotOpen, Failure
<1>. QED  BY <1>2, <1>3, <1>4 DEF OpenCamera

LEMMA WholeOpenMotor ==
  ASSUME DevFacts, WholeFacts, OpenMotor
  PROVE  WholeFacts'
<1> DEFINE d == FindSibling(pdev.found, "motor", pdev.devs)
<1>0. ostage = "motor" /\ pdev \in DevRec /\ pdev.found \in D /\ pdev.devs \in SUBSET D
      /\ UNCHANGED <<linked, enabled>> /\ pdev.motor = Nothing /\ pdev.audio = Nothing
  BY DEF OpenMotor, DevFacts, DevRec, context, StageHolds
<1>1. /\ d \in D \cup {Nothing} /\ (d # Nothing => Bus[d].kind = "motor")
      /\ (\E e \in pdev.devs : Bus[e].kind = "motor" /\ Bus[e].hub = Bus[pdev.found].hub) =>
           Bus[d].hub = Bus[pdev.found].hub
  BY <1>0, SiblingFacts
<1>. HIDE DEF d
<1>2. OpenedWhole  BY DEF WholeFacts
<1>3. CASE "motor" \notin enabled /\ UNCHANGED pdev /\ ostage' = "audio"
  <2>1. OpenedWhole'
    BY <1>0, <1>2, <1>3 DEF OpenedWhole, WholeKinect, AtItsHub, Touched, Held
  <2>. QED  BY <1>0, <2>1, WholeOpens
<1>4. CASE "motor" \in enabled /\ d # Nothing /\ OpensAs("motor", d, pdev) /\ ostage' = "audio"
  <2>1. pdev' = [pdev EXCEPT !.motor = d]  BY <1>4 DEF OpensAs
  <2>2. /\ pdev'.camera = pdev.camera /\ pdev'.motor = d /\ pdev'.audio = Nothing
        /\ pdev'.reset = pdev.reset /\ pdev'.found = pdev.found /\ pdev'.devs = pdev.devs
        /\ pdev'.alt = pdev.alt /\ pdev'.does_alt = pdev.does_alt
    BY <1>0, <2>1 DEF DevRec
  <2>3. Touched(pdev') = Touched(pdev) \cup {d}  BY <1>0, <1>4, <2>2 DEF Touched, Held
  <2>4. ~pdev.does_alt /\ ~pdev.alt  BY <1>0, <1>2, <1>4 DEF OpenedWhole
  <2>5. \A e \in Touched(pdev') : AtItsHub(pdev, e)
    BY <1>0, <1>1, <1>2, <1>4, <2>3 DEF OpenedWhole, WholeKinect, AtItsHub
  <2>6. WholeKinect(pdev)'
    BY <2>2, <2>4, <2>5 DEF WholeKinect, AtItsHub, Touched, Held
  <2>7. OpenedWhole'
    BY <1>0, <1>2, <1>4, <2>2, <2>4, <2>6 DEF OpenedWhole
  <2>. QED  BY <1>0, <2>7, WholeOpens
<1>5. CASE Failure \/ CannotOpen(d)
  BY <1>0, <1>5, WholeEnds DEF CannotOpen, Failure
<1>. QED  BY <1>3, <1>4, <1>5 DEF OpenMotor, d

LEMMA WholeOpenAudio ==
  ASSUME DevFacts, WholeFacts, OpenAudio
  PROVE  WholeFacts'
<1> DEFINE d == FindSibling(pdev.found, "audio", pdev.devs)
<1>0. ostage = "audio" /\ pdev \in DevRec /\ pdev.found \in D /\ pdev.devs \in SUBSET D
      /\ UNCHANGED <<linked, enabled>> /\ pdev.audio = Nothing
  BY DEF OpenAudio, DevFacts, DevRec, context, StageHolds
<1>1. /\ d \in D \cup {Nothing} /\ (d # Nothing => Bus[d].kind = "audio")
      /\ (\E e \in pdev.devs : Bus[e].kind = "audio" /\ Bus[e].hub = Bus[pdev.found].hub) =>
           Bus[d].hub = Bus[pdev.found].hub
  BY <1>0, SiblingFacts
<1>. HIDE DEF d
<1>2. OpenedWhole  BY DEF WholeFacts
<1>3. CASE UNCHANGED pdev /\ ostage' = "last"
  <2>1. OpenedWhole'
    BY <1>0, <1>2, <1>3 DEF OpenedWhole, WholeKinect, AtItsHub, Touched, Held
  <2>. QED  BY <1>0, <2>1, WholeOpens
<1>4. CASE /\ d # Nothing
           /\ \/ OpensAs("audio", d, [pdev EXCEPT !.alt = pdev.does_alt]) /\ ostage' = "last"
              \/ OpensAs("audio", d, pdev) /\ ostage' = "upload"
  <2>1. /\ pdev'.camera = pdev.camera /\ pdev'.motor = pdev.motor /\ pdev'.audio = d
        /\ pdev'.reset = pdev.reset /\ pdev'.found = pdev.found /\ pdev'.devs = pdev.devs /\ pdev'.does_alt = pdev.does_alt
        /\ \/ ostage' = "last" /\ pdev'.alt = pdev.does_alt
           \/ ostage' = "upload" /\ pdev'.alt = pdev.alt
    <3> DEFINE more == [pdev EXCEPT !.alt = pdev.does_alt]
    <3>1. CASE OpensAs("audio", d, more) /\ ostage' = "last"
      <4>1. pdev' = [more EXCEPT !.audio = d]
        <5>. HIDE DEF more
        <5>. QED  BY <3>1 DEF OpensAs
      <4>. QED  BY <1>0, <3>1, <4>1 DEF DevRec
    <3>2. CASE OpensAs("audio", d, pdev) /\ ostage' = "upload"
      <4>1. pdev' = [pdev EXCEPT !.audio = d]  BY <3>2 DEF OpensAs
      <4>. QED  BY <1>0, <3>2, <4>1 DEF DevRec
    <3>. QED  BY <1>4, <3>1, <3>2
  <2>2. Touched(pdev') = Touched(pdev) \cup {d}  BY <1>0, <1>4, <2>1 DEF Touched, Held
  <2>3. \A e \in Touched(pdev') : AtItsHub(pdev, e)
    BY <1>0, <1>1, <1>2, <1>4, <2>2 DEF OpenedWhole, WholeKinect, AtItsHub
  <2>4. ~pdev.alt /\ WholeKinect(pdev)  BY <1>0, <1>2 DEF OpenedWhole
  <2>5. WholeKinect(pdev)'
    BY <1>4, <2>1, <2>3, <2>4 DEF WholeKinect, AtItsHub, Touched, Held
  <2>6. OpenedWhole'
    BY <1>0, <1>1, <1>2, <1>4, <2>1, <2>4, <2>5 DEF OpenedWhole
  <2>. QED  BY <1>0, <2>6, WholeOpens
<1>5. CASE Failure \/ CannotOpen(d)
  BY <1>0, <1>5, WholeEnds DEF CannotOpen, Failure
<1>. QED  BY <1>3, <1>4, <1>5 DEF OpenAudio, d

LEMMA WholeUploaded ==
  ASSUME DevFacts, WholeFacts, Uploaded
  PROVE  WholeFacts'
<1> DEFINE d == pdev.audio
<1>0. ostage = "upload" /\ pdev \in DevRec /\ d \in D /\ d # Nothing
      /\ UNCHANGED <<linked, enabled>>
  BY DEF Uploaded, DevFacts, DevRec, context, StageHolds
<1>1. CASE Failure
  BY <1>0, <1>1, WholeEnds DEF Failure
<1>2. CASE pdev' = [pdev EXCEPT !.audio = Nothing, !.waits = d] /\ ostage' = "wait"
  <2>1. /\ pdev'.camera = pdev.camera /\ pdev'.motor = pdev.motor /\ pdev'.audio = Nothing
        /\ pdev'.reset = pdev.reset /\ pdev'.found = pdev.found /\ pdev'.devs = pdev.devs /\ pdev'.does_alt = pdev.does_alt
        /\ pdev'.alt = pdev.alt /\ pdev'.waits = d
    BY <1>0, <1>2 DEF DevRec
  <2>2. Touched(pdev') \subseteq Touched(pdev) /\ d \in Touched(pdev)  BY <1>0, <2>1 DEF Touched, Held
  <2>3. OpenedWhole /\ WholeKinect(pdev) /\ ~pdev.alt  BY <1>0 DEF WholeFacts, OpenedWhole
  <2>4. WholeKinect(pdev)'  BY <2>1, <2>2, <2>3 DEF WholeKinect, AtItsHub, Touched, Held
  <2>5. AtItsHub(pdev, d)  BY <2>2, <2>3 DEF WholeKinect
  <2>6. OpenedWhole'
    BY <1>0, <1>2, <2>1, <2>3, <2>4, <2>5 DEF OpenedWhole, AtItsHub
  <2>. QED  BY <1>0, <2>6, WholeOpens
<1>. QED  BY <1>1, <1>2 DEF Uploaded

LEMMA WholeLook ==
  ASSUME DistinctSerials, DevFacts, WholeFacts, Look
  PROVE  WholeFacts'
<1>0. ostage = "wait" /\ pdev \in DevRec /\ pdev.waits \in D
      /\ UNCHANGED <<linked, enabled>>
  BY DEF Look, DevFacts, DevRec, context, StageHolds
<1>1. PICK it \in D \cup {Nothing} :
        /\ it # Nothing => Bus[it].kind = "audio" /\ Bus[it].serial = Bus[pdev.waits].serial
        /\ pdev' = IF it = Nothing THEN pdev
                   ELSE [pdev EXCEPT !.audio = it, !.alt = pdev.does_alt]
        /\ ostage' = IF it = Nothing THEN "wait" ELSE "last"
  BY DEF Look
<1>2. OpenedWhole /\ WholeKinect(pdev) /\ Bus[pdev.waits].kind = "audio"
      /\ AtItsHub(pdev, pdev.waits)
  BY <1>0 DEF WholeFacts, OpenedWhole
<1>3. CASE it = Nothing
  BY <1>0, <1>1, <1>3, WholeStays
<1>4. CASE it # Nothing
  <2>1. it = pdev.waits  BY <1>0, <1>1, <1>2, <1>4 DEF DistinctSerials
  <2>2. /\ pdev'.camera = pdev.camera /\ pdev'.motor = pdev.motor /\ pdev'.audio = it
        /\ pdev'.reset = pdev.reset /\ pdev'.found = pdev.found /\ pdev'.devs = pdev.devs /\ pdev'.does_alt = pdev.does_alt
        /\ pdev'.alt = pdev.does_alt /\ ostage' = "last"
    BY <1>0, <1>1, <1>4 DEF DevRec
  <2>3. Touched(pdev') \subseteq Touched(pdev) \cup {it}  BY <2>2 DEF Touched, Held
  <2>4. WholeKinect(pdev)'
    BY <1>2, <1>4, <2>1, <2>2, <2>3 DEF WholeKinect, AtItsHub, Touched, Held
  <2>5. OpenedWhole'
    BY <1>0, <1>2, <2>2, <2>4 DEF OpenedWhole
  <2>. QED  BY <1>0, <2>5, WholeOpens
<1>. QED  BY <1>3, <1>4

LEMMA WholeLast ==
  ASSUME DevFacts, WholeFacts, Last
  PROVE  WholeFacts'
<1> DEFINE dev == IF AllOpen THEN pdev
                  ELSE [pdev EXCEPT !.camera = Nothing, !.motor = Nothing, !.audio = Nothing]
<1>0. ostage = "last" /\ pdev \in DevRec /\ linked \in Seq(DevRec) /\ enabled \subseteq Sub
  BY DEF Last, DevFacts, DevTypeOK
<1>1. ostage' = "idle" /\ linked' = Append(linked, dev)
  BY DEF Last
<1>2. OpenedWhole /\ WholeKinect(pdev)  BY <1>0 DEF WholeFacts, OpenedWhole
<1>3. pdev.alt => AllOpen
  <2> SUFFICES ASSUME pdev.alt PROVE AllOpen  OBVIOUS
  <2>1. pdev.audio # Nothing  BY <1>2 DEF WholeKinect
  <2>2. "camera" \in enabled => pdev.camera # Nothing  BY <1>0, <1>2 DEF OpenedWhole
  <2>3. "motor" \in enabled => pdev.motor # Nothing  BY <1>0, <1>2 DEF OpenedWhole
  <2>. QED  BY <1>0, <2>1, <2>2, <2>3 DEF AllOpen, Sub
<1>4. WholeKinect(dev)
  <2>1. CASE AllOpen  BY <1>2, <2>1
  <2>2. CASE ~AllOpen
    <3>1. dev.camera = Nothing /\ dev.motor = Nothing /\ dev.audio = Nothing /\ ~dev.alt
      BY <1>0, <1>3, <2>2 DEF DevRec
    <3>2. /\ dev.reset = pdev.reset /\ dev.found = pdev.found /\ dev.devs = pdev.devs
      BY <1>0, <2>2 DEF DevRec
    <3>3. Touched(dev) \subseteq Touched(pdev)  BY <3>1, <3>2 DEF Touched, Held
    <3>. QED  BY <1>2, <3>1, <3>2, <3>3 DEF WholeKinect, AtItsHub
  <2>. QED  BY <2>1, <2>2
<1>5. dev \in DevRec  BY <1>0 DEF DevRec
<1>. HIDE DEF dev
<1>6. \A i \in DOMAIN linked' : linked'[i] = dev \/ \E j \in DOMAIN linked : linked'[i] = linked[j]
  BY <1>0, <1>1, <1>5
<1>7. \A i \in DOMAIN linked' : WholeKinect(linked'[i])
  BY <1>4, <1>6 DEF WholeFacts
<1>. QED  BY <1>1, <1>7 DEF WholeFacts, OpenedWhole, WholeKinect, AtItsHub, Touched, Held

LEMMA WholeClose ==
  ASSUME DevFacts, WholeFacts, NEW i \in DOMAIN linked, Close(i)
  PROVE  WholeFacts'
<1>1. /\ ostage' = "idle" /\ Len(linked) \in Nat /\ DOMAIN linked = 1 .. Len(linked)
      /\ linked' = [j \in 1 .. Len(linked) - 1 |-> linked[IF j < i THEN j ELSE j + 1]]
  BY DEF Close, DevFacts, opening
<1>2. \A j \in DOMAIN linked' : \E k \in DOMAIN linked : linked'[j] = linked[k]
  BY <1>1
<1>3. \A j \in DOMAIN linked' : WholeKinect(linked'[j])
  BY <1>2 DEF WholeFacts
<1>. QED  BY <1>1, <1>3 DEF WholeFacts, OpenedWhole, WholeKinect, AtItsHub, Touched, Held

LEMMA WholeStep ==
  ASSUME DistinctSerials, DevFacts, WholeFacts, [DevNext]_devVars
  PROVE  WholeFacts'
<1>1. CASE UNCHANGED devVars
  BY <1>1, WholeStays DEF devVars, context, opening
<1>2. ASSUME NEW s \in Selections, Select(s) PROVE WholeFacts'
  BY <1>2, WholeStays DEF Select, opening
<1>3. ASSUME NEW image \in Memory, SetFirmware(image) PROVE WholeFacts'
  BY <1>3, WholeStays DEF SetFirmware, opening
<1>4. ASSUME NEW i \in 0 .. Len(Cameras), Open(i) PROVE WholeFacts'
  BY <1>4, WholeOpenAt DEF Open
<1>5. ASSUME NEW s \in Serials, OpenBySerial(s) PROVE WholeFacts'
  <2>1. ostage = "idle"  BY <1>5 DEF OpenBySerial
  <2>2. (\E i : OpenAt(i, s)) \/ UNCHANGED <<linked, pdev, ostage, enabled>>
    BY <1>5 DEF OpenBySerial, context
  <2>. QED  BY <2>1, <2>2, WholeOpenAt, WholeStays
<1>6. ASSUME NEW d \in D, Restart(d) PROVE WholeFacts'
  BY <1>6, WholeStays DEF Restart, context, opening
<1>7. ASSUME NEW i \in DOMAIN linked, Close(i) PROVE WholeFacts'  BY <1>7, WholeClose
<1>8. CASE Uploading \/ UploadFails
  BY <1>8, WholeStays DEF Uploading, UploadFails, context, opening
<1>9. CASE GiveUp
  <2>1. OpenedWhole'
    BY <1>9 DEF GiveUp, WholeFacts, OpenedWhole, WholeKinect, AtItsHub, Held, context
  <2>. QED  BY <1>9, <2>1, WholeOpens DEF GiveUp, context
<1>10. CASE Shutdown
  <2>1. linked' = <<>> /\ DOMAIN linked' = {} /\ ostage' = "idle"
    BY <1>10 DEF Shutdown, opening
  <2>. QED  BY <2>1 DEF WholeFacts, OpenedWhole
<1>. QED
  BY <1>1, <1>2, <1>3, <1>4, <1>5, <1>6, <1>7, <1>8, <1>9, <1>10, WholeOpenCamera,
     WholeOpenMotor, WholeOpenAudio, WholeUploaded, WholeLook, WholeLast
  DEF DevNext

-----------------------------------------------------------------------------
(* Devices opened by a serial number. *)

\* The number asked for is that of the camera, or of an audio device at its hub.
RightCamera(asked, dev) ==
  (\A d \in CameraSet : Bus[d].serial # "none")
    /\ (Bus[dev.found].serial = "zero" => AudioAt(dev.found, dev.devs) # {}) =>
  asked \in {Bus[d].serial : d \in {dev.found} \cup AudioAt(dev.found, D)}
SerialFacts ==
  /\ oresult = [ok |-> oresult.ok, dev |-> oresult.dev, asked |-> oresult.asked]
  /\ ostage # "idle" => pdev.camera \in {Nothing, pdev.found}
  /\ ostage # "idle" /\ oresult.asked # "none" /\ faults = 0 => RightCamera(oresult.asked, pdev)
  /\ ostage = "idle" /\ oresult.ok /\ oresult.asked # "none" /\ faults = 0
       /\ oresult.dev.camera # Nothing =>
       oresult.dev.camera = oresult.dev.found /\ RightCamera(oresult.asked, oresult.dev)

LEMMA FaultsAreCounted == DevFacts => faults \in Nat
<1>1. MaxFaults \in Nat  BY DevicesAssumption
<1>. QED  BY <1>1 DEF DevFacts, DevTypeOK

LEMMA SerialStays ==
  ASSUME SerialFacts, UNCHANGED <<oresult, ostage, faults>>,
         ostage # "idle" => UNCHANGED pdev
  PROVE  SerialFacts'
BY DEF SerialFacts, RightCamera, AudioAt

\* A step of an open that goes on, for the same camera.
LEMMA SerialGoesOn ==
  ASSUME SerialFacts, UNCHANGED oresult, ostage # "idle", ostage' # "idle",
         faults \in Nat, faults' \in {faults, faults + 1},
         pdev'.found = pdev.found, pdev'.devs = pdev.devs,
         pdev'.camera \in {pdev.camera, pdev.found}
  PROVE  SerialFacts'
<1>1. faults' = 0 => faults = 0  OBVIOUS
<1>. QED  BY <1>1 DEF SerialFacts, RightCamera, AudioAt

\* An open that fails.
LEMMA SerialFails ==
  ASSUME SerialFacts, oresult' = [oresult EXCEPT !.ok = FALSE], ostage' = "idle"
  PROVE  SerialFacts'
<1>1. oresult' = [ok |-> FALSE, dev |-> oresult.dev, asked |-> oresult.asked]
  BY DEF SerialFacts
<1>. QED  BY <1>1 DEF SerialFacts

LEMMA SerialCannotOpen ==
  ASSUME SerialFacts, NEW d, Failure \/ CannotOpen(d)
  PROVE  SerialFacts'
BY SerialFails DEF Failure, CannotOpen

LEMMA SerialOpensAs ==
  ASSUME SerialFacts, faults \in Nat, NEW k \in {"camera", "motor", "audio"}, NEW d,
         NEW more \in DevRec, more.found = pdev.found, more.devs = pdev.devs,
         more.camera = pdev.camera, k = "camera" => d = pdev.found,
         ostage # "idle", ostage' # "idle", OpensAs(k, d, more)
  PROVE  SerialFacts'
<1>1. pdev' = [more EXCEPT ![k] = d] /\ UNCHANGED <<oresult, faults>>  BY DEF OpensAs
<1>2. /\ pdev'.found = pdev.found /\ pdev'.devs = pdev.devs
      /\ pdev'.camera \in {pdev.camera, pdev.found}
  <2>1. CASE k = "camera"  BY <1>1, <2>1 DEF DevRec
  <2>2. CASE k = "motor"  BY <1>1, <2>2 DEF DevRec
  <2>3. CASE k = "audio"  BY <1>1, <2>3 DEF DevRec
  <2>. QED  BY <2>1, <2>2, <2>3
<1>. QED  BY <1>1, <1>2, SerialGoesOn

LEMMA SerialOpen ==
  ASSUME DevFacts, SerialFacts, NEW index \in Nat, Open(index)
  PROVE  SerialFacts'
<1>1. oresult' = [oresult EXCEPT !.asked = "none", !.ok = index < Len(Cameras)]
  BY DEF Open, OpenAt
<1>2. oresult' = [ok |-> index < Len(Cameras), dev |-> oresult.dev, asked |-> "none"]
  BY <1>1 DEF SerialFacts
<1>3. ostage' # "idle" => pdev'.camera = Nothing
  BY DEF Open, OpenAt, NewDevice
<1>. QED  BY <1>2, <1>3 DEF SerialFacts

\* The serial number listed for a camera is its own, or that of an audio device
\* at its hub if one is on the bus.
LEMMA SerialOfFacts ==
  ASSUME NEW camera \in D, Bus[camera].serial = "zero" => AudioAt(camera, Present) # {}
  PROVE  SerialOf(camera) \in {Bus[d].serial : d \in {camera} \cup AudioAt(camera, D)}
<1> DEFINE audio == FindSibling(camera, "audio", Present)
<1>1. Present \in SUBSET D  BY DEF Present
<1>2. CASE Bus[camera].serial = "zero" /\ audio # Nothing
  <2>1. \E e \in Present : Bus[e].kind = "audio" /\ Bus[e].hub = Bus[camera].hub
    BY <1>2 DEF AudioAt
  <2>2. audio \in D /\ Bus[audio].kind = "audio" /\ Bus[audio].hub = Bus[camera].hub
    BY <1>1, <1>2, <2>1, SiblingFacts
  <2>3. SerialOf(camera) = Bus[audio].serial  BY <1>2 DEF SerialOf
  <2>. HIDE DEF audio
  <2>. QED  BY <2>2, <2>3 DEF AudioAt
<1>3. CASE ~(Bus[camera].serial = "zero" /\ audio # Nothing)
  BY <1>3 DEF SerialOf
<1>. QED  BY <1>2, <1>3

LEMMA SerialOpenBySerial ==
  ASSUME DevFacts, SerialFacts, NEW serial, OpenBySerial(serial)
  PROVE  SerialFacts'
<1>1. PICK skipped \in {{}} \cup {{Cameras[i]} : i \in {j \in DOMAIN Cameras : faults < MaxFaults}} :
        LET list == Listed(skipped)
            at == {i \in DOMAIN list : list[i] = serial}
        IN
        /\ faults' = faults + (IF skipped = {} THEN 0 ELSE 1)
        /\ IF at # {} THEN OpenAt(IndexOf(at), serial)
           ELSE /\ oresult' = [oresult EXCEPT !.ok = FALSE, !.asked = serial]
                /\ UNCHANGED <<context, pdev, ostage, tries, bus, selected, swapped, uploaded, loaderVars>>
  BY DEF OpenBySerial
<1>2. ostage = "idle"  BY DEF OpenBySerial
<1> DEFINE list == Listed(skipped)
           at == {i \in DOMAIN list : list[i] = serial}
           index == IndexOf(at)
<1>3. CASE at = {}
  <2>1. oresult' = [oresult EXCEPT !.ok = FALSE, !.asked = serial] /\ ostage' = "idle"
    BY <1>1, <1>2, <1>3
  <2>2. oresult' = [ok |-> FALSE, dev |-> oresult.dev, asked |-> serial]
    BY <2>1 DEF SerialFacts
  <2>. QED  BY <2>1, <2>2 DEF SerialFacts
<1>4. CASE at # {}
  <2>1. OpenAt(index, serial)  BY <1>1, <1>4
  <2>2. oresult' = [oresult EXCEPT !.asked = serial, !.ok = index < Len(Cameras)]
    BY <2>1 DEF OpenAt
  <2>3. oresult' = [ok |-> index < Len(Cameras), dev |-> oresult.dev, asked |-> serial]
    BY <2>2 DEF SerialFacts
  <2>4. CASE ~(index < Len(Cameras))
    <3>1. ostage' = "idle"  BY <1>2, <2>1, <2>4 DEF OpenAt
    <3>. QED  BY <2>3, <2>4, <3>1 DEF SerialFacts
  <2>5. CASE index < Len(Cameras)
    <3>1. /\ ostage' = "camera" /\ pdev'.camera = Nothing
          /\ pdev'.found = Cameras[index + 1] /\ pdev'.devs = Present
      BY <2>1, <2>5 DEF OpenAt, NewDevice
    <3>2. ASSUME faults' = 0, \A d \in CameraSet : Bus[d].serial # "none",
                 Bus[pdev'.found].serial = "zero" => AudioAt(pdev'.found, pdev'.devs) # {}
          PROVE  serial \in {Bus[d].serial : d \in {pdev'.found} \cup AudioAt(pdev'.found, D)}
      <4>1. skipped = {}
        <5>1. faults \in Nat  BY FaultsAreCounted
        <5>. QED  BY <1>1, <3>2, <5>1
      <4>2. {d \in CameraSet : Bus[d].serial # "none" /\ d \notin skipped} = CameraSet
        BY <3>2, <4>1
      <4>3. list = [i \in DOMAIN Cameras |-> SerialOf(Cameras[i])]
        BY <4>2, Zenon DEF Listed, Cameras
      <4>4. DOMAIN list = 1 .. Len(Cameras) /\ Len(Cameras) \in Nat
        BY <4>3, CamerasAreDevices, SequenceFacts
      <4>5. at \in SUBSET Nat /\ at \subseteq DOMAIN list  BY <4>4
      <4>6. Min(at) \in at  BY <1>4, <4>5, MinFacts
      <4>7. index + 1 = Min(at)  BY <4>5, <4>6 DEF IndexOf
      <4>8. index + 1 \in DOMAIN Cameras /\ list[index + 1] = serial
        BY <4>3, <4>5, <4>6, <4>7
      <4>9. serial = SerialOf(pdev'.found) /\ pdev'.found \in D
        BY <3>1, <4>3, <4>8, CamerasAreDevices, SequenceFacts
      <4>. QED  BY <3>1, <3>2, <4>9, SerialOfFacts
    <3>3. faults' = 0 => RightCamera(serial, pdev)'
      BY <3>2 DEF RightCamera, AudioAt
    <3>. QED  BY <2>3, <3>1, <3>3 DEF SerialFacts, RightCamera, AudioAt
  <2>. QED  BY <2>4, <2>5
<1>. QED  BY <1>3, <1>4

LEMMA SerialStep ==
  ASSUME DevFacts, SerialFacts, [DevNext]_devVars
  PROVE  SerialFacts'
<1>0. faults \in Nat  BY FaultsAreCounted
<1>1. CASE UNCHANGED devVars
  BY <1>1, SerialStays DEF devVars, opening
<1>2. ASSUME NEW s \in Selections, Select(s) PROVE SerialFacts'
  BY <1>2, SerialStays DEF Select, opening
<1>3. ASSUME NEW image \in Memory, SetFirmware(image) PROVE SerialFacts'
  BY <1>3, SerialStays DEF SetFirmware, opening
<1>4. ASSUME NEW i \in 0 .. Len(Cameras), Open(i) PROVE SerialFacts'
  <2>1. i \in Nat  BY CamerasAreDevices, SequenceFacts
  <2>. QED  BY <1>4, <2>1, SerialOpen
<1>5. ASSUME NEW s \in Serials, OpenBySerial(s) PROVE SerialFacts'
  BY <1>5, SerialOpenBySerial
<1>6. ASSUME NEW d \in D, Restart(d) PROVE SerialFacts'
  BY <1>6, SerialStays DEF Restart, opening
<1>7. ASSUME NEW i \in DOMAIN linked, Close(i) PROVE SerialFacts'
  BY <1>7, SerialStays DEF Close, opening
<1>8. CASE Uploading \/ UploadFails
  BY <1>8, SerialStays DEF Uploading, UploadFails, opening
<1>9. CASE GiveUp
  BY <1>0, <1>9, SerialGoesOn DEF GiveUp
<1>10. CASE Shutdown
  BY <1>10, SerialStays DEF Shutdown, opening
<1>11. CASE OpenCamera
  <2> DEFINE d == pdev.found
             newer == Bus[d].kind = "new camera"
  <2>1. ostage = "camera" /\ pdev \in DevRec  BY <1>11 DEF OpenCamera, DevFacts
  <2>2. CASE ostage' = "motor" /\ UNCHANGED <<pdev, oresult, faults>>
    BY <1>0, <2>1, <2>2, SerialGoesOn
  <2>3. ASSUME NEW a \in {Nothing} \cup KeptAlive(d),
               OpensAs("camera", d, [pdev EXCEPT !.does_alt = newer, !.reset = a]),
               ostage' = "motor"
        PROVE  SerialFacts'
    <3> DEFINE more == [pdev EXCEPT !.does_alt = newer, !.reset = a]
    <3>1. more \in DevRec /\ more.found = pdev.found /\ more.devs = pdev.devs
          /\ more.camera = pdev.camera
      <4>1. d \in D  BY <2>1 DEF DevRec
      <4>2. a \in D \cup {Nothing}  BY <2>1, <4>1, KeptAliveFacts
      <4>. QED  BY <2>1, <4>2 DEF DevRec
    <3>. HIDE DEF more
    <3>2. OpensAs("camera", d, more)  BY <2>3 DEF more
    <3>. QED  BY <1>0, <2>1, <2>3, <3>1, <3>2, SerialOpensAs
  <2>4. CASE CannotOpen(d)
    BY <2>4, SerialCannotOpen
  <2>. QED  BY <1>11, <2>2, <2>3, <2>4 DEF OpenCamera
<1>12. CASE OpenMotor
  <2>1. ostage = "motor" /\ pdev \in DevRec  BY <1>12 DEF OpenMotor, DevFacts
  <2>2. CASE ostage' = "audio" /\ UNCHANGED <<pdev, oresult, faults>>
    BY <1>0, <2>1, <2>2, SerialGoesOn
  <2>3. ASSUME NEW d, OpensAs("motor", d, pdev), ostage' = "audio" PROVE SerialFacts'
    BY <1>0, <2>1, <2>3, SerialOpensAs
  <2>4. ASSUME NEW d, Failure \/ CannotOpen(d) PROVE SerialFacts'
    BY <2>4, SerialCannotOpen
  <2>. QED  BY <1>12, <2>2, <2>3, <2>4 DEF OpenMotor
<1>13. CASE OpenAudio
  <2> DEFINE more == [pdev EXCEPT !.alt = pdev.does_alt]
  <2>1. ostage = "audio" /\ pdev \in DevRec  BY <1>13 DEF OpenAudio, DevFacts
  <2>2. CASE ostage' = "last" /\ UNCHANGED <<pdev, oresult, faults>>
    BY <1>0, <2>1, <2>2, SerialGoesOn
  <2>3. ASSUME NEW d, OpensAs("audio", d, pdev), ostage' = "upload" PROVE SerialFacts'
    BY <1>0, <2>1, <2>3, SerialOpensAs
  <2>4. ASSUME NEW d, OpensAs("audio", d, more), ostage' = "last" PROVE SerialFacts'
    <3>1. more \in DevRec /\ more.found = pdev.found /\ more.devs = pdev.devs
          /\ more.camera = pdev.camera
      BY <2>1 DEF DevRec
    <3>. HIDE DEF more
    <3>2. OpensAs("audio", d, more)  BY <2>4 DEF more
    <3>. QED  BY <1>0, <2>1, <2>4, <3>1, <3>2, SerialOpensAs
  <2>5. ASSUME NEW d, Failure \/ CannotOpen(d) PROVE SerialFacts'
    BY <2>5, SerialCannotOpen
  <2>. QED  BY <1>13, <2>2, <2>3, <2>4, <2>5 DEF OpenAudio
<1>14. CASE Uploaded
  <2>1. ostage = "upload" /\ pdev \in DevRec /\ faults' = faults
    BY <1>14 DEF Uploaded, DevFacts
  <2>2. CASE Failure
    BY <2>2, SerialCannotOpen
  <2>3. CASE pdev' = [pdev EXCEPT !.audio = Nothing, !.waits = pdev.audio]
             /\ ostage' = "wait" /\ UNCHANGED oresult
    <3>1. pdev'.found = pdev.found /\ pdev'.devs = pdev.devs /\ pdev'.camera = pdev.camera
      BY <2>1, <2>3 DEF DevRec
    <3>. QED  BY <1>0, <2>1, <2>3, <3>1, SerialGoesOn
  <2>. QED  BY <1>14, <2>2, <2>3 DEF Uploaded
<1>15. CASE Look
  <2>1. ostage = "wait" /\ pdev \in DevRec /\ faults' \in {faults, faults + 1} /\ oresult' = oresult
        /\ ostage' # "idle"
    BY <1>15 DEF Look, DevFacts, CallFails
  <2>2. pdev' = pdev \/ \E it : pdev' = [pdev EXCEPT !.audio = it, !.alt = pdev.does_alt]
    BY <1>15 DEF Look
  <2>3. pdev'.found = pdev.found /\ pdev'.devs = pdev.devs /\ pdev'.camera = pdev.camera
    BY <2>1, <2>2 DEF DevRec
  <2>. QED  BY <1>0, <2>1, <2>3, SerialGoesOn
<1>16. CASE Last
  <2> DEFINE dev == IF AllOpen THEN pdev
                    ELSE [pdev EXCEPT !.camera = Nothing, !.motor = Nothing, !.audio = Nothing]
  <2>1. ostage = "last" /\ pdev \in DevRec /\ ostage' = "idle"
    BY <1>16 DEF Last, DevFacts
  <2>2. CASE oresult' = [oresult EXCEPT !.ok = TRUE, !.dev = dev] /\ UNCHANGED faults
    <3>1. oresult' = [ok |-> TRUE, dev |-> dev, asked |-> oresult.asked]
      BY <2>2 DEF SerialFacts
    <3>2. dev.found = pdev.found /\ dev.devs = pdev.devs
          /\ dev.camera \in {Nothing, pdev.camera}
      BY <2>1 DEF DevRec
    <3>. HIDE DEF dev
    <3>3. oresult.asked # "none" /\ faults = 0 => RightCamera(oresult.asked, dev)
      BY <2>1, <3>2 DEF SerialFacts, RightCamera
    <3>4. dev.camera # Nothing => dev.camera = dev.found
      BY <2>1, <3>2 DEF SerialFacts
    <3>5. /\ oresult'.ok = TRUE /\ oresult'.dev = dev /\ oresult'.asked = oresult.asked
          /\ oresult' = [ok |-> oresult'.ok, dev |-> oresult'.dev, asked |-> oresult'.asked]
      BY <3>1
    <3>6. oresult'.asked # "none" /\ faults' = 0 => RightCamera(oresult'.asked, oresult'.dev)
      BY <2>2, <3>3, <3>5
    <3>. QED  BY <2>1, <3>4, <3>5, <3>6 DEF SerialFacts, RightCamera, AudioAt
  <2>3. CASE oresult' = [oresult EXCEPT !.ok = FALSE, !.dev = dev]
    <3>1. oresult' = [ok |-> FALSE, dev |-> dev, asked |-> oresult.asked]
      BY <2>3 DEF SerialFacts
    <3>. QED  BY <2>1, <3>1 DEF SerialFacts
  <2>. QED  BY <1>16, <2>2, <2>3 DEF Last
<1>. QED
  BY <1>1, <1>2, <1>3, <1>4, <1>5, <1>6, <1>7, <1>8, <1>9, <1>10, <1>11, <1>12, <1>13,
     <1>14, <1>15, <1>16
  DEF DevNext

-----------------------------------------------------------------------------
(* The theorems. *)

LEMMA DevFactsHold == DevSpec => []DevFacts
BY DevStarts, DevStepKeeps, PTL DEF DevSpec

\* An upload launches what it has sent whole, and reports success for nothing else,
\* whichever of its transfers fail and whatever the header of the image says.
THEOREM OnlyWholeFirmware == DevSpec => []LoaderInv
<1>1. DevFacts => LoaderInv  BY BoundsGiveLoaderInv DEF DevFacts
<1>. QED  BY <1>1, DevFactsHold, PTL

\* A client that selected the motor gets it, or the audio device that stands for
\* it, whichever Kinects it opened before.
\* A device whose camera is open has everything open that was selected, the motor
\* of a newer one by way of its audio device, and nothing else; only an older Kinect
\* opened after a newer one has no motor.  On every bus, whatever calls fail.
THEOREM SelectedGetsOpened == DevSpec => []SelectedIsOpen
<1>1. DevInit => WantFacts
  <2> SUFFICES ASSUME DevInit PROVE WantFacts  OBVIOUS
  <2>1. linked = <<>> /\ DOMAIN linked = {} /\ ostage = "idle"  BY DEF DevInit
  <2>. QED  BY <2>1 DEF WantFacts, WantsOpened
<1>2. DevFacts /\ WantFacts /\ [DevNext]_devVars => WantFacts'
  BY WantStep
<1>3. WantFacts => SelectedIsOpen
  BY DEF WantFacts, HasSelected, SelectedIsOpen
<1>. QED  BY <1>1, <1>2, <1>3, DevFactsHold, PTL DEF DevSpec

LEMMA FactsGiveHandlesHeld == DevFacts => HandlesHeld
<1> SUFFICES ASSUME DevFacts, NEW d \in D
             PROVE  /\ claimed[d] <=> Kinect(d) # {}
                    /\ Cardinality(Kinect(d)) <= 1
                    /\ handles[d] >= Cardinality(Kinect(d))
                    /\ \/ handles[d] = Cardinality(Kinect(d))
                       \/ Bus[d].kind = "audio" /\ \E e \in uploaded : Bus[e].serial # Bus[d].serial
  BY DEF HandlesHeld
<1>1. /\ claimed[d] <=> d \in Holding \/ Linked(d)
      /\ handles[d] >= Owners(d)
      /\ handles[d] = Owners(d) \/ Stray(d)
  BY DEF DevFacts, HandleFacts, ClaimedByOne, HandlesCounted
<1>2. claimed[d] <=> Kinect(d) # {}
  BY <1>1 DEF Kinect, Holding, Linked
<1>3. \A x, y \in Kinect(d) : x = y
  BY DEF DevFacts, HandleFacts, NotShared, Kinect, Holding
<1>4. Cardinality(Kinect(d)) = Owners(d)
  <2>1. CASE Kinect(d) = {}
    BY <1>2, <2>1, FS_EmptySet DEF Owners
  <2>2. CASE Kinect(d) # {}
    <3>1. PICK x : Kinect(d) = {x}  BY <1>3, <2>2
    <3>. QED  BY <1>2, <2>2, <3>1, FS_Singleton DEF Owners
  <2>. QED  BY <2>1, <2>2
<1>. QED  BY <1>1, <1>2, <1>4 DEF Owners, Stray

\* Every device of the bus is open as often as the context's devices hold it, and
\* none is held by two, whichever calls fail: but for the audio devices that are
\* opened while another one is waited for.
THEOREM NoHandleIsLost == DevSpec => []HandlesHeld
BY FactsGiveHandlesHeld, DevFactsHold, PTL

\* What a device is open to is of one Kinect, and a newer one that takes motor
\* commands has its audio device, if no two audio devices share a serial number.
THEOREM KinectsAreWhole ==
  ASSUME DistinctSerials
  PROVE  DevSpec => []WholeKinects
<1>1. DevInit => WholeFacts
  <2> SUFFICES ASSUME DevInit PROVE WholeFacts  OBVIOUS
  <2>1. linked = <<>> /\ DOMAIN linked = {} /\ ostage = "idle"  BY DEF DevInit
  <2>. QED  BY <2>1 DEF WholeFacts, OpenedWhole
<1>2. DevFacts /\ WholeFacts /\ [DevNext]_devVars => WholeFacts'
  BY WholeStep
<1>3. WholeFacts => WholeKinects
  BY DEF WholeFacts, WholeKinect, WholeKinects, AtItsHub
<1>. QED  BY <1>1, <1>2, <1>3, DevFactsHold, PTL DEF DevSpec

\* A device opened by its serial number is the one with that number, as long as
\* nothing fails and the audio device of a newer one is on the bus.
THEOREM SerialIsRight == DevSpec => []SerialOpensIt
<1>1. DevInit => SerialFacts
  BY DEF DevInit, SerialFacts
<1>2. DevFacts /\ SerialFacts /\ [DevNext]_devVars => SerialFacts'
  BY SerialStep
<1>3. SerialFacts => SerialOpensIt
  BY DEF SerialFacts, SerialOpensIt, RightCamera
<1>. QED  BY <1>1, <1>2, <1>3, DevFactsHold, PTL DEF DevSpec

\* All that DevInv says, of every bus whose audio devices have numbers of their own.
THEOREM DevicesAreSafe ==
  ASSUME DistinctSerials
  PROVE  DevSpec => []DevInv
<1>1. DevFacts => DevTypeOK  BY DEF DevFacts
<1>2. DevTypeOK /\ HandlesHeld /\ WholeKinects /\ SelectedIsOpen /\ SerialOpensIt => DevInv
  BY DEF DevInv
<1>. QED
  BY <1>1, <1>2, DevFactsHold, NoHandleIsLost, KinectsAreWhole, SelectedGetsOpened, SerialIsRight, PTL
=============================================================================
