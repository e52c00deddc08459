---------------------------- MODULE UsbImport_proofs ----------------------------
(***************************************************************************)
(* Proofs about UsbImport, for any panels, sticks and photos: its types,   *)
(* what the service mounted is on record, no photo is lost or doubled, and *)
(* a copy that is reported done has brought them all.                      *)
(***************************************************************************)
EXTENDS UsbImport, FiniteSetTheorems, WellFoundedInduction, TLAPS

(***************************************************************************)
(* Mounts                                                                  *)
(***************************************************************************)

\* Until a request has its volume, none is on record: it let go of the last.
NoneOnRecord == holder.at \in {"unmount", "lsblk", "lookup", "mount", "verify"} => ~here

MountInv == DOMAIN mounted = Device /\ NoneOnRecord /\ MountsAreOnRecord

\* What a request does when it gets the lock.
LEMMA EnterKeepsMounts ==
    ASSUME MountInv, NEW req, NEW shown, holder = NoHolder, Enter(req, shown), UNCHANGED <<mounted, lost>>
    PROVE  MountInv'
  <1>0. holder.at = "free"
    BY DEF NoHolder
  <1>1. CASE StartCopy(req, shown)
    <2>1. UNCHANGED <<volume, here>> /\ (holder'.at = "started" \/ holder'.at = "free")
      BY <1>1 DEF StartCopy, volumeVars, Holds, Free, NoHolder
    <2> QED BY <1>0, <2>1 DEF MountInv, NoneOnRecord, MountsAreOnRecord
  <1>2. CASE Release(req, shown) /\ here
    <2>1. ~here' /\ holder' = [req |-> req, at |-> "unmount", dev |-> volume]
      BY <1>2 DEF Release, Holds
    <2> QED BY <1>0, <2>1 DEF MountInv, NoneOnRecord, MountsAreOnRecord
  <1>3. CASE Release(req, shown) /\ ~here
    <2>1. ~here'
      BY <1>3 DEF Release
    <2> QED BY <1>0, <1>3, <2>1 DEF MountInv, NoneOnRecord, MountsAreOnRecord
  <1> QED BY <1>1, <1>2, <1>3 DEF Enter

\* A request comes and takes the lock, or waits for it.
LEMMA AcquireKeepsMounts ==
    ASSUME MountInv, NEW req, NEW shown, Acquire(req, shown), UNCHANGED <<mounted, lost>>
    PROVE  MountInv'
  <1>1. CASE holder = NoHolder /\ Enter(req, shown)
    BY <1>1, EnterKeepsMounts
  <1>2. CASE UNCHANGED <<volumeVars, holder>>
    BY <1>2 DEF MountInv, NoneOnRecord, MountsAreOnRecord, volumeVars
  <1> QED BY <1>1, <1>2 DEF Acquire

LEMMA PanelKeepsMounts ==
    ASSUME MountInv, NEW c \in Client, List(c) \/ Scan(c) \/ Start(c) \/ Close(c)
    PROVE  MountInv'
  <1>1. UNCHANGED <<mounted, lost>>
    BY DEF List, Scan, Start, Close, stickVars
  <1>2. \/ \E req, shown : Acquire(req, shown)
        \/ UNCHANGED <<volumeVars, holder>>
    BY DEF List, Scan, Start, Close, Refuse
  <1> QED BY <1>1, <1>2, AcquireKeepsMounts DEF MountInv, NoneOnRecord, MountsAreOnRecord, volumeVars

LEMMA HolderKeepsMounts ==
    ASSUME MountInv, Unmounted \/ Listed \/ Looked \/ Mounted \/ Verified \/ Read \/ Started
    PROVE  MountInv'
  <1> USE DEF MountInv
  <1>1. CASE Unmounted
    <2>1. /\ holder.at = "unmount" /\ UNCHANGED <<volume, here>>
          /\ \/ mounted' = [mounted EXCEPT ![holder.dev] = "no"] /\ UNCHANGED lost
             \/ lost' = lost \cup {holder.dev} /\ UNCHANGED mounted
      BY <1>1 DEF Unmounted, volumeVars
    <2> QED BY <2>1 DEF NoneOnRecord, MountsAreOnRecord
  <1>2. CASE Listed \/ Read \/ Started
    <2>1. /\ holder.at \in {"lsblk", "read", "started"} /\ holder'.at = "free"
          /\ UNCHANGED <<volume, here, mounted, lost>>
      BY <1>2 DEF Listed, Read, Started, At, Free, Fail, NoHolder, volumeVars, stickVars
    <2> QED BY <2>1 DEF NoneOnRecord, MountsAreOnRecord
  <1>3. CASE Looked
    <2>1. /\ holder.at = "lookup" /\ UNCHANGED <<here, mounted, lost>>
          /\ holder'.at \in {"read", "mount", "free"}
      BY <1>3 DEF Looked, At, Fail, Free, NoHolder, Holds, volumeVars, stickVars
    <2> QED BY <2>1 DEF NoneOnRecord, MountsAreOnRecord
  <1>4. CASE Mounted
    <2> DEFINE d == holder.dev
               taken == IF Readable(d) THEN mounted ELSE [mounted EXCEPT ![d] = "us"]
    <2>1. /\ holder.at = "mount" /\ UNCHANGED <<volume, here>>
          /\ \/ mounted' = taken /\ holder'.at = "verify" /\ holder'.dev = d /\ UNCHANGED lost
             \/ UNCHANGED <<mounted, lost>> /\ holder'.at = "free"
             \/ /\ mounted' \in {mounted, taken} /\ holder'.at = "free"
                /\ lost' = IF mounted'[d] = "us" THEN lost \cup {d} ELSE lost
      BY <1>4 DEF Mounted, At, Fail, Free, NoHolder, Holds, volumeVars
    <2> QED BY <2>1 DEF NoneOnRecord, MountsAreOnRecord
  <1>5. CASE Verified
    <2> DEFINE d == holder.dev
    <2>1. /\ holder.at = "verify" /\ UNCHANGED mounted
          /\ \/ volume' = d /\ here' = TRUE /\ holder'.at = "read" /\ UNCHANGED lost
             \/ /\ UNCHANGED <<volume, here>> /\ holder'.at = "free"
                /\ lost' = IF mounted[d] = "us" THEN lost \cup {d} ELSE lost
      BY <1>5 DEF Verified, At, Fail, Free, NoHolder, Holds, volumeVars, stickVars
    <2> QED BY <2>1 DEF NoneOnRecord, MountsAreOnRecord
  <1> QED BY <1>1, <1>2, <1>3, <1>4, <1>5

LEMMA WorldKeepsMounts ==
    ASSUME MountInv,
           \/ \E c \in Client : Leave(c)
           \/ \E d \in Device : DesktopMounts(d) \/ Unplug(d) \/ Plug(d)
           \/ Copy \/ Progress \/ Crash \/ UNCHANGED vars
    PROVE  MountInv'
  <1> USE DEF MountInv
  <1>1. ASSUME NEW c \in Client, Leave(c) PROVE MountInv'
    <2>1. CASE UNCHANGED <<holder, mounted, lost>>
      BY <1>1, <2>1 DEF Leave, volumeVars, NoneOnRecord, MountsAreOnRecord
    <2>2. CASE ~UNCHANGED <<holder, mounted, lost>>
      <3>1. /\ holder'.at = "free" /\ UNCHANGED <<volume, here>>
            /\ \/ /\ holder.at = "mount"
                  /\ mounted' = [mounted EXCEPT ![holder.dev] = "us"]
               \/ /\ holder.at = "unmount"
                  /\ mounted' = [mounted EXCEPT ![holder.dev] = "no"]
               \/ UNCHANGED mounted
            /\ lost' = lost \cup {d \in {holder.dev} : /\ holder.at \in {"mount", "verify", "unmount"}
                                                       /\ mounted'[d] = "us"}
        BY <1>1, <2>2 DEF Leave, Free, NoHolder, volumeVars
      <3> QED BY <3>1 DEF NoneOnRecord, MountsAreOnRecord
    <2> QED BY <2>1, <2>2
  <1>2. ASSUME NEW d \in Device, DesktopMounts(d) \/ Unplug(d) \/ Plug(d) PROVE MountInv'
    <2>1. /\ UNCHANGED <<volume, here, holder>> /\ DOMAIN mounted' = Device
          /\ \A e \in Device : mounted'[e] = "us" => mounted[e] = "us" /\ (e # d \/ UNCHANGED <<mounted, lost>>)
          /\ \A e \in Device : e \in lost /\ e # d => e \in lost'
      BY <1>2 DEF DesktopMounts, Unplug, Plug, volumeVars
    <2> QED BY <2>1 DEF NoneOnRecord, MountsAreOnRecord
  <1>3. CASE Copy \/ Progress \/ UNCHANGED vars
    <2>1. UNCHANGED <<volume, here, holder, mounted, lost>>
      BY <1>3 DEF Copy, NextFile, CopyFile, CopyOver, Progress, vars, volumeVars, stickVars
    <2> QED BY <2>1 DEF NoneOnRecord, MountsAreOnRecord
  <1>4. CASE Crash
    BY <1>4 DEF Crash, NoHolder, volumeVars, stickVars, NoneOnRecord, MountsAreOnRecord
  <1> QED BY <1>1, <1>2, <1>3, <1>4

LEMMA MountInvHolds == Spec => []MountInv
  <1>1. Init => MountInv
    BY DEF Init, MountInv, NoneOnRecord, MountsAreOnRecord, NoHolder
  <1>2. MountInv /\ [Next]_vars => MountInv'
    <2> SUFFICES ASSUME MountInv, [Next]_vars PROVE MountInv'
      OBVIOUS
    <2>1. CASE Grant
      BY <2>1, EnterKeepsMounts DEF Grant, stickVars
    <2> QED BY <2>1, PanelKeepsMounts, HolderKeepsMounts, WorldKeepsMounts DEF Next, Holder
  <1> QED BY <1>1, <1>2, PTL DEF Spec

\* A volume the service mounted is unmounted again or on record, whatever panels
\* ask, the desktop does and commands fail, unless a call was lost over it.
THEOREM MountsStayOnRecord == Spec => []MountsAreOnRecord
  <1>1. MountInv => MountsAreOnRecord
    BY DEF MountInv
  <1> QED BY <1>1, MountInvHolds, PTL

(***************************************************************************)
(* Photos                                                                  *)
(***************************************************************************)

\* The folder has a file under each number below one that is taken.
NoGaps ==
    \A g \in album : \A k \in 1..g.nth - 1 : \E f \in album : f.name = g.name /\ f.nth = k

\* Whatever is copied was found on a volume.
KnownPhotos ==
    /\ plugged \subseteq Device /\ names \subseteq Photo
    /\ DOMAIN copy = {"step", "dev", "left", "on", "told", "failed"} /\ copy.left \subseteq Photo
    /\ holder.at = "read" => volume \in Device

AlbumInv ==
    /\ IsFiniteSet(album) /\ album \subseteq [name : STRING, nth : Nat \ {0}, size : Nat]
    /\ NoGaps /\ PhotosAreKept

PhotoInv == KnownPhotos /\ AlbumInv

\* destination_name: file n of the name is another photo.
Differs(p, n) == \E f \in album : f.name = p.name /\ f.nth = n /\ f.size # p.size

\* There is always a number to be had, by the pigeonhole principle, and the one
\* taken is the first.
LEMMA FirstNumber ==
    ASSUME IsFiniteSet(album), NEW p
    PROVE  /\ DestinationName(p) \in Nat \ {0} /\ ~Differs(p, DestinationName(p))
           /\ \A k \in 1..DestinationName(p) - 1 : Differs(p, k)
  <1> DEFINE top     == Cardinality(album) + 1
             Choices == {n \in 1..top : ~Differs(p, n)}
             Taken(n) == CHOOSE f \in album : f.name = p.name /\ f.nth = n /\ f.size # p.size
             taking  == [n \in 1..top |-> Taken(n)]
  <1>0. Cardinality(album) \in Nat
    BY FS_CardinalityType
  <1>1. Choices # {}
    <2> SUFFICES ASSUME Choices = {} PROVE FALSE
      OBVIOUS
    <2>1. \A n \in 1..top : Taken(n) \in album /\ Taken(n).nth = n
      BY DEF Differs
    <2> HIDE DEF Taken
    <2>2. taking \in [1..top -> album] /\ \A n \in 1..top : taking[n].nth = n
      BY <2>1
    <2> HIDE DEF taking
    <2>3. IsFiniteSet(1..top) /\ Cardinality(1..top) = Cardinality(album) + 1
      BY <1>0, FS_Interval
    <2>4. \E x, y \in 1..top : x # y /\ taking[x] = taking[y]
      BY <1>0, <2>2, <2>3, FS_PigeonHole
    <2> QED BY <2>2, <2>4
  <1>2. Choices \subseteq Nat
    BY <1>0
  <1>3. PICK n \in Choices : \A m \in Choices : ~(m < n)
    <2>1. \E n \in Choices : \A m \in Choices : <<m, n>> \notin OpToRel(<, Nat)
      BY <1>1, <1>2, NatLessThanWellFounded, WFMin
    <2> QED BY <1>2, <2>1 DEF OpToRel
  <1>4. \A k \in 1..n - 1 : Differs(p, k)
    BY <1>0, <1>3
  <1>5. n \in 1..top /\ ~Differs(p, n)
    BY <1>3
  <1>6. /\ DestinationName(p) \in 1..top /\ ~Differs(p, DestinationName(p))
        /\ \A k \in 1..DestinationName(p) - 1 : Differs(p, k)
    <2> DEFINE D == CHOOSE m \in 1..top : ~Differs(p, m) /\ \A k \in 1..m - 1 : Differs(p, k)
    <2>1. D \in 1..top /\ ~Differs(p, D) /\ \A k \in 1..D - 1 : Differs(p, k)
      BY <1>4, <1>5
    <2>2. DestinationName(p) = D
      BY DEF DestinationName, Differs
    <2> QED BY <2>1, <2>2
  <1> QED BY <1>0, <1>6

\* CopyFile.
LEMMA CopyKeepsAlbum ==
    ASSUME AlbumInv, NEW p, p.name \in STRING, p.size \in Nat,
           album' = album \cup {[name |-> p.name, nth |-> DestinationName(p), size |-> p.size]}
    PROVE  AlbumInv'
  <1> DEFINE n   == DestinationName(p)
             new == [name |-> p.name, nth |-> n, size |-> p.size]
  <1>1. n \in Nat \ {0} /\ ~Differs(p, n) /\ \A k \in 1..n - 1 : Differs(p, k)
    BY FirstNumber DEF AlbumInv
  <1> HIDE DEF n
  <1>2. album' = album \cup {new} /\ new \in [name : STRING, nth : Nat \ {0}, size : Nat]
    BY <1>1 DEF n
  <1>3. IsFiniteSet(album')
    <2>1. \A one : IsFiniteSet(album \cup {one})
      BY FS_AddElement DEF AlbumInv
    <2> QED BY <1>2, <2>1
  <1>4. NoGaps'
    <2>1. \A k \in 1..new.nth - 1 : \E f \in album : f.name = new.name /\ f.nth = k
      BY <1>1 DEF Differs
    <2> QED BY <1>2, <2>1 DEF AlbumInv, NoGaps
  <1>5. ASSUME NEW f \in album, f.name = new.name, f.nth = new.nth \/ f.size = new.size
        PROVE  f = new
    <2>1. f \in [name : STRING, nth : Nat \ {0}, size : Nat]
      BY DEF AlbumInv
    <2>2. CASE f.nth = n
      BY <1>1, <1>5, <2>1, <2>2 DEF Differs
    <2>3. CASE f.size = p.size /\ f.nth < n
      <3>1. PICK g \in album : g.name = p.name /\ g.nth = f.nth /\ g.size # p.size
        BY <1>1, <2>1, <2>3 DEF Differs
      <3> QED BY <1>5, <2>3, <3>1 DEF AlbumInv, PhotosAreKept
    <2>4. CASE f.size = p.size /\ n < f.nth
      <3>1. n \in 1..f.nth - 1
        BY <1>1, <2>1, <2>4
      <3>2. PICK g \in album : g.name = f.name /\ g.nth = n
        BY <3>1 DEF AlbumInv, NoGaps
      <3>3. g.size = p.size
        BY <1>1, <1>5, <3>2 DEF Differs
      <3> QED BY <1>5, <2>1, <2>4, <3>2, <3>3 DEF AlbumInv, PhotosAreKept
    <2> QED BY <1>1, <1>5, <2>1, <2>2, <2>3, <2>4
  <1>6. PhotosAreKept'
    BY <1>2, <1>5 DEF AlbumInv, PhotosAreKept
  <1> QED BY <1>2, <1>3, <1>4, <1>6 DEF AlbumInv

\* What a request does when it gets the lock finds nothing new.
LEMMA EnterKeepsPhotos ==
    ASSUME KnownPhotos, NEW req, NEW shown, Enter(req, shown), UNCHANGED plugged
    PROVE  KnownPhotos'
  <1>1. CASE StartCopy(req, shown)
    <2>1. UNCHANGED <<names, copy>> /\ holder'.at # "read"
      BY <1>1 DEF StartCopy, volumeVars, Holds, Free, NoHolder
    <2> QED BY <1>1, <2>1 DEF KnownPhotos
  <1>2. CASE Release(req, shown)
    <2>1. names' = {} /\ holder'.at # "read" /\ (UNCHANGED copy \/ copy' = NoCopy)
      BY <1>2 DEF Release, Released, Holds, Free, NoHolder
    <2> QED BY <2>1 DEF KnownPhotos, NoCopy
  <1> QED BY <1>1, <1>2 DEF Enter

LEMMA PanelKeepsPhotos ==
    ASSUME KnownPhotos, NEW c \in Client, List(c) \/ Scan(c) \/ Start(c) \/ Close(c)
    PROVE  KnownPhotos' /\ UNCHANGED album
  <1>1. UNCHANGED <<plugged, album>>
    BY DEF List, Scan, Start, Close, stickVars
  <1>2. \/ \E req, shown : Enter(req, shown)
        \/ UNCHANGED <<volumeVars, holder, copy>>
    BY DEF List, Scan, Start, Close, Refuse, Acquire
  <1> QED BY <1>1, <1>2, EnterKeepsPhotos DEF KnownPhotos, volumeVars

LEMMA HolderKeepsPhotos ==
    ASSUME KnownPhotos, Unmounted \/ Listed \/ Looked \/ Mounted \/ Verified \/ Read \/ Started
    PROVE  KnownPhotos' /\ UNCHANGED album
  <1> USE DEF KnownPhotos
  <1>1. CASE Unmounted
    <2>1. /\ UNCHANGED <<volume, names, plugged, album>> /\ holder'.at # "read"
          /\ UNCHANGED copy \/ copy' = NoCopy
      BY <1>1 DEF Unmounted, Released, Holds, Free, NoHolder, volumeVars
    <2> QED BY <2>1 DEF NoCopy
  <1>2. CASE Listed \/ Mounted
    <2>1. UNCHANGED <<volume, names, copy, plugged, album>> /\ holder'.at # "read"
      BY <1>2 DEF Listed, Mounted, Fail, Free, NoHolder, Holds, volumeVars, stickVars
    <2> QED BY <2>1
  <1>3. CASE Looked \/ Verified
    <2>1. UNCHANGED <<names, copy, plugged, album>> /\ (holder'.at = "read" => volume' \in plugged)
      BY <1>3 DEF Looked, Verified, Fail, Free, NoHolder, Holds, Readable, volumeVars, stickVars
    <2> QED BY <2>1
  <1>4. CASE Read
    <2>1. UNCHANGED <<copy, plugged, album>> /\ holder'.at # "read" /\ (UNCHANGED names \/ names' = Content[volume])
      BY <1>4 DEF Read, Fail, Free, NoHolder, stickVars
    <2>2. volume \in Device
      BY <1>4 DEF Read, At
    <2> QED BY <2>1, <2>2 DEF Photo
  <1>5. CASE Started
    <2>1. /\ copy' = [step |-> "running", dev |-> volume, left |-> names, on |-> FALSE,
                       told |-> FALSE, failed |-> FALSE]
          /\ UNCHANGED <<names, plugged, album>> /\ holder'.at # "read"
      BY <1>5 DEF Started, Free, NoHolder, volumeVars, stickVars
    <2> QED BY <2>1
  <1> QED BY <1>1, <1>2, <1>3, <1>4, <1>5

LEMMA WorldKeepsPhotos ==
    ASSUME KnownPhotos,
           \/ \E c \in Client : Leave(c)
           \/ \E d \in Device : DesktopMounts(d) \/ Unplug(d) \/ Plug(d)
           \/ NextFile \/ CopyOver \/ Progress \/ Crash \/ UNCHANGED vars
    PROVE  KnownPhotos' /\ UNCHANGED album
  <1> USE DEF KnownPhotos
  <1>1. ASSUME NEW c \in Client, Leave(c) PROVE KnownPhotos' /\ UNCHANGED album
    <2>1. UNCHANGED <<volume, names, copy, plugged, album>> /\ (UNCHANGED holder \/ holder' = NoHolder)
      BY <1>1 DEF Leave, Free, volumeVars
    <2> QED BY <2>1 DEF NoHolder
  <1>2. ASSUME NEW d \in Device, DesktopMounts(d) \/ Unplug(d) \/ Plug(d) PROVE KnownPhotos' /\ UNCHANGED album
    BY <1>2 DEF DesktopMounts, Unplug, Plug, volumeVars
  <1>3. CASE NextFile \/ CopyOver \/ Progress
    BY <1>3 DEF NextFile, CopyOver, Progress, volumeVars, stickVars
  <1>4. CASE Crash
    BY <1>4 DEF Crash, NoHolder, NoCopy, stickVars
  <1>5. CASE UNCHANGED vars
    BY <1>5 DEF vars, volumeVars, stickVars
  <1> QED BY <1>1, <1>2, <1>3, <1>4, <1>5

LEMMA CopyKeepsPhotos == ASSUME PhotoInv, CopyFile PROVE PhotoInv'
  <1>1. PICK p \in copy.left :
            /\ album' = album \cup {[name |-> p.name, nth |-> DestinationName(p), size |-> p.size]}
            /\ copy' = [copy EXCEPT !.left = @ \ {p}, !.on = FALSE, !.told = FALSE]
    BY DEF CopyFile
  <1>2. p \in [name : STRING, size : Nat]
    BY <1>1, ContentAssumption DEF PhotoInv, KnownPhotos, Photo
  <1>3. AlbumInv'
    BY <1>1, <1>2, CopyKeepsAlbum DEF PhotoInv
  <1>4. UNCHANGED <<volume, names, plugged, holder>>
    BY DEF CopyFile, volumeVars, stickVars
  <1> QED BY <1>1, <1>3, <1>4 DEF PhotoInv, KnownPhotos

LEMMA PhotoInvHolds == Spec => []PhotoInv
  <1>1. Init => PhotoInv
    <2> SUFFICES ASSUME Init PROVE PhotoInv
      OBVIOUS
    <2>1. KnownPhotos
      BY DEF Init, KnownPhotos, NoCopy, NoHolder
    <2>2. album = {} \/ album = Earlier
      BY DEF Init
    <2>3. AlbumInv
      <3>1. album \subseteq [name : STRING, nth : {1}, size : Nat] /\ PhotosAreKept
        BY <2>2, ContentAssumption DEF PhotosAreKept
      <3>2. IsFiniteSet(album)
        BY <2>2, ContentAssumption, FS_EmptySet
      <3>3. NoGaps /\ album \subseteq [name : STRING, nth : Nat \ {0}, size : Nat]
        BY <3>1 DEF NoGaps
      <3> QED BY <3>1, <3>2, <3>3 DEF AlbumInv
    <2> QED BY <2>1, <2>3 DEF PhotoInv
  <1>2. PhotoInv /\ [Next]_vars => PhotoInv'
    <2> SUFFICES ASSUME PhotoInv, [Next]_vars PROVE PhotoInv'
      OBVIOUS
    <2>1. CASE CopyFile
      BY <2>1, CopyKeepsPhotos
    <2>2. CASE KnownPhotos' /\ UNCHANGED album
      BY <2>2 DEF PhotoInv, AlbumInv, NoGaps, PhotosAreKept
    <2>3. CASE Grant
      BY <2>2, <2>3, EnterKeepsPhotos DEF Grant, stickVars, PhotoInv
    <2> QED BY <2>1, <2>2, <2>3, PanelKeepsPhotos, HolderKeepsPhotos, WorldKeepsPhotos DEF Next, Holder, Copy, PhotoInv
  <1> QED BY <1>1, <1>2, PTL DEF Spec

\* No photo in the folder is replaced by another one of its name, and none is
\* imported twice, from however many cameras and by however many flows.
THEOREM PhotosStay == Spec => []PhotosAreKept
  <1>1. PhotoInv => PhotosAreKept
    BY DEF PhotoInv, AlbumInv
  <1> QED BY <1>1, PhotoInvHolds, PTL

(***************************************************************************)
(* Types                                                                   *)
(***************************************************************************)

\* Leaving a queue: what is left was in it, and is not the client's.
LEMMA WithoutIsLess ==
    ASSUME NEW S, queue \in Seq(S), NEW c
    PROVE  /\ Without(c) \in Seq(S)
           /\ \A i \in 1..Len(Without(c)) :
                  \E j \in 1..Len(queue) : Without(c)[i] = queue[j] /\ queue[j].by # c
  <1> DEFINE kept      == {i \in 1..Len(queue) : queue[i].by # c}
             before(i) == {j \in kept : j < i}
             size      == Cardinality(kept)
             rank      == [i \in kept |-> Cardinality(before(i))]
             one(n)    == CHOOSE i \in kept : Cardinality(before(i)) = n - 1
  <1>1. Len(queue) \in Nat /\ kept \subseteq Nat /\ IsFiniteSet(kept) /\ size \in Nat
    <2>1. Len(queue) \in Nat /\ kept \subseteq 1..Len(queue)
      OBVIOUS
    <2>2. IsFiniteSet(1..Len(queue))
      BY <2>1, FS_Interval
    <2>3. IsFiniteSet(kept)
      BY <2>1, <2>2, FS_Subset
    <2> QED BY <2>1, <2>3, FS_CardinalityType
  <1>2. \A i \in kept : IsFiniteSet(before(i)) /\ Cardinality(before(i)) \in Nat
    BY <1>1, FS_Subset, FS_CardinalityType
  <1>3. \A S1, T1 : IsFiniteSet(T1) /\ S1 \subseteq T1 => \A x \in T1 \ S1 : Cardinality(S1) < Cardinality(T1)
    <2> SUFFICES ASSUME NEW S1, NEW T1, IsFiniteSet(T1), S1 \subseteq T1, NEW x \in T1 \ S1
                 PROVE  Cardinality(S1) < Cardinality(T1)
      OBVIOUS
    <2>1. IsFiniteSet(S1) /\ Cardinality(S1) <= Cardinality(T1) /\ Cardinality(S1) # Cardinality(T1)
      BY FS_Subset
    <2>2. Cardinality(S1) \in Nat /\ Cardinality(T1) \in Nat
      BY <2>1, FS_CardinalityType
    <2> QED BY <2>1, <2>2
  <1>4. \A i \in kept : Cardinality(before(i)) < size
    <2> SUFFICES ASSUME NEW i \in kept PROVE Cardinality(before(i)) < size
      OBVIOUS
    <2>1. before(i) \subseteq kept /\ i \in kept \ before(i)
      BY <1>1
    <2> QED BY <1>1, <1>3, <2>1
  <1>5. \A i, j \in kept : i < j => Cardinality(before(i)) < Cardinality(before(j))
    <2> SUFFICES ASSUME NEW i \in kept, NEW j \in kept, i < j
                 PROVE  Cardinality(before(i)) < Cardinality(before(j))
      OBVIOUS
    <2>1. before(i) \subseteq before(j) /\ i \in before(j) \ before(i)
      BY <1>1
    <2> QED BY <1>2, <1>3, <2>1
  <1> HIDE DEF before, size
  <1>6. rank \in Injection(kept, 0..size - 1)
    <2>1. rank \in [kept -> 0..size - 1]
      BY <1>1, <1>2, <1>4
    <2>2. ASSUME NEW i \in kept, NEW j \in kept, rank[i] = rank[j] PROVE i = j
      <3>1. ~(i < j) /\ ~(j < i)
        BY <1>2, <1>5, <2>2
      <3> QED BY <1>1, <3>1
    <2> QED BY <2>1, <2>2 DEF Injection, IsInjective
  <1>7. rank \in Surjection(kept, 0..size - 1)
    <2>1. IsFiniteSet(0..size - 1) /\ Cardinality(0..size - 1) = size
      <3>1. \A n \in Int : IsFiniteSet(0..n) /\ Cardinality(0..n) = IF 0 > n THEN 0 ELSE n - 0 + 1
        BY FS_Interval
      <3>2. PICK n \in Int : n = size - 1
        BY <1>1
      <3>3. IsFiniteSet(0..n) /\ Cardinality(0..n) = IF 0 > n THEN 0 ELSE n - 0 + 1
        BY <3>1
      <3>4. Cardinality(0..n) = size
        BY <1>1, <3>2, <3>3
      <3> QED BY <3>2, <3>3, <3>4
    <2> QED BY <1>6, <2>1, FS_Injection DEF size
  <1>8. \A n \in 1..size : one(n) \in kept
    <2> SUFFICES ASSUME NEW n \in 1..size PROVE \E i \in kept : Cardinality(before(i)) = n - 1
      OBVIOUS
    <2>1. n - 1 \in 0..size - 1
      BY <1>1
    <2> QED BY <1>7, <2>1 DEF Surjection
  <1> HIDE DEF one
  <1>9. Without(c) = [n \in 1..size |-> queue[one(n)]]
    BY DEF Without, one, size, before
  <1>10. \A n \in 1..size : queue[one(n)] \in S
    BY <1>8
  <1>11. Without(c) \in Seq(S) /\ Len(Without(c)) = size
    BY <1>1, <1>9, <1>10
  <1> QED BY <1>8, <1>9, <1>11

FlowTypes == owner \in Client \cup {None} /\ id \in 0..MaxFlows /\ phase \in Phase

VolumeTypes ==
    /\ volume \in Device \cup {None} /\ here \in BOOLEAN /\ cancel \in BOOLEAN
    /\ here => volume # None
    /\ names # {} => volume # None /\ names = Content[volume]

HolderTypes == holder \in [req : Request, at : Wait, dev : Device \cup {None}] \cup {NoHolder}

CopyTypes ==
    copy \in [step : {"none", "running", "ending"}, dev : Device \cup {None},
              left : SUBSET Photo, on : BOOLEAN, told : BOOLEAN, failed : BOOLEAN]

StickTypes ==
    /\ mounted \in [Device -> {"no", "us", "desktop"}] /\ plugged \subseteq Device
    /\ lost \subseteq Device /\ troubles \in 0..MaxTroubles

Dialogs == [Client -> [id : 0..MaxFlows, phase : Phase]]

\* What a step of the holder may count on: nothing is found yet until the scan
\* has read, and the volume it works on is there.
HolderKnows ==
    /\ holder.at \in Wait \ {"started"} => names = {}
    /\ holder.at \in {"unmount", "mount", "verify"} => holder.dev \in Device
    /\ holder.at = "read" => volume \in Device
    /\ holder.at = "started" => holder.req.op = "start" /\ phase = "copying" /\ names # {}

ServiceTypes ==
    /\ FlowTypes /\ VolumeTypes /\ HolderTypes /\ queue \in Seq(Request) /\ CopyTypes
    /\ StickTypes /\ dialog \in Dialogs /\ HolderKnows

LEMMA SentIsADialog ==
    ASSUME NEW shown \in Dialogs, NEW to, NEW flow, NEW now \in Phase
    PROVE  Sent(shown, to, flow, now) \in Dialogs
  BY DEF Sent, Dialogs

LEMMA FreeIsTyped == ASSUME Free PROVE HolderTypes' /\ HolderKnows'
  BY DEF Free, HolderTypes, HolderKnows, NoHolder, Wait

\* The holder waits on, for the volume it is about.
LEMMA HoldsIsTyped ==
    ASSUME NEW req \in Request, NEW at \in Wait \ {"started"}, NEW dev \in Device \cup {None},
           Holds(req, at, dev), names' = {},
           at \in {"unmount", "mount", "verify"} => dev \in Device,
           at = "read" => volume' \in Device
    PROVE  HolderTypes' /\ HolderKnows'
  <1>1. holder' = [req |-> req, at |-> at, dev |-> dev]
    BY DEF Holds
  <1>2. holder'.at = at /\ holder'.dev = dev
    BY <1>1
  <1>3. at # "started"
    OBVIOUS
  <1> QED BY <1>1, <1>2, <1>3 DEF HolderTypes, HolderKnows

\* The volume is let go: the request goes on at once.
LEMMA ReleasedIsTyped ==
    ASSUME NEW req \in Request, NEW shown \in Dialogs, Released(req, shown),
           FlowTypes, CopyTypes, names' = {}
    PROVE  FlowTypes' /\ HolderTypes' /\ HolderKnows' /\ CopyTypes' /\ dialog' \in Dialogs
  <1>0. /\ req.by \in Client \cup {None} /\ req.id \in 0..MaxFlows /\ req.dev \in Device \cup {None}
        /\ \A now \in Phase : \A to, flow : Sent(shown, to, flow, now) \in Dialogs
    BY SentIsADialog DEF Request
  <1>1. CASE req.op = "list"
    <2>1. /\ phase' = "listing" /\ owner' = req.by /\ id' = req.id /\ UNCHANGED copy
          /\ Holds(req, "lsblk", None) /\ dialog' = Sent(shown, req.by, req.id, "listing")
      BY <1>1 DEF Released
    <2>2. HolderTypes' /\ HolderKnows'
      BY <2>1, HoldsIsTyped DEF Wait
    <2> QED BY <1>0, <2>1, <2>2 DEF FlowTypes, CopyTypes, Phase
  <1>2. CASE req.op = "scan"
    <2>1. /\ phase' = "scanning" /\ UNCHANGED <<owner, id, copy>>
          /\ Holds(req, "lookup", req.dev) /\ dialog' = Sent(shown, owner, id, "scanning")
      BY <1>2 DEF Released
    <2>2. HolderTypes' /\ HolderKnows'
      BY <1>0, <2>1, HoldsIsTyped DEF Wait
    <2> QED BY <1>0, <2>1, <2>2 DEF FlowTypes, CopyTypes, Phase
  <1>3. CASE req.op = "close"
    <2>1. phase' = "idle" /\ owner' = None /\ UNCHANGED <<id, copy>> /\ Free /\ dialog' = shown
      BY <1>3 DEF Released
    <2> QED BY <2>1, FreeIsTyped DEF FlowTypes, CopyTypes, Phase
  <1>4. CASE req.op = "end"
    <2>1. /\ phase' \in {"error", "done"} /\ UNCHANGED <<owner, id>> /\ copy' = NoCopy
          /\ Free /\ dialog' = Sent(shown, owner, id, phase')
      BY <1>4 DEF Released
    <2>2. phase' \in Phase
      BY <2>1 DEF Phase
    <2>3. CopyTypes'
      BY <2>1 DEF CopyTypes, NoCopy
    <2> QED BY <1>0, <2>1, <2>2, <2>3, FreeIsTyped DEF FlowTypes
  <1> QED BY <1>1, <1>2, <1>3, <1>4 DEF Released

LEMMA EnterIsTyped ==
    ASSUME ServiceTypes, NEW req \in Request, NEW shown \in Dialogs, Enter(req, shown)
    PROVE  /\ FlowTypes' /\ VolumeTypes' /\ HolderTypes' /\ HolderKnows' /\ CopyTypes'
           /\ dialog' \in Dialogs /\ troubles' \in 0..MaxTroubles
  <1> USE DEF ServiceTypes
  <1>0. \A now \in Phase : \A to, flow : Sent(shown, to, flow, now) \in Dialogs
    BY SentIsADialog
  <1>1. CASE req.op = "start" /\ phase' = "copying"
    <2>1. /\ names # {} /\ cancel' = FALSE /\ dialog' = shown /\ UNCHANGED troubles
          /\ holder' = [req |-> req, at |-> "started", dev |-> volume]
          /\ UNCHANGED <<owner, id, volume, here, names, copy>>
      BY <1>1 DEF Enter, StartCopy, Holds, volumeVars
    <2>2. HolderTypes' /\ HolderKnows'
      BY <1>1, <2>1 DEF HolderTypes, HolderKnows, VolumeTypes, Wait
    <2> QED BY <1>1, <2>1, <2>2 DEF FlowTypes, VolumeTypes, CopyTypes, StickTypes, Phase
  <1>2. CASE req.op = "start" /\ phase' # "copying"
    <2>1. /\ Free /\ UNCHANGED <<owner, id, volume, here, names, cancel, copy>> /\ phase' = "error"
          /\ dialog' = Sent(shown, owner, id, "error")
          /\ UNCHANGED troubles \/ (troubles < MaxTroubles /\ troubles' = troubles + 1)
      BY <1>2 DEF Enter, StartCopy, volumeVars
    <2>2. troubles' \in 0..MaxTroubles
      BY <2>1, BoundAssumption DEF StickTypes
    <2> QED BY <1>0, <2>1, <2>2, FreeIsTyped DEF FlowTypes, VolumeTypes, CopyTypes, Phase
  <1>3. CASE req.op # "start" /\ here
    <2>1. /\ volume' = None /\ here' = FALSE /\ names' = {} /\ UNCHANGED <<cancel, troubles, phase, copy>>
          /\ Holds(req, "unmount", volume) /\ dialog' = shown
          /\ owner' \in {owner, req.by} /\ id' \in {id, req.id}
      BY <1>3 DEF Enter, Release
    <2>2. volume \in Device
      BY <1>3 DEF VolumeTypes
    <2>3. HolderTypes' /\ HolderKnows'
      BY <2>1, <2>2, HoldsIsTyped DEF Wait
    <2>4. req.by \in Client \cup {None} /\ req.id \in 0..MaxFlows
      BY DEF Request
    <2> QED BY <2>1, <2>3, <2>4 DEF FlowTypes, VolumeTypes, CopyTypes, StickTypes
  <1>4. CASE req.op # "start" /\ ~here
    <2>1. /\ volume' = None /\ here' = FALSE /\ names' = {} /\ UNCHANGED <<cancel, troubles>>
          /\ Released(req, shown)
      BY <1>4 DEF Enter, Release
    <2> QED BY <2>1, ReleasedIsTyped DEF VolumeTypes, StickTypes
  <1> QED BY <1>1, <1>2, <1>3, <1>4 DEF VolumeTypes

LEMMA AcquireIsTyped ==
    ASSUME ServiceTypes, NEW req \in Request, NEW shown \in Dialogs, Acquire(req, shown),
           UNCHANGED <<stickVars, lost>>
    PROVE  ServiceTypes'
  <1>1. CASE Enter(req, shown) /\ UNCHANGED queue
    BY <1>1, EnterIsTyped DEF ServiceTypes, StickTypes, stickVars
  <1>2. CASE /\ queue' = Append(queue, req) /\ dialog' = shown
             /\ UNCHANGED <<flowVars, volumeVars, cancel, holder, copy, troubles>>
    <2>1. queue' \in Seq(Request)
      BY <1>2 DEF ServiceTypes
    <2> QED BY <1>2, <2>1 DEF ServiceTypes, FlowTypes, VolumeTypes, HolderTypes, CopyTypes, StickTypes,
                              HolderKnows, flowVars, volumeVars, stickVars
  <1> QED BY <1>1, <1>2 DEF Acquire

LEMMA RefuseIsTyped ==
    ASSUME ServiceTypes, NEW shown \in Dialogs, Refuse(shown), UNCHANGED <<stickVars, lost>>
    PROVE  ServiceTypes'
  BY DEF Refuse, ServiceTypes, FlowTypes, VolumeTypes, HolderTypes, CopyTypes, StickTypes,
         HolderKnows, flowVars, volumeVars, stickVars

LEMMA PanelIsTyped ==
    ASSUME ServiceTypes, NEW c \in Client, List(c) \/ Scan(c) \/ Start(c) \/ Close(c)
    PROVE  ServiceTypes'
  <1>0. UNCHANGED <<stickVars, lost>>
    BY DEF List, Scan, Start, Close
  <1>1. dialog \in Dialogs /\ id \in 0..MaxFlows
    BY DEF ServiceTypes, FlowTypes
  <1>2. \A op \in {"list", "scan", "start", "close"} : \A flow \in 0..MaxFlows : \A dev \in Device \cup {None} :
            Ask(op, c, flow, dev) \in Request
    BY DEF Ask, Request
  <1>3. \A now \in Phase : Showing(c, now) \in Dialogs
    BY <1>1 DEF Showing, Dialogs
  <1>4. CASE List(c)
    <2>1. PICK flow \in 1..MaxFlows :
              LET shown == [dialog EXCEPT ![c] = [id |-> flow, phase |-> "listing"]]
              IN  \/ Refuse([shown EXCEPT ![c].phase = "error"])
                  \/ Acquire(Ask("list", c, flow, None), shown)
      BY <1>4 DEF List
    <2> DEFINE shown == [dialog EXCEPT ![c] = [id |-> flow, phase |-> "listing"]]
    <2>2. shown \in Dialogs /\ [shown EXCEPT ![c].phase = "error"] \in Dialogs
      BY <1>1 DEF Dialogs, Phase
    <2>3. Ask("list", c, flow, None) \in Request
      BY <1>2
    <2> QED BY <1>0, <2>1, <2>2, <2>3, AcquireIsTyped, RefuseIsTyped
  <1>5. CASE Scan(c)
    <2>1. \/ \E d \in Device : Acquire(Ask("scan", c, id, d), Showing(c, "scanning"))
          \/ Refuse(Showing(c, "scanning"))
      BY <1>5 DEF Scan
    <2>2. Showing(c, "scanning") \in Dialogs /\ \A d \in Device : Ask("scan", c, id, d) \in Request
      BY <1>1, <1>2, <1>3 DEF Phase
    <2> QED BY <1>0, <2>1, <2>2, AcquireIsTyped, RefuseIsTyped
  <1>6. CASE Start(c)
    <2>1. \E d \in Device : Acquire(Ask("start", c, id, d), dialog)
      BY <1>6 DEF Start
    <2>2. \A d \in Device : Ask("start", c, id, d) \in Request
      BY <1>1, <1>2
    <2> QED BY <1>0, <1>1, <2>1, <2>2, AcquireIsTyped
  <1>7. CASE Close(c)
    <2> DEFINE shown == [dialog EXCEPT ![c] = Closed]
    <2>1. shown \in Dialogs
      BY <1>1, BoundAssumption DEF Dialogs, Closed, Phase
    <2>2. Ask("close", c, id, None) \in Request
      BY <1>1, <1>2
    <2>3. CASE Refuse(shown) \/ Acquire(Ask("close", c, id, None), shown)
      BY <1>0, <2>1, <2>2, <2>3, AcquireIsTyped, RefuseIsTyped
    <2>4. CASE /\ cancel' = TRUE /\ owner' = None /\ dialog' = shown
               /\ UNCHANGED <<id, phase, volumeVars, holder, queue, copy, troubles>>
      BY <1>0, <2>1, <2>4 DEF ServiceTypes, FlowTypes, VolumeTypes, HolderTypes, CopyTypes, StickTypes,
                              HolderKnows, volumeVars, stickVars
    <2> QED BY <1>7, <2>3, <2>4 DEF Close
  <1> QED BY <1>4, <1>5, <1>6, <1>7

LEMMA TroubleIsTyped == ASSUME StickTypes, Trouble PROVE troubles' \in 0..MaxTroubles
  BY BoundAssumption DEF StickTypes, Trouble

LEMMA FailIsTyped ==
    ASSUME ServiceTypes, Fail
    PROVE  FlowTypes' /\ HolderTypes' /\ HolderKnows' /\ dialog' \in Dialogs
  <1>1. dialog' \in Dialogs
    BY SentIsADialog DEF Fail, ServiceTypes, Phase
  <1>2. FlowTypes'
    BY DEF Fail, ServiceTypes, FlowTypes, Phase
  <1> QED BY <1>1, <1>2, FreeIsTyped DEF Fail

\* The holder of the lock is a request.
LEMMA HolderIsARequest ==
    ASSUME HolderTypes, holder.at \in Wait
    PROVE  holder.req \in Request /\ holder.dev \in Device \cup {None}
  BY DEF HolderTypes, NoHolder, Wait

LEMMA HolderIsTyped ==
    ASSUME ServiceTypes, Unmounted \/ Listed \/ Looked \/ Mounted \/ Verified \/ Read \/ Started
    PROVE  ServiceTypes'
  <1>0. /\ FlowTypes /\ VolumeTypes /\ HolderTypes /\ queue \in Seq(Request) /\ CopyTypes
        /\ StickTypes /\ dialog \in Dialogs /\ HolderKnows
    BY DEF ServiceTypes
  <1> DEFINE d == holder.dev
  <1>1. CASE Unmounted
    <2>1. holder.req \in Request /\ d \in Device /\ names = {}
      BY <1>0, <1>1, HolderIsARequest DEF Unmounted, Wait, HolderKnows
    <2>2. UNCHANGED <<volume, here, names, cancel, queue, plugged>> /\ Released(holder.req, dialog)
      BY <1>1 DEF Unmounted, volumeVars
    <2>3. FlowTypes' /\ HolderTypes' /\ HolderKnows' /\ CopyTypes' /\ dialog' \in Dialogs
      BY <1>0, <2>1, <2>2, ReleasedIsTyped
    <2>4. StickTypes'
      <3>1. troubles' \in 0..MaxTroubles
        BY <1>0, <1>1, TroubleIsTyped DEF Unmounted, StickTypes
      <3>2. \/ mounted' = [mounted EXCEPT ![d] = "no"] /\ UNCHANGED lost
            \/ UNCHANGED mounted /\ lost' = lost \cup {d}
        BY <1>1 DEF Unmounted
      <3> QED BY <1>0, <2>1, <2>2, <3>1, <3>2 DEF StickTypes
    <2> QED BY <1>0, <2>2, <2>3, <2>4 DEF ServiceTypes, VolumeTypes
  <1>2. CASE Listed
    <2>1. UNCHANGED <<volume, here, names, cancel, queue, copy, mounted, plugged, lost>>
      BY <1>2 DEF Listed, volumeVars, stickVars
    <2>2. VolumeTypes' /\ CopyTypes' /\ queue' \in Seq(Request)
      BY <1>0, <2>1 DEF VolumeTypes, CopyTypes
    <2>3. StickTypes'
      BY <1>0, <1>2, <2>1, TroubleIsTyped DEF Listed, StickTypes
    <2>4. CASE Fail
      BY <2>2, <2>3, <2>4, FailIsTyped DEF ServiceTypes
    <2>5. CASE phase' = "drives" /\ dialog' = Sent(dialog, owner, id, "drives") /\ Free /\ UNCHANGED <<owner, id>>
      <3>1. dialog' \in Dialogs
        BY <1>0, <2>5, SentIsADialog DEF Phase
      <3>2. FlowTypes'
        BY <1>0, <2>5 DEF FlowTypes, Phase
      <3> QED BY <2>2, <2>3, <2>5, <3>1, <3>2, FreeIsTyped DEF ServiceTypes
    <2> QED BY <1>2, <2>4, <2>5 DEF Listed
  <1>3. CASE Looked
    <2>1. /\ UNCHANGED <<here, names, cancel, queue, copy, mounted, plugged, lost>>
          /\ UNCHANGED troubles \/ Trouble
          /\ holder.req \in Request /\ d \in Device \cup {None} /\ names = {}
      BY <1>0, <1>3, HolderIsARequest DEF Looked, At, Wait, HolderKnows, volumeVars, stickVars
    <2>2. CopyTypes' /\ queue' \in Seq(Request) /\ StickTypes'
      BY <1>0, <2>1, TroubleIsTyped DEF StickTypes, CopyTypes
    <2>3. CASE Fail /\ UNCHANGED volume
      BY <1>0, <2>1, <2>2, <2>3, FailIsTyped DEF ServiceTypes, VolumeTypes
    <2>4. ASSUME d \in Device, UNCHANGED <<owner, id, phase, dialog>>,
                 \/ volume' = d /\ Holds(holder.req, "read", d)
                 \/ UNCHANGED volume /\ Holds(holder.req, "mount", d)
          PROVE  ServiceTypes'
      <3>1. HolderTypes' /\ HolderKnows'
        BY <2>1, <2>4, HoldsIsTyped DEF Wait
      <3>2. VolumeTypes'
        BY <1>0, <2>1, <2>4, ContentAssumption DEF VolumeTypes
      <3> QED BY <1>0, <2>2, <2>4, <3>1, <3>2 DEF ServiceTypes, FlowTypes
    <2>5. d \in plugged \/ Readable(d) => d \in Device
      BY <1>0 DEF StickTypes, Readable
    <2> QED BY <1>3, <2>3, <2>4, <2>5 DEF Looked, volumeVars, flowVars
  <1>4. CASE Mounted
    <2> DEFINE taken == IF Readable(d) THEN mounted ELSE [mounted EXCEPT ![d] = "us"]
    <2>1. /\ UNCHANGED <<volume, here, names, cancel, queue, copy, plugged>>
          /\ holder.req \in Request /\ d \in Device /\ names = {}
      BY <1>0, <1>4, HolderIsARequest DEF Mounted, At, Wait, HolderKnows, volumeVars
    <2>2. CopyTypes' /\ queue' \in Seq(Request) /\ VolumeTypes'
      BY <1>0, <2>1 DEF VolumeTypes, CopyTypes
    <2>3. StickTypes'
      <3>1. troubles' \in 0..MaxTroubles
        BY <1>0, <1>4, TroubleIsTyped DEF Mounted, StickTypes
      <3>2. taken \in [Device -> {"no", "us", "desktop"}]
        BY <1>0 DEF StickTypes
      <3>3. mounted' \in {mounted, taken} /\ lost' \subseteq lost \cup {d}
        BY <1>4 DEF Mounted
      <3> QED BY <1>0, <2>1, <3>1, <3>2, <3>3 DEF StickTypes
    <2>4. CASE Fail
      BY <2>2, <2>3, <2>4, FailIsTyped DEF ServiceTypes
    <2>5. CASE Holds(holder.req, "verify", d) /\ UNCHANGED <<owner, id, phase, dialog>>
      <3>1. HolderTypes' /\ HolderKnows'
        BY <2>1, <2>5, HoldsIsTyped DEF Wait
      <3> QED BY <1>0, <2>2, <2>3, <2>5, <3>1 DEF ServiceTypes, FlowTypes
    <2> QED BY <1>4, <2>4, <2>5 DEF Mounted, flowVars
  <1>5. CASE Verified
    <2>1. /\ UNCHANGED <<names, cancel, queue, copy, mounted, plugged>>
          /\ holder.req \in Request /\ d \in Device /\ names = {}
      BY <1>0, <1>5, HolderIsARequest DEF Verified, At, Wait, HolderKnows, volumeVars, stickVars
    <2>2. CopyTypes' /\ queue' \in Seq(Request)
      BY <1>0, <2>1 DEF CopyTypes
    <2>3. StickTypes'
      <3>1. troubles' \in 0..MaxTroubles
        BY <1>0, <1>5, TroubleIsTyped DEF Verified, StickTypes
      <3>2. lost' \subseteq lost \cup {d}
        BY <1>5 DEF Verified
      <3> QED BY <1>0, <2>1, <3>1, <3>2 DEF StickTypes
    <2>4. CASE Fail /\ UNCHANGED <<volume, here>>
      BY <1>0, <2>1, <2>2, <2>3, <2>4, FailIsTyped DEF ServiceTypes, VolumeTypes
    <2>5. CASE volume' = d /\ here' = TRUE /\ Holds(holder.req, "read", d) /\ UNCHANGED <<owner, id, phase, dialog>>
      <3>1. HolderTypes' /\ HolderKnows'
        BY <2>1, <2>5, HoldsIsTyped DEF Wait
      <3>2. VolumeTypes'
        BY <1>0, <2>1, <2>5, ContentAssumption DEF VolumeTypes
      <3> QED BY <1>0, <2>2, <2>3, <2>5, <3>1, <3>2 DEF ServiceTypes, FlowTypes
    <2> QED BY <1>5, <2>4, <2>5 DEF Verified, volumeVars, flowVars
  <1>6. CASE Read
    <2>1. /\ UNCHANGED <<volume, here, cancel, queue, copy, mounted, plugged, lost, troubles>>
          /\ volume \in Device
      BY <1>0, <1>6 DEF Read, At, HolderKnows, stickVars
    <2>2. CopyTypes' /\ queue' \in Seq(Request) /\ StickTypes'
      BY <1>0, <2>1 DEF CopyTypes, StickTypes
    <2>3. CASE Fail /\ UNCHANGED names
      BY <1>0, <2>1, <2>2, <2>3, FailIsTyped DEF ServiceTypes, VolumeTypes
    <2>4. CASE /\ names' = Content[volume] /\ phase' = "ready"
               /\ dialog' = Sent(dialog, owner, id, "ready") /\ Free /\ UNCHANGED <<owner, id>>
      <3>1. dialog' \in Dialogs
        BY <1>0, <2>4, SentIsADialog DEF Phase
      <3>2. FlowTypes'
        BY <1>0, <2>4 DEF FlowTypes, Phase
      <3>3. VolumeTypes'
        BY <1>0, <2>1, <2>4, ContentAssumption DEF VolumeTypes
      <3> QED BY <2>2, <2>4, <3>1, <3>2, <3>3, FreeIsTyped DEF ServiceTypes
    <2> QED BY <1>6, <2>3, <2>4 DEF Read
  <1>7. CASE Started
    <2>1. /\ UNCHANGED <<owner, id, phase, volume, here, names, cancel, queue, mounted, plugged, lost, troubles>>
          /\ copy' = [step |-> "running", dev |-> volume, left |-> names, on |-> FALSE,
                       told |-> FALSE, failed |-> FALSE]
          /\ Free /\ dialog' = Sent(dialog, owner, id, "copying")
      BY <1>7 DEF Started, flowVars, volumeVars, stickVars
    <2>2. FlowTypes' /\ VolumeTypes' /\ queue' \in Seq(Request) /\ StickTypes'
      BY <1>0, <2>1 DEF FlowTypes, VolumeTypes, StickTypes
    <2>3. dialog' \in Dialogs
      BY <1>0, <2>1, SentIsADialog DEF Phase
    <2>4. CopyTypes'
      <3>1. names \subseteq Photo
        BY <1>0, ContentAssumption DEF VolumeTypes, Photo
      <3> QED BY <1>0, <2>1, <3>1 DEF CopyTypes, VolumeTypes
    <2> QED BY <2>1, <2>2, <2>3, <2>4, FreeIsTyped DEF ServiceTypes
  <1> QED BY <1>1, <1>2, <1>3, <1>4, <1>5, <1>6, <1>7

LEMMA WorldIsTyped ==
    ASSUME ServiceTypes,
           \/ \E c \in Client : Leave(c)
           \/ \E d \in Device : DesktopMounts(d) \/ Unplug(d) \/ Plug(d)
           \/ Copy \/ Progress \/ Crash \/ UNCHANGED vars
    PROVE  ServiceTypes'
  <1>0. /\ FlowTypes /\ VolumeTypes /\ HolderTypes /\ queue \in Seq(Request) /\ CopyTypes
        /\ StickTypes /\ dialog \in Dialogs /\ HolderKnows
    BY DEF ServiceTypes
  <1>1. ASSUME NEW c \in Client, Leave(c) PROVE ServiceTypes'
    <2>1. /\ UNCHANGED <<id, phase, volume, here, names, cancel, copy, plugged>>
          /\ owner' \in {owner, None} /\ queue' = Without(c) /\ Trouble
          /\ dialog' = [dialog EXCEPT ![c] = [id |-> 1, phase |-> "error"]]
      BY <1>1 DEF Leave, volumeVars
    <2>2. FlowTypes' /\ VolumeTypes' /\ CopyTypes'
      BY <1>0, <2>1 DEF FlowTypes, VolumeTypes, CopyTypes
    <2>3. queue' \in Seq(Request)
      BY <1>0, <2>1, WithoutIsLess
    <2>4. dialog' \in Dialogs
      BY <1>0, <2>1, BoundAssumption DEF Dialogs, Phase
    <2>5. troubles' \in 0..MaxTroubles
      BY <1>0, <2>1, TroubleIsTyped
    <2>6. CASE UNCHANGED <<holder, mounted, lost>>
      BY <1>0, <2>1, <2>2, <2>3, <2>4, <2>5, <2>6 DEF ServiceTypes, HolderTypes, HolderKnows, StickTypes
    <2>7. CASE ~UNCHANGED <<holder, mounted, lost>>
      <3>1. /\ Free
            /\ \/ mounted' = [mounted EXCEPT ![holder.dev] = "us"]
               \/ mounted' = [mounted EXCEPT ![holder.dev] = "no"]
               \/ UNCHANGED mounted
            /\ \A d \in lost' : d \in lost \/ (d = holder.dev /\ holder.at \in {"mount", "verify", "unmount"})
        BY <1>1, <2>7 DEF Leave
      <3>2. StickTypes'
        BY <1>0, <2>1, <2>5, <3>1 DEF StickTypes, HolderKnows
      <3> QED BY <2>2, <2>3, <2>4, <3>1, <3>2, FreeIsTyped DEF ServiceTypes
    <2> QED BY <2>6, <2>7
  <1>2. ASSUME NEW d \in Device, DesktopMounts(d) \/ Unplug(d) \/ Plug(d) PROVE ServiceTypes'
    <2>1. UNCHANGED <<owner, id, phase, volume, here, names, cancel, holder, queue, copy, dialog>>
      BY <1>2 DEF DesktopMounts, Unplug, Plug, flowVars, volumeVars
    <2>2. troubles' \in 0..MaxTroubles
      BY <1>0, <1>2, TroubleIsTyped DEF DesktopMounts, Unplug, Plug, StickTypes
    <2>3. StickTypes'
      BY <1>0, <1>2, <2>2 DEF DesktopMounts, Unplug, Plug, StickTypes
    <2> QED BY <1>0, <2>1, <2>3 DEF ServiceTypes, FlowTypes, VolumeTypes, HolderTypes, CopyTypes, HolderKnows
  <1>3. CASE NextFile \/ CopyFile
    <2>1. /\ UNCHANGED <<owner, id, phase, volume, here, names, cancel, holder, queue, mounted, plugged, dialog, lost, troubles>>
          /\ \/ copy' = [copy EXCEPT !.on = TRUE]
             \/ \E p \in copy.left : copy' = [copy EXCEPT !.left = @ \ {p}, !.on = FALSE, !.told = FALSE]
      BY <1>3 DEF NextFile, CopyFile, flowVars, volumeVars, stickVars
    <2>2. CopyTypes'
      BY <1>0, <2>1 DEF CopyTypes
    <2> QED BY <1>0, <2>1, <2>2 DEF ServiceTypes, FlowTypes, VolumeTypes, HolderTypes, StickTypes, HolderKnows
  <1>4. CASE CopyOver
    <2> DEFINE end == Ask("end", None, 0, copy.dev)
    <2>1. /\ UNCHANGED <<owner, id, phase, volume, here, names, cancel, holder, mounted, plugged, dialog, lost>>
          /\ queue' = Append(queue, end)
          /\ copy' = [copy EXCEPT !.step = "ending", !.on = FALSE, !.told = TRUE, !.failed = copy.on]
          /\ UNCHANGED troubles \/ Trouble
      BY <1>4 DEF CopyOver, flowVars, volumeVars, stickVars
    <2>2. CopyTypes'
      BY <1>0, <2>1 DEF CopyTypes
    <2>3. queue' \in Seq(Request)
      <3>1. end \in Request
        BY <1>0, BoundAssumption DEF Ask, Request, CopyTypes
      <3> QED BY <1>0, <2>1, <3>1
    <2>4. StickTypes'
      BY <1>0, <2>1, TroubleIsTyped DEF StickTypes
    <2> QED BY <1>0, <2>1, <2>2, <2>3, <2>4 DEF ServiceTypes, FlowTypes, VolumeTypes, HolderTypes, HolderKnows
  <1>5. CASE Crash
    <2>1. /\ owner' = None /\ id' = 0 /\ phase' = "idle" /\ volume' = None /\ here' = FALSE
          /\ names' = {} /\ cancel' = FALSE /\ Free /\ queue' = <<>> /\ copy' = NoCopy
          /\ UNCHANGED <<mounted, plugged>> /\ lost' \subseteq Device /\ Trouble
          /\ dialog' = [c \in Client |-> IF dialog[c].phase = "idle" THEN dialog[c]
                                         ELSE [dialog[c] EXCEPT !.phase = "error"]]
      BY <1>5 DEF Crash, stickVars, Free
    <2>2. FlowTypes' /\ VolumeTypes' /\ CopyTypes' /\ queue' \in Seq(Request)
      <3>1. FlowTypes'
        BY <2>1, BoundAssumption DEF FlowTypes, Phase
      <3>2. VolumeTypes'
        BY <2>1 DEF VolumeTypes
      <3>3. CopyTypes'
        BY <2>1 DEF CopyTypes, NoCopy
      <3>4. queue' \in Seq(Request)
        BY <2>1
      <3> QED BY <3>1, <3>2, <3>3, <3>4
    <2>3. dialog' \in Dialogs
      BY <1>0, <2>1 DEF Dialogs, Phase
    <2>4. StickTypes'
      BY <1>0, <2>1, TroubleIsTyped DEF StickTypes
    <2> QED BY <2>1, <2>2, <2>3, <2>4, FreeIsTyped DEF ServiceTypes
  <1>6. CASE UNCHANGED vars
    BY <1>6 DEF vars, flowVars, volumeVars, stickVars, ServiceTypes, FlowTypes, VolumeTypes, HolderTypes,
                CopyTypes, StickTypes, HolderKnows
  <1>7. CASE Progress
    <2>1. /\ UNCHANGED <<owner, id, phase, volume, here, names, cancel, holder, queue, mounted, plugged, lost, troubles>>
          /\ copy' = [copy EXCEPT !.told = TRUE] /\ dialog' = Sent(dialog, owner, id, phase)
      BY <1>7 DEF Progress, flowVars, volumeVars, stickVars
    <2>2. CopyTypes'
      BY <1>0, <2>1 DEF CopyTypes
    <2>3. dialog' \in Dialogs
      BY <1>0, <2>1, SentIsADialog DEF FlowTypes
    <2> QED BY <1>0, <2>1, <2>2, <2>3 DEF ServiceTypes, FlowTypes, VolumeTypes, HolderTypes, StickTypes, HolderKnows
  <1> QED BY <1>1, <1>2, <1>3, <1>4, <1>5, <1>6, <1>7 DEF Copy

LEMMA ServiceTypesHold == Spec => []ServiceTypes
  <1>1. Init => ServiceTypes
    <2> SUFFICES ASSUME Init PROVE ServiceTypes
      OBVIOUS
    <2>1. FlowTypes /\ VolumeTypes
      <3>1. FlowTypes
        BY BoundAssumption DEF Init, FlowTypes, Phase
      <3>2. VolumeTypes
        BY DEF Init, VolumeTypes
      <3> QED BY <3>1, <3>2
    <2>2. HolderTypes /\ HolderKnows
      BY DEF Init, HolderTypes, HolderKnows, NoHolder, Wait
    <2>3. CopyTypes
      BY DEF Init, CopyTypes, NoCopy
    <2>4. StickTypes
      BY BoundAssumption DEF Init, StickTypes
    <2>5. dialog \in Dialogs /\ queue \in Seq(Request)
      BY BoundAssumption DEF Init, Dialogs, Closed, Phase
    <2> QED BY <2>1, <2>2, <2>3, <2>4, <2>5 DEF ServiceTypes
  <1>2. ServiceTypes /\ [Next]_vars => ServiceTypes'
    <2> SUFFICES ASSUME ServiceTypes, [Next]_vars PROVE ServiceTypes'
      OBVIOUS
    <2>1. CASE Grant
      <3>1. /\ Enter(Head(queue), dialog) /\ queue # <<>> /\ queue' = Tail(queue)
            /\ UNCHANGED <<mounted, plugged, lost>>
        BY <2>1 DEF Grant, stickVars
      <3>2. Head(queue) \in Request /\ queue' \in Seq(Request)
        BY <3>1 DEF ServiceTypes
      <3>3. dialog \in Dialogs
        BY DEF ServiceTypes
      <3> QED BY <3>1, <3>2, <3>3, EnterIsTyped DEF ServiceTypes, StickTypes
    <2> QED BY <2>1, PanelIsTyped, HolderIsTyped, WorldIsTyped DEF Next, Holder
  <1> QED BY <1>1, <1>2, PTL DEF Spec

\* Every file of the folder was there from the start or is a photo of some volume.
Origins == \A f \in album : f \in Earlier \/ \E p \in Photo : p.name = f.name /\ p.size = f.size

LEMMA OriginsHold == Spec => []Origins
  <1>1. Init => Origins
    BY DEF Init, Origins
  <1>2. PhotoInv /\ Origins /\ [Next]_vars => Origins'
    <2> SUFFICES ASSUME PhotoInv, Origins, [Next]_vars PROVE Origins'
      OBVIOUS
    <2>1. CASE CopyFile
      <3>1. PICK p \in copy.left :
                album' = album \cup {[name |-> p.name, nth |-> DestinationName(p), size |-> p.size]}
        BY <2>1 DEF CopyFile
      <3>2. p \in Photo
        BY <3>1 DEF PhotoInv, KnownPhotos
      <3> QED BY <3>1, <3>2 DEF Origins
    <2>2. CASE UNCHANGED album
      BY <2>2 DEF Origins
    <2>3. CASE Grant
      BY <2>2, <2>3 DEF Grant
    <2> QED BY <2>1, <2>2, <2>3, PanelKeepsPhotos, HolderKeepsPhotos, WorldKeepsPhotos DEF Next, Holder, Copy, PhotoInv
  <1> QED BY <1>1, <1>2, PhotoInvHolds, PTL DEF Spec

\* A suffix never exceeds the number of files there can be: the files numbered
\* below it bear the name of different photos.
LEMMA NumbersAreFew ==
    ASSUME AlbumInv, Origins, NEW g \in album
    PROVE  g.nth \in 1..Cardinality(Photo \cup Earlier)
  <1> DEFINE all         == Photo \cup Earlier
             Numbered(k) == CHOOSE f \in album : f.name = g.name /\ f.nth = k
             Origin(f)   == CHOOSE p \in all : p.name = f.name /\ p.size = f.size
             origins     == [k \in 1..g.nth |-> Origin(Numbered(k))]
  <1>0. /\ IsFiniteSet(all) /\ Cardinality(all) \in Nat
        /\ album \subseteq [name : STRING, nth : Nat \ {0}, size : Nat] /\ g.nth \in Nat \ {0}
    BY ContentAssumption, FS_Union, FS_CardinalityType DEF AlbumInv
  <1> HIDE DEF all
  <1>1. \A k \in 1..g.nth : Numbered(k) \in album /\ Numbered(k).name = g.name /\ Numbered(k).nth = k
    <2> SUFFICES ASSUME NEW k \in 1..g.nth PROVE \E f \in album : f.name = g.name /\ f.nth = k
      OBVIOUS
    <2>1. CASE k = g.nth
      BY <2>1
    <2>2. CASE k # g.nth
      <3>1. k \in 1..g.nth - 1
        BY <1>0, <2>2
      <3> QED BY <3>1 DEF AlbumInv, NoGaps
    <2> QED BY <2>1, <2>2
  <1>2. \A f \in album : Origin(f) \in all /\ Origin(f).name = f.name /\ Origin(f).size = f.size
    BY DEF Origins, all
  <1> HIDE DEF Numbered, Origin
  <1>3. origins \in [1..g.nth -> all]
    BY <1>1, <1>2
  <1>4. ASSUME NEW j \in 1..g.nth, NEW k \in 1..g.nth, origins[j] = origins[k] PROVE j = k
    <2>1. Numbered(j).size = Numbered(k).size
      BY <1>1, <1>2, <1>4
    <2> QED BY <1>1, <2>1 DEF AlbumInv, PhotosAreKept
  <1> HIDE DEF origins
  <1>5. ~(Cardinality(all) < g.nth)
    <2>1. IsFiniteSet(1..g.nth) /\ Cardinality(1..g.nth) = g.nth
      <3>1. \A n \in Int : IsFiniteSet(1..n) /\ Cardinality(1..n) = IF 1 > n THEN 0 ELSE n - 1 + 1
        BY FS_Interval
      <3>2. PICK n \in Nat \ {0} : n = g.nth
        BY <1>0
      <3>3. IsFiniteSet(1..n) /\ Cardinality(1..n) = IF 1 > n THEN 0 ELSE n - 1 + 1
        BY <3>1
      <3>4. Cardinality(1..n) = n
        BY <3>3
      <3> QED BY <3>2, <3>3, <3>4
    <2> QED BY <1>0, <1>3, <1>4, <2>1, FS_PigeonHole
  <1> QED BY <1>0, <1>5 DEF all

\* Type correctness, for any panels, sticks and photos.  The queue of the lock
\* holds requests whatever handlers are cancelled in it, what is found belongs to
\* the volume on record, and no suffix runs away.
THEOREM TypeCorrect == Spec => []TypeOK
  <1>1. ServiceTypes /\ PhotoInv /\ Origins => TypeOK
    <2> SUFFICES ASSUME ServiceTypes, PhotoInv, Origins PROVE TypeOK
      OBVIOUS
    <2>1. album \subseteq [name : STRING, nth : 1..Cardinality(Photo \cup Earlier), size : Nat]
      <3>1. \A f \in album : f.nth \in 1..Cardinality(Photo \cup Earlier)
        BY NumbersAreFew DEF PhotoInv
      <3>2. album \subseteq [name : STRING, nth : Nat \ {0}, size : Nat]
        BY DEF PhotoInv, AlbumInv
      <3> QED BY <3>1, <3>2
    <2>2. names \subseteq Photo
      BY DEF PhotoInv, KnownPhotos
    <2> QED BY <2>1, <2>2 DEF TypeOK, ServiceTypes, FlowTypes, VolumeTypes, HolderTypes, CopyTypes, StickTypes, Dialogs
  <1> QED BY <1>1, ServiceTypesHold, PhotoInvHolds, OriginsHold, PTL

(***************************************************************************)
(* A copy reported done                                                    *)
(***************************************************************************)

Scanning == holder.at # "free" /\ holder.req.op = "scan"

\* A dialog that shows its drives is that of the live flow, if it is the owner's.
DrivesAreShown == \A c \in Client : Owns(c) /\ dialog[c].phase = "drives" => phase = "drives"

\* While drives are listed nothing is on.
DrivesAreFree == phase = "drives" => holder = NoHolder /\ ~here

\* A scan never waits for the lock.
NoScanWaits == \A i \in 1..Len(queue) : queue[i].op # "scan"

\* A listing asked for twice finds nothing on when its turn comes.
OldListing(c) ==
    /\ dialog[c].phase = "drives"
    /\ \E i \in 1..Len(queue) : queue[i].op = "list" /\ queue[i].by = c /\ queue[i].id = dialog[c].id
ListingsAreHarmless == \A c \in Client : OldListing(c) => ~here /\ ~Scanning

\* Nothing can be started beside a copy.
OneCopyAtATime == Copying => phase # "ready" /\ holder.at # "started" /\ ~Scanning

FlowInv == DrivesAreShown /\ DrivesAreFree /\ NoScanWaits /\ ListingsAreHarmless /\ OneCopyAtATime

\* What the steps of the flow have in common: no panel but the one listed for
\* comes to show drives, and the queue only loses requests.
NoNewDrives(shown) == \A c \in Client : shown[c].phase = "drives" => shown[c] = dialog[c]
QueueShrinks == \A i \in 1..Len(queue') : \E j \in 1..Len(queue) : queue'[i] = queue[j]

LEMMA ShrinkingIsHarmless ==
    ASSUME NoNewDrives(dialog'), QueueShrinks, NoScanWaits
    PROVE  NoScanWaits' /\ \A c \in Client : OldListing(c)' => OldListing(c)
  <1>1. NoScanWaits'
    BY DEF QueueShrinks, NoScanWaits
  <1>2. ASSUME NEW c \in Client, OldListing(c)' PROVE OldListing(c)
    <2>1. dialog'[c].phase = "drives"
      BY <1>2 DEF OldListing
    <2>2. dialog'[c] = dialog[c]
      BY <2>1 DEF NoNewDrives
    <2>3. PICK i \in 1..Len(queue') : queue'[i].op = "list" /\ queue'[i].by = c /\ queue'[i].id = dialog'[c].id
      BY <1>2 DEF OldListing
    <2>4. PICK j \in 1..Len(queue) : queue'[i] = queue[j]
      BY DEF QueueShrinks
    <2> QED BY <2>1, <2>2, <2>3, <2>4 DEF OldListing
  <1> QED BY <1>1, <1>2

LEMMA SentShowsNoDrives ==
    ASSUME NEW shown \in Dialogs, NoNewDrives(shown), NEW to, NEW flow, NEW now \in Phase \ {"drives"}
    PROVE  /\ NoNewDrives(Sent(shown, to, flow, now))
           /\ \A c \in Client : Sent(shown, to, flow, now)[c].phase = "drives" =>
                  /\ Sent(shown, to, flow, now)[c] = shown[c]
                  /\ ~(c = to /\ shown[c].id = flow)
  <1> SUFFICES ASSUME NEW c \in Client, Sent(shown, to, flow, now)[c].phase = "drives"
               PROVE  /\ Sent(shown, to, flow, now)[c] = shown[c]
                      /\ ~(c = to /\ shown[c].id = flow)
    BY DEF NoNewDrives
  <1>1. shown[c] \in [id : 0..MaxFlows, phase : Phase]
    BY DEF Dialogs
  <1> QED BY <1>1 DEF Sent

\* The volume of the flow has been let go, and the request goes on.
LEMMA ReleasedKeepsFlow ==
    ASSUME ServiceTypes, FlowInv, NEW req \in Request, NEW shown \in Dialogs, NoNewDrives(shown),
           Released(req, shown), here' = FALSE, QueueShrinks,
           req.op = "scan" => ~Copying /\ (queue' = <<>> \/ Scanning)
    PROVE  FlowInv'
  <1> DEFINE Silent(to, flow) == \A c \in Client : c = to /\ dialog'[c].id = flow => dialog'[c].phase # "drives"
  <1>1. \/ /\ req.op = "list" /\ phase' = "listing" /\ UNCHANGED copy /\ holder'.at = "lsblk"
           /\ holder'.req = req /\ owner' = req.by /\ id' = req.id /\ dialog' = Sent(shown, req.by, req.id, "listing")
        \/ /\ req.op = "scan" /\ phase' = "scanning" /\ UNCHANGED copy /\ holder'.at = "lookup"
           /\ holder'.req = req /\ UNCHANGED <<owner, id>> /\ dialog' = Sent(shown, owner, id, "scanning")
        \/ /\ req.op = "close" /\ phase' = "idle" /\ UNCHANGED copy /\ holder'.at = "free"
           /\ owner' = None /\ dialog' = shown
        \/ /\ req.op = "end" /\ phase' \in {"error", "done"} /\ copy' = NoCopy /\ holder'.at = "free"
           /\ UNCHANGED <<owner, id>> /\ dialog' = Sent(shown, owner, id, phase')
    BY DEF Released, Holds, Free, NoHolder
  <1>2. NoNewDrives(dialog') /\ DrivesAreShown'
    <2>1. CASE owner' = None /\ dialog' = shown
      BY <2>1, ContentAssumption DEF DrivesAreShown, Owns
    <2>2. CASE \E now \in Phase \ {"drives"} : dialog' = Sent(shown, owner', id', now)
      <3>1. PICK now \in Phase \ {"drives"} : dialog' = Sent(shown, owner', id', now)
        BY <2>2
      <3>2. NoNewDrives(dialog') /\ \A c \in Client : dialog'[c].phase = "drives" =>
                 dialog'[c] = shown[c] /\ ~(c = owner' /\ shown[c].id = id')
        BY <3>1, SentShowsNoDrives
      <3> QED BY <3>2 DEF DrivesAreShown, Owns
    <2>3. "listing" \in Phase \ {"drives"} /\ "scanning" \in Phase \ {"drives"} /\ "error" \in Phase \ {"drives"} /\ "done" \in Phase \ {"drives"}
      BY DEF Phase
    <2> QED BY <1>1, <2>1, <2>2, <2>3
  <1>3. DrivesAreFree'
    BY <1>1 DEF DrivesAreFree
  <1>4. NoScanWaits' /\ \A c \in Client : OldListing(c)' => OldListing(c)
    BY <1>2, ShrinkingIsHarmless DEF FlowInv
  <1>5. Scanning' => req.op = "scan"
    BY <1>1 DEF Scanning
  <1>6. ListingsAreHarmless'
    <2>1. \A c \in Client : OldListing(c)' => queue' # <<>>
      BY DEF OldListing
    <2> QED BY <1>4, <1>5, <2>1 DEF FlowInv, ListingsAreHarmless
  <1>7. OneCopyAtATime'
    <2>1. Copying' => Copying
      BY <1>1 DEF Copying, NoCopy
    <2> QED BY <1>1, <1>5, <2>1 DEF OneCopyAtATime
  <1> QED BY <1>2, <1>3, <1>4, <1>6, <1>7 DEF FlowInv

\* What a request does when it gets the lock.
LEMMA EnterKeepsFlow ==
    ASSUME ServiceTypes, FlowInv, holder = NoHolder, NEW req \in Request, NEW shown \in Dialogs,
           NoNewDrives(shown), Enter(req, shown), QueueShrinks,
           req.op = "scan" => ~Copying /\ queue' = <<>>,
           \A c \in Client : req.op = "list" /\ req.by = c /\ req.id = shown[c].id /\ shown[c].phase = "drives" => ~here
    PROVE  FlowInv'
  <1> USE DEF FlowInv
  <1>1. CASE req.op = "start"
    <2>1. /\ UNCHANGED <<owner, id, here, copy>>
          /\ \/ /\ phase = "ready" /\ phase' = "copying" /\ dialog' = shown
                /\ holder'.at = "started" /\ holder'.req = req
             \/ phase' = "error" /\ dialog' = Sent(shown, owner, id, "error") /\ holder'.at = "free"
      BY <1>1 DEF Enter, StartCopy, Holds, Free, NoHolder, volumeVars
    <2>2. NoNewDrives(dialog') /\ DrivesAreShown'
      <3>1. CASE phase = "ready" /\ dialog' = shown
        BY <2>1, <3>1 DEF NoNewDrives, DrivesAreShown, Owns
      <3>2. CASE dialog' = Sent(shown, owner, id, "error")
        <4>1. NoNewDrives(dialog') /\ \A c \in Client : dialog'[c].phase = "drives" =>
                  dialog'[c] = shown[c] /\ ~(c = owner /\ shown[c].id = id)
          BY <3>2, SentShowsNoDrives DEF Phase
        <4> QED BY <2>1, <4>1 DEF DrivesAreShown, Owns
      <3> QED BY <2>1, <3>1, <3>2
    <2>3. NoScanWaits' /\ \A c \in Client : OldListing(c)' => OldListing(c)
      BY <2>2, ShrinkingIsHarmless
    <2>4. ~Scanning'
      BY <1>1, <2>1 DEF Scanning
    <2>5. DrivesAreFree' /\ ListingsAreHarmless' /\ OneCopyAtATime'
      BY <2>1, <2>3, <2>4 DEF DrivesAreFree, ListingsAreHarmless, OneCopyAtATime, Copying
    <2> QED BY <2>2, <2>3, <2>5
  <1>2. CASE req.op # "start" /\ here
    <2>1. /\ here' = FALSE /\ UNCHANGED <<phase, copy>> /\ dialog' = shown
          /\ holder'.at = "unmount" /\ holder'.req = req
          /\ IF req.op = "list" THEN owner' = req.by /\ id' = req.id ELSE UNCHANGED <<owner, id>>
      BY <1>2 DEF Enter, Release, Holds
    <2>2. phase # "drives"
      BY <1>2 DEF DrivesAreFree
    <2>3. DrivesAreShown'
      <3> SUFFICES ASSUME NEW c \in Client, Owns(c)', dialog'[c].phase = "drives" PROVE FALSE
        BY DEF DrivesAreShown
      <3>1. CASE req.op = "list"
        BY <1>2, <2>1, <3>1 DEF Owns
      <3>2. CASE req.op # "list"
        BY <2>1, <2>2, <3>2 DEF Owns, DrivesAreShown, NoNewDrives
      <3> QED BY <3>1, <3>2
    <2>4. NoScanWaits' /\ \A c \in Client : OldListing(c)' => OldListing(c)
      BY <2>1, ShrinkingIsHarmless
    <2>5. Scanning' => req.op = "scan"
      BY <2>1 DEF Scanning
    <2>6. ListingsAreHarmless'
      <3>1. \A c \in Client : OldListing(c)' => queue' # <<>>
        BY DEF OldListing
      <3> QED BY <2>1, <2>4, <2>5, <3>1 DEF ListingsAreHarmless
    <2>7. DrivesAreFree' /\ OneCopyAtATime'
      BY <2>1, <2>2, <2>5 DEF DrivesAreFree, OneCopyAtATime, Copying
    <2> QED BY <2>3, <2>4, <2>6, <2>7
  <1>3. CASE req.op # "start" /\ ~here
    <2>1. Released(req, shown) /\ here' = FALSE
      BY <1>3 DEF Enter, Release
    <2> QED BY <2>1, ReleasedKeepsFlow
  <1> QED BY <1>1, <1>2, <1>3

\* A request that waits changes nothing but its own dialog.
LEMMA WaitKeepsFlow ==
    ASSUME ServiceTypes, FlowInv, NEW shown \in Dialogs, NoNewDrives(shown), dialog' = shown,
           UNCHANGED <<owner, id, phase, here, holder, copy>>,
           \/ UNCHANGED queue
           \/ \E req \in Request :
                  /\ queue' = Append(queue, req) /\ req.op # "scan"
                  /\ req.op = "list" => shown[req.by].phase # "drives"
    PROVE  FlowInv'
  <1> USE DEF FlowInv
  <1>1. NoScanWaits' /\ \A c \in Client : OldListing(c)' => OldListing(c)
    <2>1. CASE UNCHANGED queue
      <3>1. QueueShrinks
        BY <2>1 DEF QueueShrinks
      <3> QED BY <3>1, ShrinkingIsHarmless
    <2>2. ASSUME NEW req \in Request, queue' = Append(queue, req), req.op # "scan",
                 req.op = "list" => shown[req.by].phase # "drives"
          PROVE  NoScanWaits' /\ \A c \in Client : OldListing(c)' => OldListing(c)
      <3>1. queue \in Seq(Request)
        BY DEF ServiceTypes
      <3>2. \A i \in 1..Len(queue') : (i \in 1..Len(queue) /\ queue'[i] = queue[i]) \/ queue'[i] = req
        BY <2>2, <3>1
      <3>3. NoScanWaits'
        BY <2>2, <3>2 DEF NoScanWaits
      <3>4. ASSUME NEW c \in Client, OldListing(c)' PROVE OldListing(c)
        <4>1. PICK i \in 1..Len(queue') : queue'[i].op = "list" /\ queue'[i].by = c /\ queue'[i].id = dialog'[c].id
          BY <3>4 DEF OldListing
        <4>2. dialog'[c].phase = "drives" /\ dialog'[c] = dialog[c]
          BY <3>4 DEF OldListing, NoNewDrives
        <4>3. queue'[i] # req
          BY <2>2, <4>1, <4>2
        <4> QED BY <3>2, <4>1, <4>2, <4>3 DEF OldListing
      <3> QED BY <3>3, <3>4
    <2> QED BY <2>1, <2>2
  <1>2. Scanning' = Scanning /\ Copying' = Copying
    BY DEF Scanning, Copying
  <1>3. DrivesAreShown'
    BY DEF DrivesAreShown, NoNewDrives, Owns
  <1> QED BY <1>1, <1>2, <1>3 DEF DrivesAreFree, ListingsAreHarmless, OneCopyAtATime

LEMMA AcquireKeepsFlow ==
    ASSUME ServiceTypes, FlowInv, NEW req \in Request, NEW shown \in Dialogs, NoNewDrives(shown),
           Acquire(req, shown),
           req.op = "scan" => ~Copying /\ holder = NoHolder /\ queue = <<>>,
           req.op = "list" => shown[req.by].phase # "drives"
    PROVE  FlowInv'
  <1>1. CASE holder = NoHolder /\ queue = <<>> /\ Enter(req, shown) /\ UNCHANGED queue
    <2>1. QueueShrinks
      BY <1>1 DEF QueueShrinks
    <2> QED BY <1>1, <2>1, EnterKeepsFlow
  <1>2. CASE /\ ~(holder = NoHolder /\ queue = <<>>)
             /\ queue' = Append(queue, req) /\ dialog' = shown
             /\ UNCHANGED <<flowVars, volumeVars, cancel, holder, copy, troubles>>
    <2>1. UNCHANGED <<owner, id, phase, here, holder, copy>>
      BY <1>2 DEF flowVars, volumeVars
    <2> QED BY <1>2, <2>1, WaitKeepsFlow
  <1> QED BY <1>1, <1>2 DEF Acquire

LEMMA RefuseKeepsFlow ==
    ASSUME ServiceTypes, FlowInv, NEW shown \in Dialogs, NoNewDrives(shown), Refuse(shown)
    PROVE  FlowInv'
  <1>1. dialog' = shown /\ UNCHANGED <<owner, id, phase, here, holder, queue, copy>>
    BY DEF Refuse, flowVars, volumeVars
  <1> QED BY <1>1, WaitKeepsFlow

LEMMA PanelKeepsFlow ==
    ASSUME ServiceTypes, FlowInv, NEW c \in Client, List(c) \/ Scan(c) \/ Start(c) \/ Close(c)
    PROVE  FlowInv'
  <1>1. dialog \in Dialogs /\ id \in 0..MaxFlows
    BY DEF ServiceTypes, FlowTypes
  <1>2. \A op \in {"list", "scan", "start", "close"} : \A flow \in 0..MaxFlows : \A dev \in Device \cup {None} :
            Ask(op, c, flow, dev) \in Request /\ Ask(op, c, flow, dev).op = op /\ Ask(op, c, flow, dev).by = c
    BY DEF Ask, Request
  <1>3. \A seen \in [id : 0..MaxFlows, phase : Phase \ {"drives"}] :
            [dialog EXCEPT ![c] = seen] \in Dialogs /\ NoNewDrives([dialog EXCEPT ![c] = seen])
    BY <1>1 DEF Dialogs, NoNewDrives
  <1>4. CASE List(c)
    <2>1. PICK flow \in 1..MaxFlows :
              LET shown == [dialog EXCEPT ![c] = [id |-> flow, phase |-> "listing"]]
              IN  \/ Refuse([shown EXCEPT ![c].phase = "error"])
                  \/ Acquire(Ask("list", c, flow, None), shown)
      BY <1>4 DEF List
    <2> DEFINE shown == [dialog EXCEPT ![c] = [id |-> flow, phase |-> "listing"]]
    <2>2. shown \in Dialogs /\ NoNewDrives(shown) /\ shown[c].phase # "drives"
      <3>1. [id |-> flow, phase |-> "listing"] \in [id : 0..MaxFlows, phase : Phase \ {"drives"}]
        BY BoundAssumption DEF Phase
      <3>2. shown \in Dialogs /\ NoNewDrives(shown)
        BY <1>3, <3>1
      <3>3. shown[c].phase = "listing"
        BY <1>1 DEF Dialogs
      <3> QED BY <3>2, <3>3
    <2>3. [shown EXCEPT ![c].phase = "error"] = [dialog EXCEPT ![c] = [id |-> flow, phase |-> "error"]]
      BY <1>1 DEF Dialogs
    <2>4. [shown EXCEPT ![c].phase = "error"] \in Dialogs /\ NoNewDrives([shown EXCEPT ![c].phase = "error"])
      BY <1>3, <2>3 DEF Phase
    <2>5. Ask("list", c, flow, None) \in Request /\ Ask("list", c, flow, None).op = "list" /\ Ask("list", c, flow, None).by = c
      BY <1>2
    <2> HIDE DEF shown
    <2>6. CASE Refuse([shown EXCEPT ![c].phase = "error"])
      BY <2>4, <2>6, RefuseKeepsFlow
    <2>7. CASE Acquire(Ask("list", c, flow, None), shown)
      BY <2>2, <2>5, <2>7, AcquireKeepsFlow
    <2> QED BY <2>1, <2>6, <2>7 DEF shown
  <1>5. CASE Scan(c)
    <2> DEFINE shown == Showing(c, "scanning")
    <2>1. shown = [dialog EXCEPT ![c] = [dialog[c] EXCEPT !.phase = "scanning"]]
      BY DEF Showing
    <2>2. shown \in Dialogs /\ NoNewDrives(shown)
      <3>1. [dialog[c] EXCEPT !.phase = "scanning"] \in [id : 0..MaxFlows, phase : Phase \ {"drives"}]
        BY <1>1 DEF Dialogs, Phase
      <3> QED BY <1>3, <2>1, <3>1
    <2> HIDE DEF shown
    <2>3. CASE Refuse(shown)
      BY <2>2, <2>3, RefuseKeepsFlow
    <2>4. ASSUME NEW d \in Device, Owns(c), ~Copying, Acquire(Ask("scan", c, id, d), shown) PROVE FlowInv'
      <3>1. holder = NoHolder /\ queue = <<>>
        BY <1>5, <2>4 DEF Scan, Settled, FlowInv, DrivesAreShown, DrivesAreFree
      <3>2. Ask("scan", c, id, d) \in Request /\ Ask("scan", c, id, d).op = "scan"
        BY <1>1, <1>2
      <3> QED BY <2>2, <2>4, <3>1, <3>2, AcquireKeepsFlow
    <2> QED BY <1>5, <2>3, <2>4 DEF Scan, shown
  <1>6. CASE Start(c)
    <2>1. PICK d \in Device : Acquire(Ask("start", c, id, d), dialog)
      BY <1>6 DEF Start
    <2>2. Ask("start", c, id, d) \in Request /\ Ask("start", c, id, d).op = "start"
      BY <1>1, <1>2
    <2> QED BY <1>1, <2>1, <2>2, AcquireKeepsFlow DEF NoNewDrives
  <1>7. CASE Close(c)
    <2> DEFINE shown == [dialog EXCEPT ![c] = Closed]
    <2>1. shown \in Dialogs /\ NoNewDrives(shown)
      <3>1. Closed \in [id : 0..MaxFlows, phase : Phase \ {"drives"}]
        BY BoundAssumption DEF Closed, Phase
      <3> QED BY <1>3, <3>1
    <2>2. Ask("close", c, id, None) \in Request /\ Ask("close", c, id, None).op = "close"
      BY <1>1, <1>2
    <2> HIDE DEF shown
    <2>3. CASE Refuse(shown)
      BY <2>1, <2>3, RefuseKeepsFlow
    <2>4. CASE Acquire(Ask("close", c, id, None), shown)
      BY <2>1, <2>2, <2>4, AcquireKeepsFlow
    <2>5. CASE owner' = None /\ dialog' = shown /\ UNCHANGED <<id, phase, volumeVars, holder, queue, copy, troubles>>
      <3>1. UNCHANGED <<phase, here, holder, queue, copy>> /\ NoNewDrives(dialog')
        BY <2>1, <2>5 DEF volumeVars
      <3>2. NoScanWaits' /\ \A e \in Client : OldListing(e)' => OldListing(e)
        BY <3>1, ShrinkingIsHarmless DEF QueueShrinks, FlowInv
      <3>3. DrivesAreShown'
        BY <2>5, ContentAssumption DEF DrivesAreShown, Owns
      <3>4. Scanning' = Scanning /\ Copying' = Copying
        BY <3>1 DEF Scanning, Copying
      <3> QED BY <3>1, <3>2, <3>3, <3>4 DEF FlowInv, DrivesAreFree, ListingsAreHarmless, OneCopyAtATime
    <2> QED BY <1>7, <2>3, <2>4, <2>5 DEF Close, shown
  <1> QED BY <1>4, <1>5, <1>6, <1>7

\* A step of the holder that ends in an error.
LEMMA FailKeepsFlow ==
    ASSUME ServiceTypes, FlowInv, Fail, UNCHANGED <<queue, copy, here>>
    PROVE  FlowInv'
  <1>1. /\ phase' = "error" /\ dialog' = Sent(dialog, owner, id, "error") /\ holder'.at = "free"
        /\ UNCHANGED <<owner, id>> /\ dialog \in Dialogs
    BY DEF Fail, Free, NoHolder, ServiceTypes
  <1>2. NoNewDrives(dialog) /\ QueueShrinks
    BY DEF NoNewDrives, QueueShrinks
  <1>3. NoNewDrives(dialog') /\ DrivesAreShown'
    <2>1. NoNewDrives(dialog') /\ \A c \in Client : dialog'[c].phase = "drives" =>
               dialog'[c] = dialog[c] /\ ~(c = owner /\ dialog[c].id = id)
      BY <1>1, <1>2, SentShowsNoDrives DEF Phase
    <2> QED BY <1>1, <2>1 DEF DrivesAreShown, Owns
  <1>4. NoScanWaits' /\ \A c \in Client : OldListing(c)' => OldListing(c)
    BY <1>2, <1>3, ShrinkingIsHarmless DEF FlowInv
  <1>5. ~Scanning' /\ Copying' = Copying
    BY <1>1 DEF Scanning, Copying
  <1> QED BY <1>1, <1>3, <1>4, <1>5 DEF FlowInv, DrivesAreFree, ListingsAreHarmless, OneCopyAtATime

LEMMA HolderKeepsFlow ==
    ASSUME ServiceTypes, MountInv, FlowInv,
           Unmounted \/ Listed \/ Looked \/ Mounted \/ Verified \/ Read \/ Started
    PROVE  FlowInv'
  <1>0. HolderTypes /\ HolderKnows /\ dialog \in Dialogs /\ NoNewDrives(dialog)
    BY DEF ServiceTypes, NoNewDrives
  <1>1. UNCHANGED queue /\ QueueShrinks
    BY DEF Unmounted, Listed, Looked, Mounted, Verified, Read, Started, QueueShrinks
  <1>2. ASSUME NoNewDrives(dialog')
        PROVE  NoScanWaits' /\ \A c \in Client : OldListing(c)' => OldListing(c)
    BY <1>1, <1>2, ShrinkingIsHarmless DEF FlowInv
  <1>3. CASE Unmounted
    <2>1. /\ Released(holder.req, dialog) /\ here' = FALSE /\ holder.at = "unmount"
      BY <1>3 DEF Unmounted, volumeVars, MountInv, NoneOnRecord
    <2>2. holder.req \in Request
      BY <1>0, <2>1, HolderIsARequest DEF Wait
    <2>3. holder.req.op = "scan" => ~Copying /\ Scanning
      BY <2>1 DEF Scanning, FlowInv, OneCopyAtATime
    <2> QED BY <1>0, <1>1, <2>1, <2>2, <2>3, ReleasedKeepsFlow
  <1>4. CASE Listed
    <2>1. UNCHANGED <<copy, here>> /\ ~here
      BY <1>4 DEF Listed, At, volumeVars, MountInv, NoneOnRecord
    <2>2. CASE Fail
      BY <1>1, <2>1, <2>2, FailKeepsFlow
    <2>3. CASE phase' = "drives" /\ Free
      <3>1. NoScanWaits'
        BY <1>1 DEF FlowInv, NoScanWaits
      <3>2. holder' = NoHolder /\ ~Scanning' /\ ~here' /\ Copying' = Copying /\ holder'.at = "free"
        BY <2>1, <2>3 DEF Free, NoHolder, Scanning, Copying
      <3> QED BY <2>3, <3>1, <3>2 DEF FlowInv, DrivesAreShown, DrivesAreFree, ListingsAreHarmless, OneCopyAtATime
    <2> QED BY <1>4, <2>2, <2>3 DEF Listed
  <1>5. CASE Looked \/ Mounted \/ Verified
    <2>1. Scanning /\ UNCHANGED copy /\ holder # NoHolder
      BY <1>5 DEF Looked, Mounted, Verified, At, Scanning
    <2>2. CASE Fail /\ UNCHANGED here
      BY <1>1, <2>1, <2>2, FailKeepsFlow
    <2>3. ASSUME UNCHANGED <<owner, id, phase, dialog>>, NEW at \in {"read", "mount", "verify"}, NEW dev,
                 Holds(holder.req, at, dev)
          PROVE  FlowInv'
      <3>1. holder'.req = holder.req /\ holder'.at \in {"read", "mount", "verify"}
        BY <2>3 DEF Holds
      <3>2. NoNewDrives(dialog') /\ phase # "drives" /\ ~Copying /\ ~Copying'
        BY <1>0, <2>1, <2>3 DEF FlowInv, DrivesAreFree, OneCopyAtATime, Copying
      <3>3. \A c \in Client : ~OldListing(c)
        BY <2>1 DEF FlowInv, ListingsAreHarmless
      <3>4. DrivesAreShown'
        BY <2>3 DEF FlowInv, DrivesAreShown, Owns
      <3> QED BY <1>2, <2>3, <3>2, <3>3, <3>4 DEF FlowInv, DrivesAreFree, ListingsAreHarmless, OneCopyAtATime
    <2> QED BY <1>5, <2>2, <2>3 DEF Looked, Mounted, Verified, volumeVars, flowVars
  <1>6. CASE Read
    <2>1. Scanning /\ UNCHANGED <<copy, here>> /\ ~Copying
      BY <1>6 DEF Read, At, Scanning, FlowInv, OneCopyAtATime
    <2>2. CASE Fail
      BY <1>1, <2>1, <2>2, FailKeepsFlow
    <2>3. CASE phase' = "ready" /\ dialog' = Sent(dialog, owner, id, "ready") /\ Free /\ UNCHANGED <<owner, id>>
      <3>1. NoNewDrives(dialog') /\ \A c \in Client : dialog'[c].phase = "drives" =>
                 dialog'[c] = dialog[c] /\ ~(c = owner /\ dialog[c].id = id)
        BY <1>0, <2>3, SentShowsNoDrives DEF Phase
      <3>2. DrivesAreShown'
        BY <2>3, <3>1 DEF DrivesAreShown, Owns
      <3>3. \A c \in Client : ~OldListing(c)
        BY <2>1 DEF FlowInv, ListingsAreHarmless
      <3>4. ~Copying'
        BY <2>1 DEF Copying
      <3> QED BY <1>2, <2>3, <3>1, <3>2, <3>3, <3>4 DEF FlowInv, DrivesAreFree, ListingsAreHarmless, OneCopyAtATime
    <2> QED BY <1>6, <2>2, <2>3 DEF Read
  <1>7. CASE Started
    <2>1. /\ holder' = NoHolder /\ holder'.at = "free" /\ UNCHANGED <<owner, id, phase, here>> /\ phase = "copying"
          /\ dialog' = Sent(dialog, owner, id, "copying")
      BY <1>0, <1>7 DEF Started, At, Free, NoHolder, HolderKnows, flowVars, volumeVars
    <2>2. NoNewDrives(dialog')
      BY <1>0, <2>1, SentShowsNoDrives DEF Phase
    <2>3. DrivesAreShown'
      BY <2>1, <2>2 DEF FlowInv, DrivesAreShown, Owns, NoNewDrives
    <2>4. ~Scanning'
      BY <2>1 DEF Scanning
    <2> QED BY <1>2, <2>1, <2>2, <2>3, <2>4 DEF FlowInv, DrivesAreFree, ListingsAreHarmless, OneCopyAtATime
  <1> QED BY <1>3, <1>4, <1>5, <1>6, <1>7

LEMMA WorldKeepsFlow ==
    ASSUME ServiceTypes, FlowInv,
           \/ \E c \in Client : Leave(c)
           \/ \E d \in Device : DesktopMounts(d) \/ Unplug(d) \/ Plug(d)
           \/ Copy \/ Progress \/ Crash \/ UNCHANGED vars
    PROVE  FlowInv'
  <1>0. dialog \in Dialogs /\ NoNewDrives(dialog) /\ queue \in Seq(Request) /\ CopyTypes
    BY DEF ServiceTypes, NoNewDrives
  <1>1. ASSUME NEW c \in Client, Leave(c) PROVE FlowInv'
    <2>1. /\ UNCHANGED <<id, phase, here, copy>> /\ queue' = Without(c)
          /\ owner' = (IF owner = c THEN None ELSE owner)
          /\ dialog' = [dialog EXCEPT ![c] = [id |-> 1, phase |-> "error"]]
          /\ UNCHANGED holder \/ holder' = NoHolder
      BY <1>1 DEF Leave, Free, volumeVars
    <2>2. NoNewDrives(dialog')
      BY <1>0, <2>1 DEF NoNewDrives, Dialogs
    <2>3. QueueShrinks
      BY <1>0, <2>1, WithoutIsLess DEF QueueShrinks
    <2>4. NoScanWaits' /\ \A e \in Client : OldListing(e)' => OldListing(e)
      BY <2>2, <2>3, ShrinkingIsHarmless DEF FlowInv
    <2>5. DrivesAreShown'
      BY <2>1, <2>2, ContentAssumption DEF FlowInv, DrivesAreShown, Owns, NoNewDrives
    <2>6. (Scanning' => Scanning) /\ Copying' = Copying /\ (holder'.at = "started" => holder.at = "started")
      BY <2>1 DEF Scanning, Copying, NoHolder
    <2> QED BY <2>1, <2>4, <2>5, <2>6 DEF FlowInv, DrivesAreFree, ListingsAreHarmless, OneCopyAtATime
  <1>2. ASSUME NEW d \in Device, DesktopMounts(d) \/ Unplug(d) \/ Plug(d) PROVE FlowInv'
    <2>1. UNCHANGED <<owner, id, phase, here, holder, queue, copy, dialog>>
      BY <1>2 DEF DesktopMounts, Unplug, Plug, flowVars, volumeVars
    <2> QED BY <1>0, <2>1, WaitKeepsFlow
  <1>3. CASE Copy
    <2>1. /\ UNCHANGED <<owner, id, phase, here, holder, dialog>> /\ Copying
          /\ UNCHANGED queue \/ queue' = Append(queue, Ask("end", None, 0, copy.dev))
      BY <1>3 DEF Copy, NextFile, CopyFile, CopyOver, Copying, flowVars, volumeVars
    <2>2. NoScanWaits' /\ \A c \in Client : OldListing(c)' => OldListing(c)
      <3>1. CASE UNCHANGED queue
        BY <2>1, <3>1 DEF FlowInv, NoScanWaits, OldListing
      <3>2. CASE queue' = Append(queue, Ask("end", None, 0, copy.dev))
        <4>1. \A i \in 1..Len(queue') : (i \in 1..Len(queue) /\ queue'[i] = queue[i]) \/ queue'[i].op = "end"
          BY <1>0, <3>2 DEF Ask
        <4> QED BY <2>1, <4>1 DEF FlowInv, NoScanWaits, OldListing
      <3> QED BY <2>1, <3>1, <3>2
    <2>3. Scanning' = Scanning /\ DrivesAreShown'
      BY <2>1 DEF Scanning, FlowInv, DrivesAreShown, Owns
    <2> QED BY <2>1, <2>2, <2>3 DEF FlowInv, DrivesAreFree, ListingsAreHarmless, OneCopyAtATime
  <1>4. CASE Crash
    <2>1. /\ phase' = "idle" /\ queue' = <<>> /\ copy' = NoCopy
          /\ dialog' = [c \in Client |-> IF dialog[c].phase = "idle" THEN dialog[c]
                                         ELSE [dialog[c] EXCEPT !.phase = "error"]]
      BY <1>4 DEF Crash
    <2>2. \A c \in Client : dialog'[c].phase # "drives"
      BY <1>0, <2>1 DEF Dialogs
    <2>3. ~Copying'
      BY <2>1 DEF Copying, NoCopy
    <2>4. NoScanWaits'
      BY <2>1 DEF NoScanWaits
    <2> QED BY <2>1, <2>2, <2>3, <2>4 DEF FlowInv, DrivesAreShown, DrivesAreFree, ListingsAreHarmless, OldListing, OneCopyAtATime
  <1>5. CASE UNCHANGED vars
    <2>1. UNCHANGED <<owner, id, phase, here, holder, queue, copy, dialog>>
      BY <1>5 DEF vars, flowVars, volumeVars
    <2> QED BY <1>0, <2>1, WaitKeepsFlow
  <1>6. CASE Progress
    <2>1. /\ UNCHANGED <<owner, id, phase, here, holder, queue>> /\ Copying
          /\ dialog' = Sent(dialog, owner, id, phase)
      BY <1>6 DEF Progress, Copying, flowVars, volumeVars
    <2>2. QueueShrinks
      BY <2>1 DEF QueueShrinks
    <2>3. Scanning' = Scanning /\ NoScanWaits'
      BY <2>1 DEF Scanning, FlowInv, NoScanWaits
    <2>4. CASE phase = "drives"
      <3>1. holder = NoHolder /\ ~here
        BY <2>4 DEF FlowInv, DrivesAreFree
      <3>2. ~Scanning
        BY <3>1 DEF Scanning, NoHolder
      <3> QED BY <2>1, <2>3, <2>4, <3>1, <3>2 DEF FlowInv, DrivesAreShown, DrivesAreFree, ListingsAreHarmless, OneCopyAtATime
    <2>5. CASE phase # "drives"
      <3>1. phase \in Phase \ {"drives"}
        BY <2>5 DEF ServiceTypes, FlowTypes
      <3>2. NoNewDrives(dialog') /\ \A c \in Client : dialog'[c].phase = "drives" =>
                 dialog'[c] = dialog[c] /\ ~(c = owner /\ dialog[c].id = id)
        BY <1>0, <2>1, <3>1, SentShowsNoDrives
      <3>3. \A c \in Client : OldListing(c)' => OldListing(c)
        BY <2>2, <3>2, ShrinkingIsHarmless DEF FlowInv
      <3>4. DrivesAreShown'
        BY <2>1, <3>2 DEF DrivesAreShown, Owns
      <3> QED BY <2>1, <2>3, <3>3, <3>4 DEF FlowInv, DrivesAreFree, ListingsAreHarmless, OneCopyAtATime
    <2> QED BY <2>4, <2>5
  <1> QED BY <1>1, <1>2, <1>3, <1>4, <1>5, <1>6

InFolder(p) == \E f \in album : f.name = p.name /\ f.size = p.size

\* What a copy no longer has to do is done, and one that ends without having
\* failed or been told to stop has nothing left to do.
CopyInv ==
    /\ Copying => copy.dev \in Device /\ \A p \in Content[copy.dev] \ copy.left : InFolder(p)
    /\ copy.step = "ending" /\ ~copy.failed /\ ~cancel => copy.left = {}

\* The photo is in the folder once it is copied, and the others stay.
LEMMA CopyFileBrings ==
    ASSUME ServiceTypes, CopyInv, CopyFile
    PROVE  CopyInv'
  <1>1. PICK p \in copy.left :
            /\ album' = album \cup {[name |-> p.name, nth |-> DestinationName(p), size |-> p.size]}
            /\ copy' = [copy EXCEPT !.left = @ \ {p}, !.on = FALSE, !.told = FALSE]
    BY DEF CopyFile
  <1>2. /\ copy'.step = "running" /\ copy'.dev = copy.dev /\ copy'.left = copy.left \ {p}
        /\ Copying
    BY <1>1 DEF ServiceTypes, CopyTypes, CopyFile, Copying
  <1>3. \A q : InFolder(q) => InFolder(q)'
    BY <1>1 DEF InFolder
  <1>4. InFolder(p)'
    <2> DEFINE new == [name |-> p.name, nth |-> DestinationName(p), size |-> p.size]
    <2>1. new \in album' /\ new.name = p.name /\ new.size = p.size
      BY <1>1
    <2> HIDE DEF new
    <2> QED BY <2>1 DEF InFolder
  <1>5. \A q \in Content[copy.dev] \ copy'.left : InFolder(q)'
    BY <1>2, <1>3, <1>4 DEF CopyInv
  <1> QED BY <1>2, <1>5 DEF CopyInv

\* A step that neither starts nor moves the copy, nor takes back that it is to stop.
LEMMA CopyStandsStill ==
    ASSUME CopyInv, UNCHANGED album,
           \/ UNCHANGED copy /\ (cancel => cancel')
           \/ UNCHANGED copy /\ ~Copying
           \/ copy' = NoCopy
    PROVE  CopyInv'
  <1>1. \A q : InFolder(q)' = InFolder(q)
    BY DEF InFolder
  <1>2. CASE copy' = NoCopy
    BY <1>2 DEF CopyInv, Copying, NoCopy
  <1>3. CASE UNCHANGED copy /\ ~Copying
    BY <1>3 DEF CopyInv, Copying
  <1>4. CASE UNCHANGED copy /\ (cancel => cancel')
    BY <1>1, <1>4 DEF CopyInv, Copying
  <1> QED BY <1>2, <1>3, <1>4

LEMMA EnterKeepsCopy ==
    ASSUME FlowInv, CopyInv, NEW req, NEW shown, Enter(req, shown), UNCHANGED album
    PROVE  CopyInv'
  <1>1. \/ UNCHANGED <<copy, cancel>>
        \/ UNCHANGED copy /\ phase = "ready"
        \/ copy' = NoCopy /\ UNCHANGED cancel
    BY DEF Enter, StartCopy, Release, Released
  <1> QED BY <1>1, CopyStandsStill DEF FlowInv, OneCopyAtATime

LEMMA PanelKeepsCopy ==
    ASSUME FlowInv, CopyInv, NEW c \in Client, List(c) \/ Scan(c) \/ Start(c) \/ Close(c)
    PROVE  CopyInv'
  <1>1. UNCHANGED album
    BY DEF List, Scan, Start, Close
  <1>2. \/ \E req, shown : Enter(req, shown)
        \/ UNCHANGED <<copy, cancel>>
        \/ UNCHANGED copy /\ cancel' = TRUE
    BY DEF List, Scan, Start, Close, Refuse, Acquire
  <1> QED BY <1>1, <1>2, EnterKeepsCopy, CopyStandsStill

LEMMA HolderKeepsCopy ==
    ASSUME ServiceTypes, CopyInv, Unmounted \/ Listed \/ Looked \/ Mounted \/ Verified \/ Read \/ Started
    PROVE  CopyInv'
  <1>1. CASE Unmounted \/ Listed \/ Looked \/ Mounted \/ Verified \/ Read
    <2>1. UNCHANGED <<album, cancel>> /\ (UNCHANGED copy \/ copy' = NoCopy)
      BY <1>1 DEF Unmounted, Released, Listed, Looked, Mounted, Verified, Read
    <2> QED BY <2>1, CopyStandsStill
  <1>2. CASE Started
    <2>1. /\ copy' = [step |-> "running", dev |-> volume, left |-> names, on |-> FALSE,
                       told |-> FALSE, failed |-> FALSE]
          /\ holder.at = "started"
      BY <1>2 DEF Started, At
    <2>2. volume \in Device /\ names = Content[volume]
      BY <2>1 DEF ServiceTypes, VolumeTypes, HolderKnows
    <2> QED BY <2>1, <2>2 DEF CopyInv
  <1> QED BY <1>1, <1>2

LEMMA WorldKeepsCopy ==
    ASSUME ServiceTypes, CopyInv,
           \/ \E c \in Client : Leave(c)
           \/ \E d \in Device : DesktopMounts(d) \/ Unplug(d) \/ Plug(d)
           \/ Copy \/ Progress \/ Crash \/ UNCHANGED vars
    PROVE  CopyInv'
  <1>1. CASE \/ \E c \in Client : Leave(c)
             \/ \E d \in Device : DesktopMounts(d) \/ Unplug(d) \/ Plug(d)
             \/ Crash \/ UNCHANGED vars
    <2>1. UNCHANGED album /\ (UNCHANGED <<copy, cancel>> \/ copy' = NoCopy)
      BY <1>1 DEF Leave, DesktopMounts, Unplug, Plug, Crash, vars
    <2> QED BY <2>1, CopyStandsStill
  <1>2. CASE CopyOver
    <2>1. /\ copy' = [copy EXCEPT !.step = "ending", !.on = FALSE, !.told = TRUE, !.failed = copy.on]
          /\ copy.step = "running" /\ UNCHANGED <<cancel, album>>
          /\ copy.on \/ cancel \/ copy.left = {}
      BY <1>2 DEF CopyOver
    <2>2. copy'.dev = copy.dev /\ copy'.left = copy.left /\ copy'.failed = copy.on
      BY <2>1 DEF ServiceTypes, CopyTypes
    <2>3. Copying /\ \A q : InFolder(q)' = InFolder(q)
      BY <2>1 DEF Copying, InFolder
    <2> QED BY <2>1, <2>2, <2>3 DEF CopyInv
  <1>3. CASE NextFile \/ Progress
    <2>1. /\ copy' = [copy EXCEPT !.on = TRUE] \/ copy' = [copy EXCEPT !.told = TRUE]
          /\ copy.step = "running" /\ UNCHANGED <<cancel, album>>
      BY <1>3 DEF NextFile, Progress
    <2>2. copy'.dev = copy.dev /\ copy'.left = copy.left /\ copy'.step = copy.step
      BY <2>1 DEF ServiceTypes, CopyTypes
    <2>3. Copying /\ \A q : InFolder(q)' = InFolder(q)
      BY <2>1 DEF Copying, InFolder
    <2> QED BY <2>1, <2>2, <2>3 DEF CopyInv
  <1> QED BY <1>1, <1>2, <1>3, CopyFileBrings DEF Copy

ImportInv == FlowInv /\ CopyInv

LEMMA ImportInvHolds == Spec => []ImportInv
  <1>1. Init => ImportInv
    <2> SUFFICES ASSUME Init PROVE ImportInv
      OBVIOUS
    <2>1. /\ phase = "idle" /\ owner = None /\ queue = <<>> /\ holder = NoHolder /\ ~here
          /\ copy = NoCopy /\ dialog = [c \in Client |-> Closed]
      BY DEF Init
    <2>2. ~Copying /\ \A c \in Client : dialog[c].phase # "drives"
      BY <2>1 DEF Copying, NoCopy, Closed
    <2>3. NoScanWaits
      BY <2>1 DEF NoScanWaits
    <2>4. FlowInv
      BY <2>1, <2>2, <2>3 DEF FlowInv, DrivesAreShown, DrivesAreFree, ListingsAreHarmless, OldListing, OneCopyAtATime
    <2>5. CopyInv
      BY <2>1, <2>2 DEF CopyInv, NoCopy
    <2> QED BY <2>4, <2>5 DEF ImportInv
  <1>2. ServiceTypes /\ MountInv /\ ImportInv /\ [Next]_vars => ImportInv'
    <2> SUFFICES ASSUME ServiceTypes, MountInv, ImportInv, [Next]_vars PROVE ImportInv'
      OBVIOUS
    <2>1. FlowInv'
      <3>1. CASE Grant
        <4>1. /\ Enter(Head(queue), dialog) /\ queue # <<>> /\ queue' = Tail(queue) /\ holder = NoHolder
              /\ queue \in Seq(Request) /\ dialog \in Dialogs
          BY <3>1 DEF Grant, ServiceTypes
        <4>2. /\ Head(queue) \in Request /\ 1 \in 1..Len(queue) /\ Head(queue) = queue[1]
              /\ \A i \in 1..Len(queue') : i + 1 \in 1..Len(queue) /\ queue'[i] = queue[i + 1]
          BY <4>1
        <4>3. QueueShrinks /\ NoNewDrives(dialog)
          BY <4>2 DEF QueueShrinks, NoNewDrives
        <4>4. Head(queue).op # "scan"
          BY <4>2 DEF ImportInv, FlowInv, NoScanWaits
        <4>5. \A c \in Client :
                  Head(queue).op = "list" /\ Head(queue).by = c /\ Head(queue).id = dialog[c].id /\ dialog[c].phase = "drives"
                      => ~here
          BY <4>2 DEF ImportInv, FlowInv, ListingsAreHarmless, OldListing
        <4> QED BY <4>1, <4>2, <4>3, <4>4, <4>5, EnterKeepsFlow DEF ImportInv
      <3> QED BY <3>1, PanelKeepsFlow, HolderKeepsFlow, WorldKeepsFlow DEF Next, Holder, ImportInv
    <2>2. CopyInv'
      <3>1. CASE Grant
        BY <3>1, EnterKeepsCopy DEF Grant, ImportInv
      <3> QED BY <3>1, PanelKeepsCopy, HolderKeepsCopy, WorldKeepsCopy DEF Next, Holder, ImportInv
    <2> QED BY <2>1, <2>2 DEF ImportInv
  <1> QED BY <1>1, <1>2, ServiceTypesHold, MountInvHolds, PTL DEF Spec

\* Only the end of a copy that did not fail reports it done.
LEMMA DoneIsTheEnd ==
    ASSUME [Next]_vars, copy.step = "ending", copy' = NoCopy, phase' = "done"
    PROVE  ~copy.failed
  <1>1. copy' # copy /\ copy'.step = "none"
    BY DEF NoCopy
  <1>2. ASSUME NEW req, NEW shown, Released(req, shown) PROVE ~copy.failed
    BY <1>1, <1>2 DEF Released
  <1>3. ASSUME NEW req, NEW shown, Enter(req, shown) PROVE ~copy.failed
    BY <1>1, <1>2, <1>3 DEF Enter, StartCopy, Release
  <1>4. ASSUME NEW c \in Client, List(c) \/ Scan(c) \/ Start(c) \/ Close(c) PROVE ~copy.failed
    <2>1. (\E req, shown : Enter(req, shown)) \/ UNCHANGED copy
      BY <1>4 DEF List, Scan, Start, Close, Refuse, Acquire
    <2> QED BY <1>1, <1>3, <2>1
  <1>5. CASE Grant
    BY <1>3, <1>5 DEF Grant
  <1>6. CASE Holder
    <2>1. CASE Unmounted
      BY <1>2, <2>1 DEF Unmounted
    <2>2. CASE Started
      BY <1>1, <2>2 DEF Started
    <2> QED BY <1>1, <1>6, <2>1, <2>2 DEF Holder, Listed, Looked, Mounted, Verified, Read
  <1>7. CASE \/ \E c \in Client : Leave(c)
             \/ \E d \in Device : DesktopMounts(d) \/ Unplug(d) \/ Plug(d)
             \/ Copy \/ Progress \/ Crash \/ UNCHANGED vars
    BY <1>1, <1>7 DEF Leave, DesktopMounts, Unplug, Plug, Copy, NextFile, CopyFile, CopyOver, Progress, Crash, vars
  <1> QED BY <1>4, <1>5, <1>6, <1>7 DEF Next

\* A copy that is reported done, and that nobody told to stop, has brought every
\* photo of its stick, however many panels list, scan and start beside it: none of
\* them can take back that a copy was stopped, since nothing can be started beside
\* one.
THEOREM DoneIsImported == Spec => DoneMeansImported
  <1>1. ImportInv /\ [Next]_vars =>
            (copy.step = "ending" /\ copy' = NoCopy /\ phase' = "done" /\ ~cancel =>
                 \A p \in Content[copy.dev] : \E f \in album : f.name = p.name /\ f.size = p.size)
    BY DoneIsTheEnd DEF ImportInv, CopyInv, Copying, InFolder
  <1>2. ImportInv /\ [Next]_vars =>
            [copy.step = "ending" /\ copy' = NoCopy /\ phase' = "done" /\ ~cancel =>
                 \A p \in Content[copy.dev] : \E f \in album : f.name = p.name /\ f.size = p.size]_vars
    BY <1>1
  <1> QED BY <1>2, ImportInvHolds, PTL DEF Spec, DoneMeansImported
=============================================================================
