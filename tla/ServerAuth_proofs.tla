------------------------- MODULE ServerAuth_proofs -------------------------
(***************************************************************************)
(* Proofs about ServerAuth, for every number of connections, displays,     *)
(* handler tasks and passwords.                                            *)
(***************************************************************************)
EXTENDS ServerAuth, FiniteSetTheorems, TLAPS

\* The step relation of the disjuncts of Next that move one connection, so
\* that the case splits below name actions and not quantifiers.
ConnectionStep(c) == Connect(c) \/ LoginStep(c) \/ SessionStep(c) \/ PeerGone(c)

(***************************************************************************)
(* Type correctness                                                        *)
(***************************************************************************)

LEMMA InitTypeOK == Init => TypeOK
  BY ConstantsAssumption DEF Init, TypeOK, Phases, Jobs, NoJob, Stores

\* What a write of the store leaves behind is a store.
LEMMA SaveType ==
    ASSUME TypeOK,
           NEW ids \in SUBSET Display, NEW stamps \in [Display -> 0..MaxClock],
           NEW password \in Password \cup {None},
           Save(ids, stamps, password)
    PROVE  disk' \in Stores /\ saveErrors' \in 0..MaxSaveErrors
  BY ConstantsAssumption DEF TypeOK, Save, Stores

LEMMA KeepStampsType ==
    ASSUME NEW ids, NEW stamps \in [Display -> 0..MaxClock]
    PROVE  KeepStamps(stamps, ids) \in [Display -> 0..MaxClock]
  BY ConstantsAssumption DEF KeepStamps

StoreType ==
    /\ displays \subseteq Display
    /\ lastSeen \in [Display -> 0..MaxClock]
    /\ count \in [Display -> Nat]
    /\ disk \in Stores
    /\ saveErrors \in 0..MaxSaveErrors

LEMMA PruneType ==
    ASSUME TypeOK, NEW days, NEW changed \in BOOLEAN,
           NEW ids \in SUBSET Display, NEW stamps \in [Display -> 0..MaxClock],
           NEW counts \in [Display -> Nat],
           PruneAndSave(days, ids, counts, stamps, changed)
    PROVE  StoreType'
  <1> DEFINE kept == ids \ Lapsed(days, ids, counts, stamps)
  <1>1. kept \in SUBSET Display
    OBVIOUS
  <1>2. KeepStamps(stamps, kept) \in [Display -> 0..MaxClock]
    BY KeepStampsType
  <1>3. disk' \in Stores /\ saveErrors' \in 0..MaxSaveErrors
    <2>1. CASE changed \/ kept # ids
      <3>1. Save(kept, KeepStamps(stamps, kept), verifier)
        BY <2>1 DEF PruneAndSave
      <3>2. verifier \in Password \cup {None}
        BY DEF TypeOK
      <3> QED BY <3>1, <3>2, <1>1, <1>2, SaveType
    <2>2. CASE ~(changed \/ kept # ids)
      BY <2>2 DEF PruneAndSave, TypeOK
    <2> QED BY <2>1, <2>2
  <1>4. displays' = kept /\ lastSeen' = KeepStamps(stamps, kept) /\ count' = counts
    BY DEF PruneAndSave
  <1> QED BY <1>1, <1>2, <1>3, <1>4 DEF StoreType

LEMMA AdmitType ==
    ASSUME TypeOK, NEW c \in Conn, NEW d \in Display, NEW ids \in SUBSET Display,
           Admit(c, d, ids)
    PROVE  /\ StoreType'
           /\ phase' \in [Conn -> Phases]
           /\ ident' \in [Conn -> Display \cup {None}]
           /\ UNCHANGED <<link, active, peer, job>>
  <1>1. lastSeen' \in [Display -> 0..MaxClock]
    BY ConstantsAssumption DEF Admit, TypeOK
  <1>2. verifier \in Password \cup {None}
    BY DEF TypeOK
  <1>3. disk' \in Stores /\ saveErrors' \in 0..MaxSaveErrors
    <2>1. Save(ids, lastSeen', verifier)
      BY DEF Admit
    <2> QED BY <1>1, <1>2, <2>1, SaveType
  <1> QED BY <1>1, <1>3, ConstantsAssumption
          DEF Admit, TypeOK, StoreType, Phases, LoginPhases

LEMMA CountedOutType ==
    ASSUME TypeOK, NEW d
    PROVE  CountedOut(d) \in [Display -> Nat]
  <1>1. CASE d \in Display BY <1>1 DEF CountedOut, TypeOK
  <1>2. CASE d \notin Display
    <2>1. CountedOut(d) = count BY <1>2 DEF CountedOut, TypeOK
    <2> QED BY <2>1 DEF TypeOK
  <1> QED BY <1>1, <1>2

LEMMA StepTypeOK == TypeOK /\ [Next]_vars => TypeOK'
  <1> SUFFICES ASSUME TypeOK, [Next]_vars PROVE TypeOK'
    OBVIOUS
  <1> USE ConstantsAssumption DEF storeVars, confVars, envVars, histVars, netVars
  <1>1. ASSUME NEW c \in Conn, ConnectionStep(c) PROVE TypeOK'
    <2> USE DEF Phases, LoginPhases, OpenPhases
    <2>1. CASE Connect(c) BY <2>1 DEF Connect, TypeOK
    <2>2. CASE Challenge(c) \/ Refuse(c) BY <2>2 DEF Challenge, Refuse, TypeOK
    <2>3. CASE RefusalSent(c) \/ LoginTimeout(c) \/ LoginLost(c)
      BY <2>3 DEF RefusalSent, LoginTimeout, LoginLost, EndLogin, TypeOK
    <2>4. CASE ResultSent(c)
      <3>1. StoreType' BY <2>4, PruneType DEF ResultSent, TypeOK
      <3> QED BY <2>4, <3>1 DEF ResultSent, TypeOK, StoreType
    <2>5. CASE Register(c) BY <2>5 DEF Register, TypeOK
    <2>6. ASSUME NEW d \in Display, PasswordLogin(c, d) PROVE TypeOK'
      <3>1. Admit(c, d, displays \cup {d}) BY <2>6 DEF PasswordLogin
      <3>2. displays \cup {d} \in SUBSET Display BY DEF TypeOK
      <3> QED BY <2>6, <3>1, <3>2, AdmitType DEF PasswordLogin, TypeOK, StoreType
    <2>7. ASSUME NEW d \in Display, TokenLogin(c, d) PROVE TypeOK'
      <3>1. Admit(c, d, displays) BY <2>7 DEF TokenLogin
      <3>2. displays \in SUBSET Display BY DEF TypeOK
      <3> QED BY <2>7, <3>1, <3>2, AdmitType DEF TokenLogin, TypeOK, StoreType
    <2>8. ASSUME NEW d \in Display, LapsedLogin(c, d) PROVE TypeOK'
      <3>1. StoreType' BY <2>8, PruneType DEF LapsedLogin, TypeOK
      <3> QED BY <2>8, <3>1 DEF LapsedLogin, TypeOK, StoreType
    <2>9. CASE SnapshotDone(c) \/ DropClient(c) \/ PeerGone(c)
      BY <2>9 DEF SnapshotDone, DropClient, PeerGone, TypeOK
    <2>10. CASE ReadEnds(c) BY <2>10 DEF ReadEnds, TypeOK, Jobs
    <2>11. CASE SignOff(c)
      <3> DEFINE d == ident[c]
                 stamps == IF d \in displays THEN [lastSeen EXCEPT ![d] = clock] ELSE lastSeen
      <3>1. CountedOut(d) \in [Display -> Nat] /\ stamps \in [Display -> 0..MaxClock]
        BY CountedOutType DEF TypeOK
      <3>2. StoreType'
        <4>1. CASE d \in displays
          <5>1. PruneAndSave(lifetime, displays, CountedOut(d), stamps, TRUE)
            BY <2>11, <4>1 DEF SignOff
          <5> HIDE DEF stamps, d
          <5> QED BY <3>1, <5>1, PruneType DEF TypeOK
        <4>2. CASE d \notin displays
          BY <2>11, <4>2, <3>1 DEF SignOff, StoreType, TypeOK
        <4> QED BY <4>1, <4>2
      <3> QED BY <2>11, <3>2 DEF SignOff, TypeOK, StoreType
    <2> QED BY <1>1, <2>1, <2>2, <2>3, <2>4, <2>5, <2>6, <2>7, <2>8, <2>9, <2>10, <2>11
            DEF ConnectionStep, LoginStep, SessionStep
  <1>2. ASSUME NEW c \in Conn, NEW j \in Job, NEW target \in Display \cup {None},
               Command(c, j, target)
        PROVE  TypeOK'
    BY <1>2 DEF Command, TypeOK, Jobs
  <1>3. ASSUME NEW j \in Job, JobStep(j) PROVE TypeOK'
    <2> USE DEF Jobs
    <2>1. CASE ListDisplays(j)
      <3>1. StoreType' BY <2>1, PruneType DEF ListDisplays, TypeOK
      <3> QED BY <2>1, <3>1 DEF ListDisplays, TypeOK, StoreType
    <2>2. CASE Revoke(j)
      <3> DEFINE d == job[j].target
      <3>1. d \in displays /\ displays \ {d} \in SUBSET Display
        BY <2>2 DEF Revoke, TypeOK
      <3>2. PruneAndSave(lifetime, displays \ {d}, count, lastSeen, TRUE)
        BY <2>2 DEF Revoke
      <3>3. StoreType' BY <3>1, <3>2, PruneType DEF TypeOK
      <3>4. job' \in [Job -> Jobs] /\ link' \in [Conn -> {"up", "down"}]
        BY <2>2, <3>1 DEF Revoke, LinksWithout, TypeOK, NoJob
      <3>5. UNCHANGED <<phase, ident, active, peer, lifetime, verifier, clock, restarts, issued>>
        BY <2>2 DEF Revoke
      <3>6. revoked' \subseteq Display /\ revoked' = revoked \cup {d}
        BY <2>2, <3>1 DEF Revoke, TypeOK
      <3> QED BY <3>3, <3>4, <3>5, <3>6 DEF TypeOK, StoreType
    <2>3. CASE Disconnect(j) BY <2>3 DEF Disconnect, LinksWithout, TypeOK, NoJob
    <2> QED BY <1>3, <2>1, <2>2, <2>3 DEF JobStep
  <1>4. ASSUME NEW days \in Lifetimes, ApplyConfig(days) PROVE TypeOK'
    <2>1. StoreType' BY <1>4, PruneType DEF ApplyConfig, TypeOK
    <2> QED BY <1>4, <2>1 DEF ApplyConfig, TypeOK, StoreType
  <1>5. CASE DayPasses BY <1>5 DEF DayPasses, TypeOK, Stores
  <1>6. ASSUME NEW password \in Password \cup {None}, Restart(password) PROVE TypeOK'
    <2> DEFINE keep == password # None /\ password = disk.password
               ids == IF keep THEN disk.ids ELSE {}
               stamps == KeepStamps(disk.seen, ids)
    <2>1. ids \in SUBSET Display BY DEF TypeOK, Stores
    <2>2. stamps \in [Display -> 0..MaxClock] BY KeepStampsType DEF TypeOK, Stores
    <2>3. /\ displays' = ids /\ lastSeen' = stamps /\ verifier' = password
          /\ UNCHANGED <<disk, saveErrors>> \/ Save(ids, stamps, password)
      BY <1>6 DEF Restart, Load
    <2> HIDE DEF stamps, ids
    <2>4. disk' \in Stores /\ saveErrors' \in 0..MaxSaveErrors
      BY <2>1, <2>2, <2>3, SaveType DEF TypeOK
    <2> QED BY <1>6, <2>1, <2>2, <2>3, <2>4 DEF Restart, TypeOK, Phases, Jobs
  <1>7. CASE UNCHANGED vars BY <1>7 DEF vars, TypeOK
  <1> QED BY <1>1, <1>2, <1>3, <1>4, <1>5, <1>6, <1>7 DEF Next, ConnectionStep

\* Every variable keeps its type: in particular no count ever goes negative,
\* and only ids of displays are revoked.
THEOREM TypeCorrect == Spec => []TypeOK
  BY InitTypeOK, StepTypeOK, PTL DEF Spec

(***************************************************************************)
(* Every open connection is counted                                        *)
(*                                                                         *)
(* The count alone is not inductive: counting a connection out is safe     *)
(* only because the identity its coroutine holds is a display's.           *)
(***************************************************************************)

AdmittedHaveIds == \A c \in Conn : phase[c] \in HeldPhases => ident[c] \in Display

SessionInv == TypeOK /\ AdmittedHaveIds /\ OpenConnectionsCounted

LEMMA HoldersFinite ==
    ASSUME NEW d
    PROVE  /\ IsFiniteSet(Holders(d)) /\ Cardinality(Holders(d)) \in Nat
           /\ IsFiniteSet(Holders(d)') /\ Cardinality(Holders(d)') \in Nat
  BY FS_Subset, FS_CardinalityType, ConstantsAssumption DEF Holders

\* A step that admits nobody and counts nobody out keeps the counts.
LEMMA NobodyEnters ==
    ASSUME SessionInv, TypeOK',
           \A d \in Display : Holders(d)' \subseteq Holders(d) /\ count[d] <= count'[d]
    PROVE  OpenConnectionsCounted'
  <1> SUFFICES ASSUME NEW d \in Display PROVE Cardinality(Holders(d)') <= count'[d]
    BY DEF OpenConnectionsCounted
  <1>1. Cardinality(Holders(d)') <= Cardinality(Holders(d))
    BY HoldersFinite, FS_Subset
  <1> QED BY <1>1, HoldersFinite DEF SessionInv, OpenConnectionsCounted, TypeOK

LEMMA AdmitCounts ==
    ASSUME SessionInv, TypeOK', NEW c \in Conn, NEW e \in Display, NEW ids,
           phase[c] \in {"hello", "challenge"}, Admit(c, e, ids)
    PROVE  OpenConnectionsCounted' /\ AdmittedHaveIds'
  <1>1. \A d \in Display : Holders(d)' = IF d = e THEN Holders(d) \cup {c} ELSE Holders(d)
    BY DEF Admit, Holders, HeldPhases, SessionInv, TypeOK
  <1>2. ASSUME NEW d \in Display PROVE Cardinality(Holders(d)') <= count'[d]
    <2>1. CASE d = e
      <3>1. Cardinality(Holders(d) \cup {c}) <= Cardinality(Holders(d)) + 1
        <4>1. IsFiniteSet(Holders(d)) /\ Cardinality(Holders(d)) \in Nat
          BY HoldersFinite
        <4> QED BY <4>1, FS_AddElement
      <3>2. Cardinality(Holders(d)) <= count[d] /\ count'[d] = count[d] + 1
        BY <2>1 DEF SessionInv, OpenConnectionsCounted, TypeOK, Admit
      <3>3. Cardinality(Holders(d)') = Cardinality(Holders(d) \cup {c})
        BY <1>1, <2>1
      <3> QED BY <3>1, <3>2, <3>3, HoldersFinite DEF SessionInv, TypeOK
    <2>2. CASE d # e
      BY <1>1, <2>2 DEF SessionInv, OpenConnectionsCounted, TypeOK, Admit
    <2> QED BY <2>1, <2>2
  <1>3. AdmittedHaveIds'
    BY DEF AdmittedHaveIds, SessionInv, TypeOK, Admit, HeldPhases
  <1> QED BY <1>2, <1>3 DEF OpenConnectionsCounted

LEMMA SignOffCounts ==
    ASSUME SessionInv, TypeOK', NEW c \in Conn, SignOff(c)
    PROVE  OpenConnectionsCounted' /\ AdmittedHaveIds'
  <1> DEFINE e == ident[c]
  <1>1. e \in Display /\ c \in Holders(e)
    BY DEF SignOff, SessionInv, AdmittedHaveIds, HeldPhases, Holders
  <1>2. \A d \in Display : Holders(d)' = IF d = e THEN Holders(d) \ {c} ELSE Holders(d)
    BY <1>1, ConstantsAssumption DEF SignOff, Holders, HeldPhases, SessionInv, TypeOK
  <1>3. count' = CountedOut(e)
    BY DEF SignOff, PruneAndSave
  <1>4. ASSUME NEW d \in Display PROVE Cardinality(Holders(d)') <= count'[d]
    <2>1. CASE d = e
      <3>1. Cardinality(Holders(d) \ {c}) = Cardinality(Holders(d)) - 1
        BY <1>1, <2>1, HoldersFinite, FS_RemoveElement
      <3>2. Cardinality(Holders(d)) <= count[d] /\ count[d] \in Nat
        BY <2>1 DEF SessionInv, OpenConnectionsCounted, TypeOK
      <3>3. Cardinality(Holders(d)') = Cardinality(Holders(d) \ {c})
        BY <1>2, <2>1
      <3>4. count'[d] = IF count[d] > 1 THEN count[d] - 1 ELSE 0
        BY <1>1, <1>3, <2>1 DEF CountedOut, SessionInv, TypeOK
      <3> QED BY <3>1, <3>2, <3>3, <3>4, HoldersFinite
    <2>2. CASE d # e
      BY <1>1, <1>2, <1>3, <2>2 DEF SessionInv, OpenConnectionsCounted, TypeOK, CountedOut
    <2> QED BY <2>1, <2>2
  <1>5. AdmittedHaveIds'
    BY DEF AdmittedHaveIds, SessionInv, TypeOK, SignOff, HeldPhases
  <1> QED BY <1>4, <1>5 DEF OpenConnectionsCounted

LEMMA StepSessionInv == SessionInv /\ [Next]_vars => SessionInv'
  <1> SUFFICES ASSUME SessionInv, [Next]_vars PROVE SessionInv'
    OBVIOUS
  <1>0. TypeOK' /\ TypeOK
    BY StepTypeOK DEF SessionInv
  <1> SUFFICES OpenConnectionsCounted' /\ AdmittedHaveIds'
    BY <1>0 DEF SessionInv
  <1> DEFINE Quiet ==
        /\ \A d \in Display : Holders(d)' \subseteq Holders(d) /\ count[d] <= count'[d]
        /\ AdmittedHaveIds'
  <1>1. Quiet => OpenConnectionsCounted' /\ AdmittedHaveIds'
    BY <1>0, NobodyEnters
  <1> USE <1>0 DEF storeVars, confVars, envVars, histVars, netVars, HeldPhases
  <1>2. ASSUME NEW c \in Conn, ConnectionStep(c) PROVE OpenConnectionsCounted' /\ AdmittedHaveIds'
    <2> USE DEF TypeOK, Holders, AdmittedHaveIds, SessionInv
    <2>1. CASE Connect(c) \/ Challenge(c) \/ Refuse(c) \/ Register(c) \/ PeerGone(c)
      <3>1. Quiet BY <2>1 DEF Connect, Challenge, Refuse, Register, PeerGone
      <3> QED BY <3>1, <1>1
    <2>2. CASE RefusalSent(c) \/ LoginTimeout(c) \/ LoginLost(c)
      <3>1. Quiet BY <2>2 DEF RefusalSent, LoginTimeout, LoginLost, EndLogin
      <3> QED BY <3>1, <1>1
    <2>3. CASE ResultSent(c) \/ \E d \in Display : LapsedLogin(c, d)
      <3>1. Quiet BY <2>3 DEF ResultSent, LapsedLogin, PruneAndSave
      <3> QED BY <3>1, <1>1
    <2>4. ASSUME NEW d \in Display, PasswordLogin(c, d) \/ TokenLogin(c, d)
          PROVE  OpenConnectionsCounted' /\ AdmittedHaveIds'
      BY <2>4, AdmitCounts DEF PasswordLogin, TokenLogin
    <2>5. CASE SnapshotDone(c) \/ DropClient(c) \/ ReadEnds(c)
      <3>1. Quiet BY <2>5 DEF SnapshotDone, DropClient, ReadEnds
      <3> QED BY <3>1, <1>1
    <2>6. CASE SignOff(c) BY <2>6, SignOffCounts
    <2> QED BY <1>2, <2>1, <2>2, <2>3, <2>4, <2>5, <2>6 DEF ConnectionStep, LoginStep, SessionStep
  <1>3. ASSUME NEW c \in Conn, NEW j \in Job, NEW target \in Display \cup {None},
               Command(c, j, target)
        PROVE  Quiet
    BY <1>3 DEF Command, TypeOK, Holders, AdmittedHaveIds, SessionInv
  <1>4. ASSUME NEW j \in Job, JobStep(j) PROVE Quiet
    BY <1>4 DEF JobStep, ListDisplays, Revoke, Disconnect, PruneAndSave,
                TypeOK, Holders, AdmittedHaveIds, SessionInv
  <1>5. ASSUME NEW days \in Lifetimes, ApplyConfig(days) PROVE Quiet
    BY <1>5 DEF ApplyConfig, PruneAndSave, TypeOK, Holders, AdmittedHaveIds, SessionInv
  <1>6. CASE DayPasses \/ UNCHANGED vars
    <2>1. Quiet BY <1>6 DEF DayPasses, vars, TypeOK, Holders, AdmittedHaveIds, SessionInv
    <2> QED BY <2>1, <1>1
  <1>7. ASSUME NEW password \in Password \cup {None}, Restart(password)
        PROVE  OpenConnectionsCounted' /\ AdmittedHaveIds'
    <2>1. \A d \in Display : Holders(d)' = {} /\ count'[d] = 0
      BY <1>7 DEF Restart, Holders
    <2>2. AdmittedHaveIds' BY <1>7 DEF Restart, AdmittedHaveIds
    <2> QED BY <2>1, <2>2, FS_EmptySet DEF OpenConnectionsCounted
  <1> QED BY <1>1, <1>2, <1>3, <1>4, <1>5, <1>6, <1>7 DEF Next, ConnectionStep

LEMMA InitSessionInv == Init => SessionInv
  <1> SUFFICES ASSUME Init PROVE SessionInv
    OBVIOUS
  <1>1. \A d \in Display : Holders(d) = {} /\ count[d] = 0
    BY DEF Init, Holders, HeldPhases
  <1>2. AdmittedHaveIds BY DEF Init, AdmittedHaveIds, HeldPhases
  <1> QED BY <1>1, <1>2, InitTypeOK, FS_EmptySet DEF SessionInv, OpenConnectionsCounted

LEMMA AlwaysSessionInv == Spec => []SessionInv
  BY InitSessionInv, StepSessionInv, PTL DEF Spec

\* However the connections of a display come, break off, time out and leave,
\* the login gate counts each one that is open (AuthService.__connections).
THEOREM CountedAlways == Spec => []OpenConnectionsCounted
  BY AlwaysSessionInv, PTL DEF SessionInv

(***************************************************************************)
(* No login lapses under an open connection                                *)
(***************************************************************************)

\* Nobody holds a display that is counted at zero.
LEMMA ZeroMeansClosed ==
    ASSUME SessionInv', NEW d \in Display, count'[d] = 0
    PROVE  Holders(d)' = {}
  <1>1. Cardinality(Holders(d)') = 0
    BY HoldersFinite DEF SessionInv, OpenConnectionsCounted
  <1> QED BY <1>1, HoldersFinite, FS_EmptySet

\* What a prune forgets has no connection afterwards.
LEMMA PruneForgetsClosed ==
    ASSUME TypeOK, SessionInv', NEW days, NEW ids \in SUBSET Display, NEW counts, NEW stamps,
           NEW changed, PruneAndSave(days, ids, counts, stamps, changed)
    PROVE  \A d \in ids \ displays' : Holders(d)' = {}
  BY ZeroMeansClosed DEF PruneAndSave, Lapsed, Expired

LEMMA StepNoLapse ==
    ASSUME SessionInv, [Next]_vars, restarts' = restarts,
           NEW d \in displays \ displays'
    PROVE  Holders(d)' = {} \/ d \in revoked'
  <1>0. TypeOK /\ TypeOK' /\ SessionInv'
    BY StepTypeOK, StepSessionInv DEF SessionInv
  <1> USE <1>0 DEF storeVars, confVars, envVars, histVars, netVars
  <1>1. ASSUME NEW c \in Conn, ConnectionStep(c) PROVE Holders(d)' = {}
    <2>1. ResultSent(c) \/ (\E e \in Display : LapsedLogin(c, e)) \/ SignOff(c)
      BY <1>1 DEF ConnectionStep, LoginStep, SessionStep, Connect, Challenge, Refuse, RefusalSent,
           LoginTimeout, LoginLost, EndLogin, Register, PasswordLogin, TokenLogin, Admit,
           SnapshotDone, DropClient, ReadEnds, PeerGone
    <2>2. \E counts, stamps, changed :
            PruneAndSave(lifetime, displays, counts, stamps, changed)
      BY <2>1 DEF ResultSent, LapsedLogin, SignOff
    <2> QED BY <2>2, PruneForgetsClosed DEF TypeOK
  <1>2. ASSUME NEW j \in Job, JobStep(j) PROVE Holders(d)' = {} \/ d \in revoked'
    <2>1. CASE ListDisplays(j) BY <2>1, PruneForgetsClosed DEF ListDisplays, TypeOK
    <2>2. CASE Revoke(j)
      <3>1. PruneAndSave(lifetime, displays \ {job[j].target}, count, lastSeen, TRUE)
            /\ job[j].target \in revoked'
        BY <2>2 DEF Revoke
      <3>2. displays \ {job[j].target} \in SUBSET Display BY DEF TypeOK
      <3>3. CASE d = job[j].target BY <3>1, <3>3
      <3>4. CASE d # job[j].target
        <4>1. d \in (displays \ {job[j].target}) \ displays' BY <3>4
        <4> QED BY <3>1, <3>2, <4>1, PruneForgetsClosed
      <3> QED BY <3>3, <3>4
    <2>3. CASE Disconnect(j) BY <2>3 DEF Disconnect
    <2> QED BY <1>2, <2>1, <2>2, <2>3 DEF JobStep
  <1>3. ASSUME NEW days \in Lifetimes, ApplyConfig(days) PROVE Holders(d)' = {}
    BY <1>3, PruneForgetsClosed DEF ApplyConfig, TypeOK
  <1>4. ASSUME NEW password \in Password \cup {None}, Restart(password) PROVE FALSE
    BY <1>4 DEF Restart, TypeOK
  <1>5. ~ (DayPasses \/ UNCHANGED vars
           \/ \E c \in Conn, j \in Job, target \in Display \cup {None} : Command(c, j, target))
    BY DEF DayPasses, vars, Command
  <1> QED BY <1>1, <1>2, <1>3, <1>4, <1>5 DEF Next, ConnectionStep

\* A display leaves the store only with no connection open, revoked, or in a
\* restart (AuthService.__prune, handle_revoke, __load).
THEOREM NeverLapsesWhileOpen == Spec => NoLapseWhileOpen
  <1>1. SessionInv /\ [Next]_vars =>
          [restarts' = restarts =>
             \A d \in displays \ displays' : Holders(d)' = {} \/ d \in revoked']_vars
    BY StepNoLapse
  <1> QED BY <1>1, AlwaysSessionInv, PTL DEF Spec, NoLapseWhileOpen

(***************************************************************************)
(* What a restart brings back                                              *)
(*                                                                         *)
(* While no write has failed the file is the memory, word for word; only   *)
(* issued ids are ever in either, so a fresh id is never a revoked one.    *)
(***************************************************************************)

OnlyIssued == displays \cup disk.ids \cup revoked \subseteq issued

InSync == disk = [ids |-> displays, seen |-> lastSeen, password |-> verifier]

\* A stamp is 0 outside the store, and nobody is remembered without a password.
Tidy ==
    /\ \A d \in Display \ displays : lastSeen[d] = 0
    /\ verifier = None => displays = {}

StoreInv ==
    /\ OnlyIssued
    /\ Tidy
    /\ \A c \in Conn : phase[c] = "challenge" => verifier # None
    /\ saveErrors = 0 => InSync /\ revoked \cap displays = {}

LEMMA PruneKeepsSync ==
    ASSUME TypeOK, StoreInv, NEW days, NEW ids \in SUBSET displays,
           NEW stamps \in [Display -> 0..MaxClock], NEW counts, NEW changed \in BOOLEAN,
           ids # displays => changed, stamps # lastSeen => changed,
           \A d \in Display \ ids : stamps[d] = 0 \/ changed,
           PruneAndSave(days, ids, counts, stamps, changed),
           UNCHANGED <<verifier, issued>>
    PROVE  /\ displays' \subseteq ids
           /\ Tidy'
           /\ displays' \cup disk'.ids \subseteq issued'
           /\ saveErrors' = 0 => saveErrors = 0 /\ InSync'
  <1> DEFINE kept == ids \ Lapsed(days, ids, counts, stamps)
  <1>1. displays' = kept /\ lastSeen' = KeepStamps(stamps, kept) /\ kept \subseteq ids
    BY DEF PruneAndSave
  <1>2. Tidy'
    BY <1>1 DEF Tidy, KeepStamps, StoreInv
  <1>3. CASE changed \/ kept # ids
    <2>1. Save(kept, KeepStamps(stamps, kept), verifier)
      BY <1>3 DEF PruneAndSave
    <2> QED BY <1>1, <1>2, <2>1 DEF Save, InSync, StoreInv, OnlyIssued, TypeOK
  <1>4. CASE ~(changed \/ kept # ids)
    <2>1. kept = displays /\ stamps = lastSeen /\ UNCHANGED <<disk, saveErrors>>
      BY <1>4 DEF PruneAndSave
    <2>2. KeepStamps(stamps, kept) = lastSeen
      BY <2>1 DEF KeepStamps, StoreInv, Tidy, TypeOK
    <2> QED BY <1>1, <1>2, <2>1, <2>2 DEF InSync, StoreInv, OnlyIssued
  <1> HIDE DEF kept
  <1> QED BY <1>3, <1>4

\* A plain prune of the whole store, as every display list runs it.
LEMMA PlainPrune ==
    ASSUME TypeOK, StoreInv, NEW days, PruneAndSave(days, displays, count, lastSeen, FALSE),
           UNCHANGED <<verifier, histVars>>,
           \A c \in Conn : phase'[c] = "challenge" => phase[c] = "challenge"
    PROVE  StoreInv'
  <1>1. /\ displays \in SUBSET displays /\ lastSeen \in [Display -> 0..MaxClock]
        /\ \A d \in Display \ displays : lastSeen[d] = 0
    BY DEF TypeOK, StoreInv, Tidy
  <1>2. /\ displays' \subseteq displays /\ Tidy' /\ displays' \cup disk'.ids \subseteq issued'
        /\ saveErrors' = 0 => saveErrors = 0 /\ InSync'
    BY <1>1, PruneKeepsSync DEF histVars
  <1> QED BY <1>2 DEF StoreInv, OnlyIssued, histVars

LEMMA AdmitKeepsSync ==
    ASSUME TypeOK, StoreInv, verifier # None, NEW c \in Conn, NEW d \in Display,
           Admit(c, d, displays \cup {d}), issued' = issued \cup {d},
           d \in revoked => d \in displays, UNCHANGED <<verifier, revoked>>
    PROVE  StoreInv'
  <1>1. displays' = displays \cup {d} /\ Save(displays', lastSeen', verifier)
        /\ lastSeen' = [lastSeen EXCEPT ![d] = clock]
    BY DEF Admit
  <1>2. Tidy'
    BY <1>1 DEF Tidy, StoreInv, TypeOK
  <1>3. OnlyIssued'
    BY <1>1 DEF OnlyIssued, StoreInv, Save
  <1>4. saveErrors' = 0 => InSync' /\ revoked' \cap displays' = {}
    BY <1>1 DEF Save, InSync, StoreInv, TypeOK
  <1>5. \A e \in Conn : phase'[e] = "challenge" => verifier' # None
    BY DEF Admit
  <1> QED BY <1>2, <1>3, <1>4, <1>5 DEF StoreInv

LEMMA StepStoreInv == TypeOK /\ StoreInv /\ [Next]_vars => StoreInv'
  <1> SUFFICES ASSUME TypeOK, StoreInv, [Next]_vars PROVE StoreInv'
    OBVIOUS
  <1> USE DEF storeVars, confVars, envVars, histVars, netVars
  <1> DEFINE Untouched == UNCHANGED <<displays, lastSeen, disk, saveErrors, verifier, issued, revoked>>
                         /\ \A c \in Conn : phase'[c] = "challenge" => verifier # None
  <1>1. Untouched => StoreInv'
    BY DEF StoreInv, OnlyIssued, Tidy, InSync
  <1>2. ASSUME NEW c \in Conn, ConnectionStep(c) PROVE StoreInv'
    <2>1. CASE \/ Connect(c) \/ Challenge(c) \/ Refuse(c) \/ Register(c) \/ PeerGone(c)
               \/ RefusalSent(c) \/ LoginTimeout(c) \/ LoginLost(c)
               \/ SnapshotDone(c) \/ DropClient(c) \/ ReadEnds(c)
      <3>1. Untouched
        BY <2>1 DEF StoreInv, TypeOK, Connect, Challenge, Refuse, Register, PeerGone, RefusalSent, LoginTimeout,
                    LoginLost, EndLogin, SnapshotDone, DropClient, ReadEnds
      <3> QED BY <3>1, <1>1
    <2>2. CASE ResultSent(c) \/ \E d \in Display : LapsedLogin(c, d)
      BY <2>2, PlainPrune DEF ResultSent, LapsedLogin, TypeOK
    <2>3. ASSUME NEW d \in Display, PasswordLogin(c, d) PROVE StoreInv'
      <3>1. phase[c] = "challenge" /\ d \notin issued /\ d \notin revoked
        BY <2>3 DEF PasswordLogin, StoreInv, OnlyIssued
      <3>2. verifier # None
        BY <3>1 DEF StoreInv
      <3> QED BY <2>3, <3>1, <3>2, AdmitKeepsSync DEF PasswordLogin
    <2>4. ASSUME NEW d \in Display, TokenLogin(c, d) PROVE StoreInv'
      <3>1. displays \cup {d} = displays /\ issued \cup {d} = issued /\ d \in displays
        BY <2>4 DEF TokenLogin, StoreInv, OnlyIssued
      <3> QED BY <2>4, <3>1, AdmitKeepsSync DEF TokenLogin
    <2>5. CASE SignOff(c)
      <3> DEFINE d == ident[c]
                 stamps == IF d \in displays THEN [lastSeen EXCEPT ![d] = clock] ELSE lastSeen
      <3>0. \A e \in Conn : phase'[e] = "challenge" => verifier # None
        BY <2>5 DEF SignOff, StoreInv, TypeOK
      <3>1. CASE d \in displays
        <4>1. PruneAndSave(lifetime, displays, CountedOut(d), stamps, TRUE)
              /\ UNCHANGED <<verifier, issued, revoked>>
          BY <2>5, <3>1 DEF SignOff
        <4>2. stamps \in [Display -> 0..MaxClock] BY DEF TypeOK
        <4> HIDE DEF stamps, d
        <4>3. /\ displays' \subseteq displays /\ Tidy' /\ displays' \cup disk'.ids \subseteq issued'
              /\ saveErrors' = 0 => saveErrors = 0 /\ InSync'
          BY <4>1, <4>2, PruneKeepsSync
        <4> QED BY <3>0, <4>1, <4>3 DEF StoreInv, OnlyIssued
      <3>2. CASE d \notin displays
        <4>1. Untouched BY <2>5, <3>0, <3>2 DEF SignOff
        <4> QED BY <4>1, <1>1
      <3> QED BY <3>1, <3>2
    <2> QED BY <1>2, <2>1, <2>2, <2>3, <2>4, <2>5 DEF ConnectionStep, LoginStep, SessionStep
  <1>3. ASSUME NEW c \in Conn, NEW j \in Job, NEW target \in Display \cup {None},
               Command(c, j, target)
        PROVE  Untouched
    BY <1>3 DEF Command, StoreInv
  <1>4. ASSUME NEW j \in Job, JobStep(j) PROVE StoreInv'
    <2>1. CASE ListDisplays(j) BY <2>1, PlainPrune DEF ListDisplays
    <2>2. CASE Revoke(j)
      <3> DEFINE d == job[j].target
      <3>1. /\ PruneAndSave(lifetime, displays \ {d}, count, lastSeen, TRUE)
            /\ revoked' = revoked \cup {d} /\ d \in displays
            /\ UNCHANGED <<verifier, issued, phase>>
        BY <2>2 DEF Revoke
      <3>2. displays \ {d} \in SUBSET displays /\ lastSeen \in [Display -> 0..MaxClock]
        BY DEF TypeOK
      <3> HIDE DEF d
      <3>3. /\ displays' \subseteq displays \ {d} /\ Tidy'
            /\ displays' \cup disk'.ids \subseteq issued'
            /\ saveErrors' = 0 => saveErrors = 0 /\ InSync'
        BY <3>1, <3>2, PruneKeepsSync
      <3> QED BY <3>1, <3>3 DEF StoreInv, OnlyIssued
    <2>3. CASE Disconnect(j)
      <3>1. Untouched BY <2>3 DEF Disconnect, StoreInv
      <3> QED BY <3>1, <1>1
    <2> QED BY <1>4, <2>1, <2>2, <2>3 DEF JobStep
  <1>5. ASSUME NEW days \in Lifetimes, ApplyConfig(days) PROVE StoreInv'
    BY <1>5, PlainPrune DEF ApplyConfig
  <1>6. CASE DayPasses \/ UNCHANGED vars
    <2>1. Untouched BY <1>6 DEF DayPasses, vars, StoreInv
    <2> QED BY <2>1, <1>1
  <1>7. ASSUME NEW password \in Password \cup {None}, Restart(password) PROVE StoreInv'
    <2> DEFINE keep == password # None /\ password = disk.password
               ids == IF keep THEN disk.ids ELSE {}
               stamps == KeepStamps(disk.seen, ids)
    <2>1. /\ displays' = ids /\ lastSeen' = stamps /\ verifier' = password
          /\ UNCHANGED <<issued, revoked>> /\ \A c \in Conn : phase'[c] = "none"
          /\ IF keep \/ (password = None /\ disk.ids = {} /\ disk.password = None)
             THEN UNCHANGED <<disk, saveErrors>> ELSE Save(ids, stamps, password)
      BY <1>7 DEF Restart, Load
    <2>2. Tidy'
      BY <2>1 DEF Tidy, KeepStamps
    <2>3. OnlyIssued'
      BY <2>1 DEF OnlyIssued, StoreInv, Save
    <2>4. ASSUME saveErrors' = 0 PROVE InSync' /\ revoked' \cap displays' = {}
      <3>1. saveErrors = 0 /\ InSync /\ revoked \cap displays = {}
        BY <2>1, <2>4 DEF StoreInv, Save, TypeOK
      <3>2. revoked' \cap displays' = {}
        BY <2>1, <3>1 DEF InSync
      <3>3. CASE Save(ids, stamps, password)
        BY <2>1, <2>4, <3>3, <3>1 DEF Save, InSync
      <3>4. CASE keep /\ UNCHANGED <<disk, saveErrors>>
        <4>1. stamps = lastSeen
          BY <3>1, <3>4 DEF InSync, KeepStamps, StoreInv, Tidy, TypeOK
        <4> QED BY <2>1, <3>1, <3>2, <3>4, <4>1 DEF InSync
      <3>5. CASE password = None /\ disk.ids = {} /\ UNCHANGED <<disk, saveErrors>>
                 /\ disk.password = None
        <4>1. ids = displays /\ ids = {} BY <3>1, <3>5 DEF InSync
        <4>2. stamps = lastSeen
          BY <3>1, <3>5, <4>1 DEF InSync, KeepStamps, StoreInv, Tidy, TypeOK
        <4> QED BY <2>1, <3>1, <3>2, <3>5, <4>1, <4>2 DEF InSync
      <3> QED BY <2>1, <3>2, <3>3, <3>4, <3>5
    <2> HIDE DEF ids, stamps, keep
    <2> QED BY <2>1, <2>2, <2>3, <2>4 DEF StoreInv
  <1> QED BY <1>1, <1>2, <1>3, <1>4, <1>5, <1>6, <1>7 DEF Next, ConnectionStep

LEMMA AlwaysStoreInv == Spec => [](TypeOK /\ StoreInv)
  <1>1. Init => StoreInv
    BY DEF Init, StoreInv, OnlyIssued, Tidy, InSync
  <1> QED BY <1>1, InitTypeOK, StepTypeOK, StepStoreInv, PTL DEF Spec

\* A revoked login never comes back while the writes of the store succeed,
\* through any number of restarts (handle_revoke, __load).
THEOREM RevokedForGood == Spec => []RevokedStaysOut
  <1>1. StoreInv => RevokedStaysOut
    BY DEF StoreInv, RevokedStaysOut
  <1> QED BY <1>1, AlwaysStoreInv, PTL

LEMMA OnlyRestartRestarts ==
    [Next]_vars /\ restarts' # restarts => \E password \in Password \cup {None} : Restart(password)
  BY DEF Next, vars, LoginStep, SessionStep, JobStep, Connect, Challenge, Refuse, RefusalSent,
         LoginTimeout, LoginLost, EndLogin, Register, ResultSent, PasswordLogin, TokenLogin,
         LapsedLogin, SnapshotDone, DropClient, ReadEnds, SignOff, PeerGone, Command,
         ListDisplays, Revoke, Disconnect, ApplyConfig, DayPasses, envVars

LEMMA RestartReloads ==
    ASSUME TypeOK, StoreInv, NEW password \in Password \cup {None}, Restart(password),
           verifier' = verifier, saveErrors' = 0
    PROVE  displays' = displays /\ lastSeen' = lastSeen
  <1> DEFINE keep == password # None /\ password = disk.password
             ids == IF keep THEN disk.ids ELSE {}
  <1>1. /\ displays' = ids /\ lastSeen' = KeepStamps(disk.seen, ids) /\ verifier = password
        /\ UNCHANGED saveErrors \/ Save(ids, KeepStamps(disk.seen, ids), password)
    BY DEF Restart, Load
  <1>2. InSync
    BY <1>1 DEF Save, StoreInv, TypeOK
  <1>3. ids = displays
    BY <1>1, <1>2 DEF InSync, StoreInv, Tidy
  <1>4. KeepStamps(disk.seen, displays) = lastSeen
    BY <1>2 DEF InSync, KeepStamps, StoreInv, Tidy, TypeOK
  <1> QED BY <1>1, <1>3, <1>4

\* A restart under the same password forgets no login and changes no stamp
\* while the writes of the store succeed (AuthService.__load and __save).
THEOREM RestartsKeepLogins == Spec => RestartKeepsLogins
  <1>1. TypeOK /\ StoreInv /\ [Next]_vars =>
          [restarts' # restarts /\ verifier' = verifier /\ saveErrors' = 0 =>
             displays' = displays /\ lastSeen' = lastSeen]_vars
    BY OnlyRestartRestarts, RestartReloads
  <1> QED BY <1>1, AlwaysStoreInv, PTL DEF Spec, RestartKeepsLogins

(***************************************************************************)
(* Only admitted connections are served                                    *)
(***************************************************************************)

\* The maps follow the coroutines: what is in them is registered and not yet
\* cleaned up, under the identity its login gave it
\* (Server.__active_connections and Server.__peers).
THEOREM ServedAreAdmitted == Spec => []OnlyAdmittedAreServed
  <1>1. Init => OnlyAdmittedAreServed
    BY DEF Init, OnlyAdmittedAreServed, OpenPhases
  <1>2. TypeOK /\ OnlyAdmittedAreServed /\ [Next]_vars => OnlyAdmittedAreServed'
    <2> SUFFICES ASSUME TypeOK, OnlyAdmittedAreServed, [Next]_vars PROVE OnlyAdmittedAreServed'
      OBVIOUS
    <2> USE DEF OnlyAdmittedAreServed, TypeOK, OpenPhases, LoginPhases,
                storeVars, confVars, envVars, histVars, netVars
    <2>1. ASSUME NEW c \in Conn, ConnectionStep(c) PROVE OnlyAdmittedAreServed'
      <3>1. CASE Connect(c) \/ Challenge(c) \/ Refuse(c) \/ PeerGone(c)
        BY <3>1 DEF Connect, Challenge, Refuse, PeerGone
      <3>2. CASE RefusalSent(c) \/ LoginTimeout(c) \/ LoginLost(c)
        BY <3>2 DEF RefusalSent, LoginTimeout, LoginLost, EndLogin
      <3>3. CASE ResultSent(c) \/ Register(c) BY <3>3 DEF ResultSent, Register
      <3>4. ASSUME NEW d \in Display, PasswordLogin(c, d) \/ TokenLogin(c, d) \/ LapsedLogin(c, d)
            PROVE  OnlyAdmittedAreServed'
        BY <3>4 DEF PasswordLogin, TokenLogin, LapsedLogin, Admit
      <3>5. CASE SnapshotDone(c) \/ DropClient(c) \/ ReadEnds(c) \/ SignOff(c)
        BY <3>5 DEF SnapshotDone, DropClient, ReadEnds, SignOff
      <3> QED BY <2>1, <3>1, <3>2, <3>3, <3>4, <3>5 DEF ConnectionStep, LoginStep, SessionStep
    <2>2. ASSUME NEW c \in Conn, NEW j \in Job, NEW target \in Display \cup {None},
                 Command(c, j, target)
          PROVE  OnlyAdmittedAreServed'
      BY <2>2 DEF Command
    <2>3. ASSUME NEW j \in Job, JobStep(j) PROVE OnlyAdmittedAreServed'
      BY <2>3 DEF JobStep, ListDisplays, Revoke, Disconnect
    <2>4. ASSUME NEW days \in Lifetimes, ApplyConfig(days) PROVE OnlyAdmittedAreServed'
      BY <2>4 DEF ApplyConfig
    <2>5. ASSUME NEW password \in Password \cup {None}, Restart(password)
          PROVE  OnlyAdmittedAreServed'
      BY <2>5 DEF Restart
    <2>6. CASE DayPasses \/ UNCHANGED vars BY <2>6 DEF DayPasses, vars
    <2> QED BY <2>1, <2>2, <2>3, <2>4, <2>5, <2>6 DEF Next, ConnectionStep
  <1> QED BY <1>1, <1>2, TypeCorrect, PTL DEF Spec

(***************************************************************************)
(* The gate implements LoginSessions                                       *)
(***************************************************************************)

\* The session each connection is in: the refinement mapping's first part.
Sess == [c \in Conn |-> IF phase[c] \in HeldPhases THEN ident[c] ELSE None]

\* A step that touches neither a session nor the store.
Unseen == UNCHANGED <<Sess, displays, disk, issued>>

LEMMA UnseenStutters == Unseen => UNCHANGED Sessions!sessionVars
  BY DEF Unseen, Sess, Sessions!sessionVars

\* What a prune forgets is what a lapse may forget: nobody is in a session of it.
LEMMA PruneLapses ==
    ASSUME TypeOK, SessionInv', NEW days, NEW ids \in SUBSET Display, NEW counts, NEW stamps,
           NEW changed, PruneAndSave(days, ids, counts, stamps, changed)
    PROVE  Sessions!Lapsing(ids, Sess')
  <1> DEFINE gone == Lapsed(days, ids, counts, stamps)
  <1>1. \A d \in gone : Holders(d)' = {}
    BY ZeroMeansClosed DEF PruneAndSave, Lapsed, Expired
  <1>2. gone \in SUBSET {d \in ids : \A c \in Conn : Sess'[c] # d}
    BY <1>1, ConstantsAssumption DEF Lapsed, Holders, Sess
  <1>3. displays' = ids \ gone /\ disk'.ids \in {ids \ gone, disk.ids}
    BY DEF PruneAndSave, Save
  <1>4. Sessions!Remember(ids \ gone)
    BY <1>3 DEF Sessions!Remember
  <1> QED BY <1>2, <1>4 DEF Sessions!Lapsing

\* A write leaves the ids it was given on disk, or those of the last write.
LEMMA SaveRemembers ==
    ASSUME NEW ids, NEW stamps, NEW password, Save(ids, stamps, password), displays' = ids
    PROVE  Sessions!Remember(ids)
  BY DEF Save, Sessions!Remember

\* Admitting a connection opens its session.
LEMMA AdmitOpens ==
    ASSUME TypeOK, NEW c \in Conn, NEW d \in Display, NEW ids,
           phase[c] \in {"hello", "challenge"}, Admit(c, d, ids)
    PROVE  /\ Sess[c] = None
           /\ Sess' = [Sess EXCEPT ![c] = d]
           /\ Sessions!Remember(ids)
  <1>1. Sessions!Remember(ids)
    BY SaveRemembers DEF Admit
  <1>2. Sess[c] = None /\ Sess' = [Sess EXCEPT ![c] = d]
    BY DEF Admit, Sess, HeldPhases, TypeOK
  <1> QED BY <1>1, <1>2

\* Forgetting the identity of a connection that had none is unseen; of one
\* that was in a session, it is the end of that session.
LEMMA EndLoginLeaves ==
    ASSUME SessionInv, NEW c \in Conn, EndLogin(c), phase[c] \in LoginPhases
    PROVE  Unseen \/ Sessions!Leave(c)
  <1>0. UNCHANGED <<displays, disk, issued>>
    BY DEF EndLogin, storeVars, histVars
  <1>1. CASE phase[c] \in HeldPhases
    <2>1. Sess[c] # None
      BY <1>1, ConstantsAssumption DEF SessionInv, AdmittedHaveIds, Sess
    <2>2. Sess' = [Sess EXCEPT ![c] = None]
      BY <1>1 DEF EndLogin, Sess, HeldPhases, SessionInv, TypeOK
    <2>3. Sessions!Remember(displays \ {})
      BY <1>0 DEF Sessions!Remember
    <2>4. Sessions!Lapsing(displays, Sess')
      BY <2>3 DEF Sessions!Lapsing
    <2> QED BY <1>0, <2>1, <2>2, <2>4 DEF Sessions!Leave, Sess
  <1>2. CASE phase[c] \notin HeldPhases
    <2>1. UNCHANGED Sess
      BY <1>2 DEF EndLogin, Sess, HeldPhases, SessionInv, TypeOK
    <2> QED BY <1>0, <2>1 DEF Unseen
  <1> QED BY <1>1, <1>2

\* A prune of the whole store that moves no session is a lapse.
LEMMA PruneIsLapse ==
    ASSUME TypeOK, SessionInv', NEW days, PruneAndSave(days, displays, count, lastSeen, FALSE),
           UNCHANGED <<Sess, issued>>
    PROVE  Sessions!Lapse
  <1>1. displays \in SUBSET Display
    BY DEF TypeOK
  <1>2. Sessions!Lapsing(displays, Sess')
    BY <1>1, PruneLapses
  <1>3. Sessions!Lapsing(displays, Sess)
    BY <1>2 DEF Sessions!Lapsing
  <1> QED BY <1>3 DEF Sessions!Lapse, Sess

LEMMA SignOffLeaves ==
    ASSUME SessionInv, SessionInv', NEW c \in Conn, SignOff(c)
    PROVE  Sessions!Leave(c)
  <1> DEFINE d == ident[c]
             stamps == IF d \in displays THEN [lastSeen EXCEPT ![d] = clock] ELSE lastSeen
  <1>1. Sess[c] # None
    BY ConstantsAssumption DEF SignOff, SessionInv, AdmittedHaveIds, Sess, HeldPhases
  <1>2. Sess' = [Sess EXCEPT ![c] = None]
    BY DEF SignOff, Sess, HeldPhases, SessionInv, TypeOK
  <1>3. Sessions!Lapsing(displays, Sess')
    <2>1. CASE d \in displays
      <3>1. PruneAndSave(lifetime, displays, CountedOut(d), stamps, TRUE)
        BY <2>1 DEF SignOff
      <3>2. displays \in SUBSET Display
        BY DEF SessionInv, TypeOK
      <3> HIDE DEF d, stamps
      <3> QED BY <3>1, <3>2, PruneLapses DEF SessionInv
    <2>2. CASE d \notin displays
      <3>1. Sessions!Remember(displays \ {})
        BY <2>2 DEF SignOff, Sessions!Remember
      <3> QED BY <3>1 DEF Sessions!Lapsing
    <2> QED BY <2>1, <2>2
  <1> QED BY <1>1, <1>2, <1>3 DEF SignOff, histVars, Sessions!Leave, Sess

LEMMA RevokeRevokes ==
    ASSUME TypeOK, SessionInv', NEW j \in Job, Revoke(j)
    PROVE  Sessions!SessionsNext
  <1> DEFINE d == job[j].target
  <1>1. /\ PruneAndSave(lifetime, displays \ {d}, count, lastSeen, TRUE)
        /\ d \in displays /\ d \in Display /\ displays \ {d} \in SUBSET Display
        /\ UNCHANGED <<Sess, issued>>
    BY DEF Revoke, Sess, TypeOK
  <1> HIDE DEF d
  <1>2. Sessions!Lapsing(displays \ {d}, Sess')
    BY <1>1, PruneLapses
  <1>3. Sessions!Lapsing(displays \ {d}, Sess)
    BY <1>1, <1>2 DEF Sessions!Lapsing
  <1>4. Sessions!Revoke(d)
    BY <1>1, <1>3 DEF Sessions!Revoke, Sess
  <1> QED BY <1>1, <1>4 DEF Sessions!SessionsNext

LEMMA RestartRestarts ==
    ASSUME NEW password, Restart(password)
    PROVE  Sessions!Restart
  <1> DEFINE keep == password # None /\ password = disk.password
             ids == IF keep THEN disk.ids ELSE {}
             stamps == KeepStamps(disk.seen, ids)
  <1>1. displays' = ids /\ (UNCHANGED disk \/ Save(ids, stamps, password))
    BY DEF Restart, Load
  <1>2. displays' \in {disk.ids, {}}
    BY <1>1
  <1>3. disk'.ids \in {displays', disk.ids}
    <2> HIDE DEF ids, stamps, keep
    <2> QED BY <1>1 DEF Save
  <1>4. Sess' = [c \in Conn |-> None]
    BY DEF Restart, Sess, HeldPhases
  <1> QED BY <1>2, <1>3, <1>4 DEF Restart, histVars, Sessions!Restart, Sess

LEMMA StepImplements ==
    SessionInv /\ SessionInv' /\ [Next]_vars => [Sessions!SessionsNext]_(Sessions!sessionVars)
  <1> SUFFICES ASSUME SessionInv, SessionInv', [Next]_vars
               PROVE  Sessions!SessionsNext \/ UNCHANGED Sessions!sessionVars
    OBVIOUS
  <1>0. TypeOK
    BY DEF SessionInv
  <1>1. ASSUME NEW c \in Conn, ConnectionStep(c)
        PROVE  Sessions!SessionsNext \/ Unseen
    <2> USE DEF storeVars, histVars
    <2>1. CASE \/ Connect(c) \/ Challenge(c) \/ Refuse(c) \/ Register(c) \/ PeerGone(c)
               \/ SnapshotDone(c) \/ DropClient(c) \/ ReadEnds(c)
      BY <1>0, <2>1 DEF Unseen, Sess, HeldPhases, TypeOK, Connect, Challenge, Refuse, Register,
                  PeerGone, SnapshotDone, DropClient, ReadEnds
    <2>2. CASE RefusalSent(c) \/ LoginTimeout(c) \/ LoginLost(c)
      <3>1. EndLogin(c) /\ phase[c] \in LoginPhases
        BY <2>2 DEF RefusalSent, LoginTimeout, LoginLost, LoginPhases
      <3> QED BY <3>1, EndLoginLeaves DEF Sessions!SessionsNext
    <2>3. ASSUME NEW d \in Display, PasswordLogin(c, d) PROVE Sessions!Pair(c, d)
      <3>1. phase[c] \in {"hello", "challenge"} /\ Admit(c, d, displays \cup {d})
            /\ d \in Display \ issued /\ issued' = issued \cup {d}
        BY <2>3 DEF PasswordLogin
      <3>2. /\ Sess[c] = None /\ Sess' = [Sess EXCEPT ![c] = d]
            /\ Sessions!Remember(displays \cup {d})
        BY <1>0, <3>1, AdmitOpens
      <3> QED BY <3>1, <3>2 DEF Sessions!Pair, Sessions!Fresh, Sess
    <2>4. ASSUME NEW d \in Display, TokenLogin(c, d) PROVE Sessions!Return(c, d)
      <3>1. phase[c] \in {"hello", "challenge"} /\ Admit(c, d, displays)
            /\ d \in displays /\ UNCHANGED issued
        BY <2>4 DEF TokenLogin
      <3>2. /\ Sess[c] = None /\ Sess' = [Sess EXCEPT ![c] = d]
            /\ Sessions!Remember(displays)
        BY <1>0, <3>1, AdmitOpens
      <3> QED BY <3>1, <3>2 DEF Sessions!Return, Sess
    <2>5. CASE ResultSent(c) \/ \E d \in Display : LapsedLogin(c, d)
      <3>1. PruneAndSave(lifetime, displays, count, lastSeen, FALSE) /\ UNCHANGED issued
        BY <2>5 DEF ResultSent, LapsedLogin
      <3>2. UNCHANGED Sess
        BY <1>0, <2>5 DEF ResultSent, LapsedLogin, Sess, HeldPhases, TypeOK
      <3> QED BY <1>0, <3>1, <3>2, PruneIsLapse DEF Sessions!SessionsNext
    <2>6. CASE SignOff(c)
      BY <2>6, SignOffLeaves DEF Sessions!SessionsNext
    <2> QED BY <1>1, <2>1, <2>2, <2>3, <2>4, <2>5, <2>6
            DEF ConnectionStep, LoginStep, SessionStep, Sessions!SessionsNext
  <1>2. ASSUME NEW c \in Conn, NEW j \in Job, NEW target \in Display \cup {None},
               Command(c, j, target)
        PROVE  Unseen
    BY <1>2 DEF Command, Unseen, Sess, storeVars, histVars
  <1>3. ASSUME NEW j \in Job, JobStep(j) PROVE Sessions!SessionsNext \/ Unseen
    <2>1. CASE ListDisplays(j)
      <3>1. PruneAndSave(lifetime, displays, count, lastSeen, FALSE) /\ UNCHANGED <<Sess, issued>>
        BY <2>1 DEF ListDisplays, Sess, histVars
      <3> QED BY <1>0, <3>1, PruneIsLapse DEF Sessions!SessionsNext
    <2>2. CASE Revoke(j) BY <1>0, <2>2, RevokeRevokes
    <2>3. CASE Disconnect(j) BY <2>3 DEF Disconnect, Unseen, Sess, storeVars, histVars
    <2> QED BY <1>3, <2>1, <2>2, <2>3 DEF JobStep
  <1>4. ASSUME NEW days \in Lifetimes, ApplyConfig(days) PROVE Sessions!Lapse
    <2>1. PruneAndSave(days, displays, count, lastSeen, FALSE) /\ UNCHANGED <<Sess, issued>>
      BY <1>4 DEF ApplyConfig, Sess, netVars, histVars
    <2> QED BY <1>0, <2>1, PruneIsLapse
  <1>5. ASSUME NEW password \in Password \cup {None}, Restart(password) PROVE Sessions!Restart
    BY <1>5, RestartRestarts
  <1>6. CASE DayPasses \/ UNCHANGED vars
    <2>1. Unseen
      BY <1>6 DEF DayPasses, vars, Unseen, Sess, netVars, storeVars, histVars
    <2> QED BY <2>1, UnseenStutters
  <1>7. Sessions!Lapse \/ Sessions!Restart => Sessions!SessionsNext
    BY DEF Sessions!SessionsNext
  <1> QED BY <1>1, <1>2, <1>3, <1>4, <1>5, <1>6, <1>7, UnseenStutters DEF Next, ConnectionStep

\* Sockets, tasks, stamps, counts and files implement the sessions the gate
\* promises: a display is in one from __admit to disconnected(), and a login is
\* forgotten only by a revocation, a lapse outside every session, or a restart.
THEOREM Implements == Spec => ImplementsSessions
  <1>1. Init => Sessions!SessionsInit
    BY DEF Init, Sessions!SessionsInit, HeldPhases
  <1> QED BY <1>1, StepImplements, AlwaysSessionInv, PTL
          DEF Spec, ImplementsSessions, Sessions!SessionsSpec

\* Whatever is in flight, only the admitted are served, every open connection
\* is counted and a revoked display stays out (Server and AuthService).
THEOREM GateHolds == Spec => []GateIsKept
  BY ServedAreAdmitted, CountedAlways, RevokedForGood, PTL DEF GateIsKept

\* No login lapses under a connection or is lost to a restart (__prune, __load).
THEOREM LoginsStay == Spec => LoginsLast
  BY NeverLapsesWhileOpen, RestartsKeepLogins DEF LoginsLast
=============================================================================
