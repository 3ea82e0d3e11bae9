-------------------------- MODULE SaveDownloadProofs --------------------------
(***************************************************************************)
(* Proofs about saving a download, for any number of attempts and for both *)
(* builds.                                                                 *)
(***************************************************************************)
EXTENDS SaveDownload, TLAPS

\* Only contents that were flushed ever get the name, and the download is on
\* disk only where it is also seen.
FlushedFirst ==
  /\ step = "persist" => temporary = "flushed"
  /\ entry # "unflushed" /\ disk \notin {"unflushed", "torn"}
  /\ disk = "new" => entry = "new"

\* From the moment the download has its name until somebody else touches it, it
\* is there; from success on it is there after a crash, if the directory was flushed.
KeepsItsName ==
  undisturbed =>
    /\ step = "sync_directory" => entry = "new"
    /\ Unix /\ result = "ok" => step = "done" /\ entry = "new" /\ disk = "new"

\* Until the download takes the name, the destination is what the attempt found.
FoundUntilNamed ==
  undisturbed =>
    /\ step \in {"stage", "write", "flush", "persist"} => entry = found
    /\ result = "error" => entry \in {found, "new"}

Inv == TypeOK /\ FlushedFirst /\ KeepsItsName /\ FoundUntilNamed

LEMMA InitInv == Init => Inv
  <1> SUFFICES ASSUME Init PROVE Inv
    OBVIOUS
  <1>1. TypeOK
    <2>1. force \in BOOLEAN /\ undisturbed \in BOOLEAN
      BY Zenon DEF Init
    <2>2. attempts \in 0..MaxAttempts
      BY SaveAssumption DEF Init
    <2> QED
      BY <2>1, <2>2 DEF Init, TypeOK, Contents
  <1>2. FlushedFirst /\ KeepsItsName /\ FoundUntilNamed
    BY DEF Init, FlushedFirst, KeepsItsName, FoundUntilNamed
  <1> QED
    BY <1>1, <1>2 DEF Inv

LEMMA NextInv == Inv /\ [Next]_vars => Inv'
  <1> SUFFICES ASSUME Inv, [Next]_vars PROVE Inv'
    OBVIOUS
  <1> USE DEF Inv, TypeOK, Contents, FlushedFirst, KeepsItsName, FoundUntilNamed
  <1>1. CASE Begin
    BY <1>1, SaveAssumption DEF Begin
  <1>2. CASE Stage
    BY <1>2 DEF Stage
  <1>3. CASE Write
    BY <1>3 DEF Write
  <1>4. CASE Flush
    BY <1>4 DEF Flush
  <1>5. CASE Persist
    BY <1>5 DEF Persist
  <1>6. CASE SyncDirectory
    BY <1>6 DEF SyncDirectory
  <1>7. CASE Fail
    BY <1>7 DEF Fail
  <1>8. CASE WriteBack
    BY <1>8 DEF WriteBack
  <1>9. CASE OtherProcess
    BY <1>9 DEF OtherProcess
  <1>10. CASE Crash
    BY <1>10 DEF Crash
  <1>11. CASE UNCHANGED vars
    BY <1>11 DEF vars
  <1> QED
    BY <1>1, <1>2, <1>3, <1>4, <1>5, <1>6, <1>7, <1>8, <1>9, <1>10, <1>11 DEF Next

\* The invariant of the specification.
THEOREM Invariance == Spec => []Inv
  BY InitInv, NextInv, PTL DEF Spec

\* However many attempts fail or crash, the destination is whole or absent.
THEOREM DestinationStaysWhole == Spec => []DestinationIsWhole
  <1>1. Inv => DestinationIsWhole
    BY DEF Inv, FlushedFirst, DestinationIsWhole
  <1> QED
    BY <1>1, Invariance, PTL

\* The steps, the files and the counters of a download keep their types, crashes and
\* other processes included.
THEOREM TypeCorrect == Spec => []TypeOK
  <1>1. Inv => TypeOK
    BY DEF Inv
  <1> QED
    BY <1>1, Invariance, PTL

\* A download that a unix build reported saved survives every crash.
THEOREM SavedStaysSaved == Spec => []SuccessIsDurable
  <1>1. Inv => SuccessIsDurable
    BY DEF Inv, KeepsItsName, SuccessIsDurable
  <1> QED
    BY <1>1, Invariance, PTL

\* An attempt that returns an error has left the destination as it was, or given it
\* the whole download.
THEOREM ErrorsLeaveOldOrNew == Spec => []ErrorLeavesOldOrNew
  <1>1. Inv => ErrorLeavesOldOrNew
    BY DEF Inv, FoundUntilNamed, ErrorLeavesOldOrNew
  <1> QED
    BY <1>1, Invariance, PTL

\* The download takes the name of another file only when the user asked for it,
\* whenever that file appeared and whatever a crash brings back.
THEOREM NothingIsReplacedUnasked == Spec => ReplacesOnlyWhenForced
  <1> DEFINE Asked == entry' = "new" /\ entry \in {"old", "other"} => force
  <1>1. Inv /\ [Next]_vars => [Asked]_vars
    <2> SUFFICES ASSUME Inv, Next, entry' = "new", entry \in {"old", "other"}
                 PROVE  force
      OBVIOUS
    <2>1. CASE Persist
      BY <2>1 DEF Persist
    <2>2. CASE OtherProcess
      BY <2>2 DEF OtherProcess
    <2>3. CASE Crash
      BY <2>3 DEF Crash, Inv, FlushedFirst
    <2> QED
      BY <2>1, <2>2, <2>3
         DEF Next, Begin, Stage, Write, Flush, SyncDirectory, Fail, WriteBack
  <1> QED
    BY <1>1, Invariance, PTL DEF Spec, ReplacesOnlyWhenForced
=============================================================================
