------------------------- MODULE StageJournalProofs -------------------------
(***************************************************************************)
(* Proofs about StageJournal, for every set of receives, every number of   *)
(* blocks, every limit of the journal and every bound.                     *)
(***************************************************************************)
EXTENDS StageJournal, FiniteSetTheorems, TLAPS

-----------------------------------------------------------------------------
(* The inductive invariant                                                 *)

(* What the writer and the clean-up of a receive say about its files and   *)
(* its row, when neither a crash nor the user came between.                *)
Publishes(s) == recv[s].writer \in {"publishing", "published", "removed", "done"}

WriterFits(s) ==
  /\ recv[s].writer \in {"new", "opening", "opened"} => recv[s].left = Blocks
  /\ recv[s].writer = "writing" => recv[s].left > 0
  /\ recv[s].writer = "dead" => recv[s].cleaner = "ended" /\ s \in touched
  /\ disk[s].file = Foreign => recv[s].writer = "dead"
  /\ recv[s].cleaner = "closing" => recv[s].writer \in {"writing", "written"}
  /\ recv[s].cleaner = "none" /\ recv[s].handle # "none" =>
       recv[s].writer \notin {"new", "opening", "opened"}
  /\ recv[s].cleaner = "none" /\ recv[s].handle = "none" =>
       recv[s].writer \in {"new", "opening", "opened", "failed"}
  /\ recv[s].cleaner = "none" /\ recv[s].writer \in {"writing", "written", "open"} =>
       recv[s].handle = "open"
  /\ Publishes(s) =>
       recv[s].handle = "closed" /\ recv[s].cleaner \notin {"creating", "created", "closing"}
  /\ recv[s].writer \in {"published", "removed", "done"} => disk[s].final = "whole"
  /\ recv[s].writer \in {"removed", "done"} => disk[s].file = Absent

RowFits(s) ==
  /\ row[s].id # Foreign
  /\ disk[s].file \in Own => row[s].kept \/ s \in forgotten
  /\ recv[s].writer = "opening" /\ s \notin forgotten =>
       /\ row[s].kept /\ row[s].id = Absent
       /\ \/ recv[s].cleaner = "none"
          \/ recv[s].failed /\ recv[s].cleaner \in {"unlinking", "unlinked", "ended"}
  /\ recv[s].writer = "opened" /\ s \notin forgotten =>
       /\ \/ recv[s].cleaner = "none" 
          \/ recv[s].failed /\ recv[s].cleaner \in {"unlinking", "unlinked", "ended"}
       /\ row[s].kept /\ row[s].id = Absent
  /\ recv[s].cleaner = "creating" /\ s \notin forgotten =>
       row[s].kept /\ row[s].id = Absent /\ recv[s].writer \in {"new", "failed"}

EndFits(s) ==
  s \notin touched =>
    /\ recv[s].writer = "done" => ~row[s].kept
    /\ recv[s].cleaner = "created" => recv[s].writer \in {"new", "failed"}
    /\ recv[s].cleaner \in {"unlinking", "unlinked", "ended"} /\ ~recv[s].failed =>
         recv[s].writer \notin {"opening", "opened"}
    /\ recv[s].cleaner \in {"unlinked", "ended"} /\ ~recv[s].failed => disk[s].file = Absent
    /\ recv[s].cleaner = "ended" /\ ~recv[s].failed => ~row[s].kept

(* removeVerified() goes on only with a row that names a file, and after   *)
(* its last look the path leads to a stage with no other name, until       *)
(* somebody overtakes it.                                                  *)
RemovalFits(s) ==
  /\ removing[s] # "no" => row[s].kept /\ row[s].id # Absent
  /\ removing[s] = "checked" => disk[s].file \in Own \cup {Absent} /\ ~disk[s].linked
  /\ removing[s] = "unlinked" => s \in touched

Kept == {s \in Stages : row[s].kept}

IInv ==
  /\ TypeOK
  /\ IsFiniteSet(Kept) /\ Cardinality(Kept) <= MaxRecords
  /\ \A s \in Stages : WriterFits(s) /\ RowFits(s) /\ EndFits(s) /\ RemovalFits(s)

-----------------------------------------------------------------------------
(* Steps                                                                   *)

(* A journal that loses rows stays within its limit.                       *)
LEMMA KeptShrinks ==
    ASSUME IInv, Kept' \subseteq Kept
    PROVE  IsFiniteSet(Kept') /\ Cardinality(Kept') <= MaxRecords
<1>1. IsFiniteSet(Kept') /\ Cardinality(Kept') <= Cardinality(Kept)
  BY FS_Subset DEF IInv
<1>2. Cardinality(Kept') \in Nat /\ Cardinality(Kept) \in Nat
  BY <1>1, FS_CardinalityType DEF IInv
<1> QED
  BY <1>1, <1>2, StageAssumption DEF IInv

(* So does one that prepare() did not refuse to make larger.               *)
LEMMA KeptGrows ==
    ASSUME IInv, NEW s \in Stages, ~PrepareRefused(s), Kept' = Kept \cup {s}
    PROVE  IsFiniteSet(Kept') /\ Cardinality(Kept') <= MaxRecords
<1>1. s \notin Kept /\ ~(Cardinality(Kept) >= MaxRecords)
  BY DEF PrepareRefused, Kept, Rows
<1>2. Cardinality(Kept) \in Nat
  BY FS_CardinalityType DEF IInv
<1>3. IsFiniteSet(Kept') /\ Cardinality(Kept') = Cardinality(Kept) + 1
  BY <1>1, FS_AddElement DEF IInv
<1> QED
  BY <1>1, <1>2, <1>3, StageAssumption

(* Frame: a step of one receive that keeps the types and fits every        *)
(* removal need only keep the journal's limit and what is said of that     *)
(* receive.                                                                *)
LEMMA OneReceive ==
    ASSUME IInv, TypeOK', NEW s \in Stages,
           IsFiniteSet(Kept') /\ Cardinality(Kept') <= MaxRecords,
           WriterFits(s)', RowFits(s)', EndFits(s)',
           \A t \in Stages : RemovalFits(t)',
           \A t \in Stages \ {s} :
             /\ disk'[t] = disk[t] /\ row'[t] = row[t] /\ recv'[t] = recv[t]
             /\ t \in touched' <=> t \in touched
             /\ t \in forgotten' <=> t \in forgotten
    PROVE  IInv'
<1>1. ASSUME NEW t \in Stages \ {s} PROVE WriterFits(t)'
  BY <1>1 DEF IInv, WriterFits, Publishes
<1>2. ASSUME NEW t \in Stages \ {s} PROVE RowFits(t)'
  BY <1>2 DEF IInv, RowFits
<1>3. ASSUME NEW t \in Stages \ {s} PROVE EndFits(t)'
  BY <1>3 DEF IInv, EndFits
<1> QED
  BY <1>1, <1>2, <1>3 DEF IInv

Phases == {"no", "found", "opened", "checked", "raced", "unlinked"}

(* A step keeps the types: no write is counted below zero.                 *)
LEMMA TypeStep ==
    ASSUME IInv, [Next]_vars
    PROVE  TypeOK'
<1> USE StageAssumption DEF User
<1>d. /\ TypeOK
      /\ \A s \in Stages : disk[s] \in Files /\ row[s] \in JournalRows /\ recv[s] \in Receives
  BY DEF IInv, TypeOK
<1>i. Absent \in 0 .. 3 /\ Created \in 0 .. 3 /\ Moved \in 0 .. 3 /\ Foreign \in 0 .. 3
  BY DEF Absent, Created, Moved, Foreign
<1>f. ASSUME NEW s \in Stages
      PROVE  /\ \A file \in 0 .. 3 : [disk EXCEPT ![s].file = file] \in [Stages -> Files]
             /\ \A file \in 0 .. 3, linked \in BOOLEAN :
                  [disk EXCEPT ![s].file = file, ![s].linked = linked] \in [Stages -> Files]
  <2>1. ASSUME NEW d \in Files
        PROVE  /\ \A file \in 0 .. 3 : [d EXCEPT !.file = file] \in Files
               /\ \A file \in 0 .. 3, linked \in BOOLEAN :
                    [d EXCEPT !.file = file, !.linked = linked] \in Files
    BY <2>1 DEF Files
  <2>2. \A d \in Files : [disk EXCEPT ![s] = d] \in [Stages -> Files]
    BY <1>d DEF TypeOK
  <2>3. disk[s] \in Files
    BY <1>d
  <2> QED
    BY <2>1, <2>2, <2>3
<1>g. ASSUME NEW s \in Stages
      PROVE  /\ [disk EXCEPT ![s].final = "foreign"] \in [Stages -> Files]
             /\ [disk EXCEPT ![s].final = "whole", ![s].linked = TRUE] \in [Stages -> Files]
             /\ [disk EXCEPT ![s].final = "whole", ![s].file = Absent] \in [Stages -> Files]
  <2>1. ASSUME NEW d \in Files
        PROVE  /\ [d EXCEPT !.final = "foreign"] \in Files
               /\ [d EXCEPT !.final = "whole", !.linked = TRUE] \in Files
               /\ [d EXCEPT !.final = "whole", !.file = Absent] \in Files
    BY <2>1, <1>i DEF Files
  <2>2. \A d \in Files : [disk EXCEPT ![s] = d] \in [Stages -> Files]
    BY <1>d DEF TypeOK
  <2>3. disk[s] \in Files
    BY <1>d
  <2> QED
    BY <2>1, <2>2, <2>3, ZenonT(60)
<1>h. ASSUME NEW s \in Stages
      PROVE  /\ [disk EXCEPT ![s].file = Created] \in [Stages -> Files]
             /\ [disk EXCEPT ![s].file = Moved] \in [Stages -> Files]
             /\ [disk EXCEPT ![s].file = Absent] \in [Stages -> Files]
  BY <1>f, <1>i
<1>k. disk \in [Stages -> Files]
  BY <1>d DEF TypeOK
<1>o. \A s \in Stages : Overtaken(s) => removing' \in [Stages -> Phases]
  BY <1>d DEF Overtaken, TypeOK, Phases
<1>p. Prepared \in JournalRows /\ NoRow \in JournalRows
  BY <1>i DEF Prepared, NoRow, JournalRows
<1>c. \A s \in Stages : ClearIfAbsent(s) => row' \in [Stages -> JournalRows]
  BY <1>d, <1>p DEF ClearIfAbsent, TypeOK
<1>s. \A s \in Stages : Seal(s) => row' \in [Stages -> JournalRows]
  <2>1. \A s \in Stages : [row[s] EXCEPT !.id = disk[s].file] \in JournalRows
    BY <1>d DEF JournalRows, Files
  <2> QED
    BY <2>1, <1>d DEF Seal, TypeOK
<1>w. ASSUME NEW s \in Stages, NEW from,
             NEW to \in {"new", "opening", "opened", "open", "writing", "written", "publishing",
                         "published", "removed", "done", "failed", "stopped", "dead"},
             Writer(s, from, to)
      PROVE  recv' \in [Stages -> Receives]
  BY <1>w, <1>d DEF Writer, TypeOK, Receives
<1>1. ASSUME NEW s \in Stages, Prepare(s) PROVE TypeOK'
  <2>1. recv' \in [Stages -> Receives]
    BY <1>1, <1>w DEF Prepare
  <2>2. row' \in [Stages -> JournalRows]
    BY <1>1, <1>d, <1>p DEF Prepare, TypeOK
  <2> QED
    BY <1>1, <1>d, <2>1, <2>2 DEF Prepare, TypeOK
<1>2. ASSUME NEW s \in Stages, OpenLands(s) PROVE TypeOK'
  <2>1. recv' \in [Stages -> Receives]
    BY <1>2, <1>w DEF OpenLands
  <2>2. disk' \in [Stages -> Files]
    <3>1. disk' = disk \/ disk' = [disk EXCEPT ![s].file = Created]
      BY <1>2 DEF OpenLands
    <3>2. [disk EXCEPT ![s].file = Created] \in [Stages -> Files]
      BY <1>h
    <3> QED
      BY <3>1, <3>2, <1>k
  <2> QED
    BY <1>2, <1>d, <1>c, <2>1, <2>2 DEF OpenLands, TypeOK
<1>3. ASSUME NEW s \in Stages, Opened(s) PROVE TypeOK'
  <2>1. recv' \in [Stages -> Receives]
    BY <1>3, <1>d DEF Opened, TypeOK, Receives
  <2> QED
    BY <1>3, <1>d, <1>c, <1>s, <2>1 DEF Opened, TypeOK
<1>4. ASSUME NEW s \in Stages, NextWrite(s) PROVE TypeOK'
  BY <1>4, <1>d, <1>w DEF NextWrite, TypeOK
<1>5. ASSUME NEW s \in Stages, WriteLands(s) PROVE TypeOK'
  <2>1. recv[s].left - 1 \in 0 .. Blocks
    BY <1>5, <1>d DEF WriteLands, IInv, WriterFits, Receives
  <2>2. [recv[s] EXCEPT !.writer = "written", !.left = @ - 1] \in Receives
    BY <2>1, <1>d DEF Receives
  <2>3. recv' \in [Stages -> Receives]
    <3>1. CASE recv' = [recv EXCEPT ![s].writer = "written", ![s].left = @ - 1]
      BY <3>1, <2>2, <1>d DEF TypeOK
    <3>2. CASE Writer(s, "writing", "failed")
      BY <3>2, <1>w
    <3> QED
      BY <3>1, <3>2, <1>5 DEF WriteLands
  <2>4. disk' \in [Stages -> Files]
    <3>1. disk' = disk \/ disk' = [disk EXCEPT ![s].file = Moved]
      BY <1>5 DEF WriteLands
    <3>2. [disk EXCEPT ![s].file = Moved] \in [Stages -> Files]
      BY <1>h
    <3> QED
      BY <3>1, <3>2, <1>k
  <2> QED
    BY <1>5, <1>d, <2>3, <2>4 DEF WriteLands, TypeOK
<1>6. ASSUME NEW s \in Stages, Written(s) PROVE TypeOK'
  <2>1. [recv[s] EXCEPT !.writer = "stopped", !.handle = "closed", !.cleaner = "unlinking"]
          \in Receives
    BY <1>d DEF Receives
  <2>2. recv' \in [Stages -> Receives]
    <3>1. CASE recv[s].cleaner = "closing"
      BY <3>1, <2>1, <1>6, <1>d DEF Written, TypeOK
    <3>2. CASE recv[s].cleaner # "closing"
      BY <3>2, <1>6, <1>w DEF Written
    <3> QED
      BY <3>1, <3>2
  <2> QED
    BY <1>6, <1>d, <1>s, <2>2 DEF Written, TypeOK
<1>7. ASSUME NEW s \in Stages, Commit(s) PROVE TypeOK'
  <2>1. recv' \in [Stages -> Receives]
    <3>1. [recv[s] EXCEPT !.writer = IF recv[s].left > 0 THEN "failed" ELSE "publishing",
                          !.handle = IF recv[s].left > 0 THEN @ ELSE "closed"] \in Receives
      BY <1>d DEF Receives
    <3> QED
      BY <3>1, <1>7, <1>d DEF Commit, TypeOK
  <2> QED
    BY <1>7, <1>d, <2>1 DEF Commit, TypeOK
<1>8. ASSUME NEW s \in Stages, PublishLands(s) PROVE TypeOK'
  <2>1. recv' \in [Stages -> Receives]
    BY <1>8, <1>w DEF PublishLands
  <2>3. disk' \in [Stages -> Files]
    <3>1. \/ disk' = disk
          \/ disk' = [disk EXCEPT ![s].final = "whole", ![s].linked = TRUE]
          \/ disk' = [disk EXCEPT ![s].final = "whole", ![s].file = Absent]
      BY <1>8 DEF PublishLands
    <3> QED
      BY <3>1, <1>g, <1>h, <1>k, ZenonT(60)
  <2> QED
    BY <1>8, <1>d, <1>o, <2>1, <2>3 DEF PublishLands, TypeOK, Phases
<1>u. ASSUME NEW s \in Stages, Unlink(s) PROVE disk' \in [Stages -> Files]
  BY <1>u, <1>i, <1>f DEF Unlink
<1>9. ASSUME NEW s \in Stages, RemoveLands(s) PROVE TypeOK'
  <2>1. recv' \in [Stages -> Receives]
    BY <1>9, <1>w DEF RemoveLands
  <2> QED
    BY <1>9, <1>d, <1>u, <2>1 DEF RemoveLands, TypeOK
<1>10. ASSUME NEW s \in Stages, Committed(s) PROVE TypeOK'
  BY <1>10, <1>d, <1>c, <1>w DEF Committed, TypeOK
<1>11. ASSUME NEW s \in Stages, Cleanup(s) PROVE TypeOK'
  <2>1. /\ [recv[s] EXCEPT !.cleaner = "closing"] \in Receives
        /\ [recv[s] EXCEPT !.cleaner = "unlinking", !.handle = "closed"] \in Receives
        /\ [recv[s] EXCEPT !.cleaner = "unlinking", !.failed = TRUE] \in Receives
        /\ [recv[s] EXCEPT !.cleaner = "creating"] \in Receives
    BY <1>d DEF Receives
  <2>2. recv' \in [Stages -> Receives] /\ row' \in [Stages -> JournalRows]
    BY <1>11, <1>d, <1>p, <2>1 DEF Cleanup, CloseStarts, TypeOK
  <2> QED
    BY <1>11, <1>d, <2>2 DEF Cleanup, TypeOK
<1>12. ASSUME NEW s \in Stages, CreateLands(s) PROVE TypeOK'
  <2>1. recv' \in [Stages -> Receives]
    BY <1>12, <1>d, SMTT(30) DEF CreateLands, TypeOK, Receives
  <2>2. disk' \in [Stages -> Files]
    <3>1. disk' = disk \/ disk' = [disk EXCEPT ![s].file = Created]
      BY <1>12 DEF CreateLands
    <3>2. [disk EXCEPT ![s].file = Created] \in [Stages -> Files]
      BY <1>h
    <3> QED
      BY <3>1, <3>2, <1>k
  <2> QED
    BY <1>12, <1>d, <1>c, <2>1, <2>2 DEF CreateLands, TypeOK
<1>13. ASSUME NEW s \in Stages, CreatedCloses(s) PROVE TypeOK'
  <2>1. [recv[s] EXCEPT !.cleaner = "unlinking", !.failed = @ \/ SealFails(s),
                        !.handle = IF SealFails(s) THEN "open" ELSE "closed"] \in Receives
    <3>1. SealFails(s) \in BOOLEAN
      BY <1>d DEF SealFails, Files, JournalRows
    <3>2. ASSUME NEW fails \in BOOLEAN
          PROVE  [recv[s] EXCEPT !.cleaner = "unlinking", !.failed = @ \/ fails,
                                 !.handle = IF fails THEN "open" ELSE "closed"] \in Receives
      BY <3>2, <1>d, ZenonT(60) DEF Receives
    <3> QED
      BY <3>1, <3>2
  <2> QED
    BY <1>13, <1>d, <1>c, <1>s, <2>1 DEF CreatedCloses, TypeOK
<1>14. ASSUME NEW s \in Stages, CleanupRemoves(s) PROVE TypeOK'
  <2>1. recv' \in [Stages -> Receives]
    BY <1>14, <1>d, SMTT(30) DEF CleanupRemoves, TypeOK, Receives
  <2> QED
    BY <1>14, <1>d, <1>u, <2>1 DEF CleanupRemoves, TypeOK
<1>15. ASSUME NEW s \in Stages, CleanupEnds(s) PROVE TypeOK'
  <2>1. recv' \in [Stages -> Receives]
    BY <1>15, <1>d DEF CleanupEnds, TypeOK, Receives
  <2> QED
    BY <1>15, <1>d, <1>c, <2>1 DEF CleanupEnds, TypeOK
<1>16. ASSUME NEW s \in Stages, Meddle(s) PROVE TypeOK'
  <2>1. disk[s].file \in 0 .. 3
    BY <1>d DEF Files
  <2>2. disk' \in [Stages -> Files]
    <3>1. PICK file \in {Absent, disk[s].file, Foreign}, linked \in BOOLEAN :
            disk' = [disk EXCEPT ![s].file = file, ![s].linked = linked]
      BY <1>16 DEF Meddle
    <3>2. file \in 0 .. 3
      BY <2>1, <1>i
    <3> QED
      BY <3>1, <3>2, <1>f
  <2> QED
    BY <1>16, <1>d, <1>o, <2>2 DEF Meddle, TypeOK, Phases
<1>17. ASSUME NEW s \in Stages, NameTaken(s) PROVE TypeOK'
  <2>1. disk' \in [Stages -> Files]
    BY <1>17, <1>g DEF NameTaken
  <2> QED
    BY <1>17, <1>d, <2>1 DEF NameTaken, TypeOK
<1>18. ASSUME NEW s \in Stages, RemoveStarts(s) \/ Removal(s) PROVE TypeOK'
  <2>1. disk' \in [Stages -> Files]
    BY <1>18, <1>k, <1>u
       DEF RemoveStarts, Removal, RemoveOpens, RemoveChecks, RemoveUnlinks, RemoveEnds, RemoveThrows
  <2>2. row' \in [Stages -> JournalRows]
    BY <1>18, <1>c, <1>d
       DEF RemoveStarts, Removal, RemoveOpens, RemoveChecks, RemoveUnlinks, RemoveEnds, RemoveThrows,
           TypeOK
  <2>3. touched' \subseteq Stages /\ forgotten' \subseteq touched'
    BY <1>18, <1>d
       DEF RemoveStarts, Removal, RemoveOpens, RemoveChecks, RemoveUnlinks, RemoveEnds, RemoveThrows,
           TypeOK
  <2>4. PICK to \in Phases : removing' = [removing EXCEPT ![s] = to]
    BY <1>18
       DEF RemoveStarts, Removal, RemoveOpens, RemoveChecks, RemoveUnlinks, RemoveEnds, RemoveThrows,
           RemovalGoes, Phases
  <2>5. removing' \in [Stages -> Phases] /\ recv' = recv /\ crashes' = crashes
    BY <1>18, <1>d, <2>4
       DEF RemoveStarts, Removal, RemoveOpens, RemoveChecks, RemoveUnlinks, RemoveEnds, RemoveThrows,
           TypeOK, Phases
  <2> QED
    BY <1>d, <2>1, <2>2, <2>3, <2>5 DEF TypeOK, Phases
<1>19. ASSUME NEW s \in Stages, Forget(s) PROVE TypeOK'
  BY <1>19, <1>d, <1>p DEF Forget, TypeOK
<1>20. ASSUME NEW s \in Stages, Expire(s) PROVE TypeOK'
  BY <1>20, <1>d DEF Expire, TypeOK, JournalRows
<1>21. CASE Crash
  <2>1. recv' \in [Stages -> Receives]
    <3>0. Fresh \in Receives
      BY DEF Fresh, Receives
    <3>1. [Fresh EXCEPT !.writer = "dead", !.cleaner = "ended"] \in Receives
      BY <3>0 DEF Receives
    <3> QED
      BY <3>1, <1>21, <1>d DEF Crash, TypeOK
  <2>2. touched' \subseteq Stages /\ forgotten' \subseteq touched'
    BY <1>21, <1>d DEF Crash, TypeOK
  <2>3. crashes' \in 0 .. MaxCrashes
    <3>1. crashes' = crashes + 1 /\ crashes < MaxCrashes
      BY <1>21 DEF Crash
    <3> QED
      BY <3>1, <1>d DEF TypeOK
  <2> QED
    BY <1>21, <1>d, <2>1, <2>2, <2>3 DEF Crash, TypeOK
<1>22. CASE UNCHANGED vars
  BY <1>22, <1>d DEF vars, TypeOK
<1> QED
  BY <1>1, <1>2, <1>3, <1>4, <1>5, <1>6, <1>7, <1>8, <1>9, <1>10, <1>11, <1>12, <1>13, <1>14,
     <1>15, <1>16, <1>17, <1>18, <1>19, <1>20, <1>21, <1>22 DEF Next, Goes, Lands

(* Every step leaves each removal fitting: the thread goes on only when     *)
(* there is none, and whoever changes the path after the last look         *)
(* overtakes it.                                                           *)
LEMMA RemovalStep ==
    ASSUME IInv, TypeOK', [Next]_vars, NEW s \in Stages
    PROVE  RemovalFits(s)'
<1> USE DEF User
<1>f. /\ disk \in [Stages -> Files] /\ row \in [Stages -> JournalRows]
      /\ removing \in [Stages -> Phases] /\ RemovalFits(s) /\ RowFits(s)
  BY DEF IInv, TypeOK, Phases
<1>d. disk[s] \in Files /\ row[s] \in JournalRows
  BY <1>f
<1>v. Absent = 0 /\ Created = 1 /\ Moved = 2 /\ Foreign = 3 /\ Own = {1, 2}
  BY DEF Absent, Created, Moved, Foreign, Own
<1>n. ASSUME removing'[s] = "no" PROVE RemovalFits(s)'
  BY <1>n DEF RemovalFits
<1>1. ASSUME NEW t \in Stages, Free, Goes(t) PROVE RemovalFits(s)'
  <2>1. CASE RemoveStarts(t)
    <3>1. /\ row' = row /\ disk' = disk
          /\ removing'[s] = "no" \/ (t = s /\ removing'[s] = "found")
      BY <1>1, <1>f, <2>1 DEF RemoveStarts, RemovalGoes, Free
    <3>2. t = s => row[s].kept /\ row[s].id # Absent
      BY <2>1 DEF RemoveStarts, SameFile
    <3> QED
      BY <3>1, <3>2 DEF RemovalFits
  <2>2. CASE ~RemoveStarts(t)
    <3>1. removing' = removing
      BY <1>1, <2>2 DEF Goes, Prepare, Opened, NextWrite, Written, Commit, Committed, Cleanup,
                        CreatedCloses, CleanupEnds, Forget
    <3> QED
      BY <1>1, <1>n, <3>1 DEF Free
  <2> QED
    BY <2>1, <2>2
<1>2. ASSUME removing'[s] \in {removing[s], "raced"}, row'[s] = row[s], touched \subseteq touched',
             removing[s] = "raced" \/ removing'[s] = "raced" => removing[s] \in {"checked", "raced"},
             removing'[s] = "checked" =>
               disk'[s].file \in Own \cup {Absent} /\ ~disk'[s].linked
      PROVE  RemovalFits(s)'
  BY <1>2, <1>f DEF RemovalFits
<1>3. ASSUME NEW t \in Stages, Lands(t) PROVE RemovalFits(s)'
  <2>1. CASE Free /\ removing' = removing
    BY <1>n, <2>1 DEF Free
  <2>2. CASE PublishLands(t)
    <3>1. row' = row /\ touched' = touched /\ (t # s => disk'[s] = disk[s])
      BY <1>f, <2>2 DEF PublishLands
    <3>2. removing'[s] = IF t = s /\ removing[s] = "checked" THEN "raced" ELSE removing[s]
      BY <1>f, <2>2 DEF PublishLands, Overtaken
    <3> QED
      BY <1>2, <1>f, <3>1, <3>2 DEF RemovalFits
  <2>3. CASE ~Free /\ ~PublishLands(t)
    <3>1. row' = row /\ touched' = touched /\ removing' = removing
      BY <1>3, <2>3 DEF Lands, OpenLands, WriteLands, RemoveLands, CreateLands, CleanupRemoves
    <3>2. \/ disk' = disk \/ Unlink(t)
          \/ disk' = [disk EXCEPT ![t].file = Created] \/ disk' = [disk EXCEPT ![t].file = Moved]
      BY <1>3, <2>3 DEF Lands, OpenLands, WriteLands, RemoveLands, CreateLands, CleanupRemoves
    <3>3. \/ disk'[s] = disk[s]
          \/ disk'[s].file \in Own \cup {Absent} /\ (disk'[s].linked => disk[s].linked)
      BY <1>f, <1>d, <1>v, <3>2 DEF Unlink, Files
    <3> QED
      BY <1>2, <1>f, <3>1, <3>3 DEF RemovalFits
  <2>4. CASE Free /\ ~PublishLands(t)
    <3>1. removing' = removing
      BY <1>3, <2>4 DEF Lands, OpenLands, WriteLands, RemoveLands, CreateLands, CleanupRemoves
    <3> QED
      BY <2>1, <2>4, <3>1
  <2> QED
    BY <2>2, <2>3, <2>4
<1>4. ASSUME NEW t \in Stages, Removal(t) PROVE RemovalFits(s)'
  <2>1. CASE RemoveOpens(t)
    BY <1>f, <2>1 DEF RemoveOpens, RemovalGoes, RemovalFits
  <2>2. CASE RemoveChecks(t)
    <3>1. t = s => disk[s].file \in Own /\ ~disk[s].linked
      BY <1>f, <1>d, <1>v, <2>2 DEF RemoveChecks, SameFile, RowFits, Files
    <3> QED
      BY <1>f, <2>2, <3>1 DEF RemoveChecks, RemovalGoes, RemovalFits
  <2>3. CASE RemoveUnlinks(t)
    <3>1. /\ row' = row /\ touched' = touched \cup {t} /\ (t # s => disk'[s] = disk[s])
          /\ removing[t] # "no"
          /\ removing'[s] = IF t = s THEN "unlinked" ELSE removing[s]
      BY <1>f, <2>3 DEF RemoveUnlinks, RemovalGoes, Unlink
    <3> QED
      BY <1>f, <3>1 DEF RemovalFits
  <2>4. CASE RemoveEnds(t)
    <3>1. /\ disk' = disk /\ touched' = touched /\ (t # s => row'[s] = row[s])
          /\ removing'[s] = IF t = s THEN "no" ELSE removing[s]
      BY <1>f, <2>4 DEF RemoveEnds, RemovalGoes, ClearIfAbsent
    <3> QED
      BY <1>f, <1>n, <3>1 DEF RemovalFits
  <2>5. CASE RemoveThrows(t)
    <3>1. /\ disk' = disk /\ touched' = touched /\ row' = row
          /\ removing'[s] = IF t = s THEN "no" ELSE removing[s]
      BY <1>f, <2>5 DEF RemoveThrows, RemovalGoes
    <3> QED
      BY <1>f, <1>n, <3>1 DEF RemovalFits
  <2> QED
    BY <1>4, <2>1, <2>2, <2>3, <2>4, <2>5 DEF Removal
<1>5. ASSUME NEW t \in Stages, Meddle(t) PROVE RemovalFits(s)'
  <2>1. row' = row /\ touched' = touched /\ (t # s => disk'[s] = disk[s])
    BY <1>f, <1>5 DEF Meddle
  <2>2. removing'[s] = IF t = s /\ removing[s] = "checked" THEN "raced" ELSE removing[s]
    BY <1>f, <1>5 DEF Meddle, Overtaken
  <2> QED
    BY <1>2, <1>f, <2>1, <2>2 DEF RemovalFits
<1>6. ASSUME NEW t \in Stages, NameTaken(t) \/ Expire(t) PROVE RemovalFits(s)'
  <2>1. /\ removing' = removing /\ touched' = touched
        /\ disk'[s].file = disk[s].file /\ disk'[s].linked = disk[s].linked
        /\ (row'[s].kept <=> row[s].kept) /\ row'[s].id = row[s].id
    BY <1>6, <1>f, <1>d DEF NameTaken, Expire, Files, JournalRows
  <2> QED
    BY <1>f, <2>1 DEF RemovalFits
<1>7. CASE Crash
  BY <1>7, <1>n DEF Crash
<1>8. CASE UNCHANGED vars
  BY <1>8, <1>f DEF vars, RemovalFits
<1> QED
  BY <1>1, <1>3, <1>4, <1>5, <1>6, <1>7, <1>8 DEF Next

-----------------------------------------------------------------------------
(* What the pieces that the actions share do to the receive they concern.  *)

(* Only the writer of the receive moves.                                   *)
LEMMA WriterMoves ==
    ASSUME IInv, NEW s \in Stages, NEW from, NEW to, Writer(s, from, to)
    PROVE  /\ recv[s].writer = from /\ recv'[s].writer = to
           /\ recv'[s].cleaner = recv[s].cleaner /\ recv'[s].handle = recv[s].handle
           /\ recv'[s].left = recv[s].left /\ recv'[s].failed = recv[s].failed
           /\ \A t \in Stages \ {s} : recv'[t] = recv[t]
  BY DEF IInv, TypeOK, Receives, Writer

(* clearIfAbsent() drops the row of a receive whose stage is gone.         *)
LEMMA ClearMoves ==
    ASSUME IInv, NEW s \in Stages, ClearIfAbsent(s)
    PROVE  /\ disk[s].file = Absent => ~row'[s].kept /\ row'[s].id = Absent
           /\ disk[s].file # Absent => row'[s] = row[s]
           /\ \A t \in Stages \ {s} : row'[t] = row[t]
           /\ Kept' \subseteq Kept
  BY DEF IInv, TypeOK, JournalRows, ClearIfAbsent, NoRow, Kept

(* seal() records the identity of the file it finds at the stage.          *)
LEMMA SealMoves ==
    ASSUME IInv, NEW s \in Stages, Seal(s), ~SealFails(s)
    PROVE  /\ row'[s].kept /\ row'[s].id = disk[s].file /\ row[s].kept
           /\ disk[s].file # Absent /\ ~disk[s].linked
           /\ \A t \in Stages \ {s} : row'[t] = row[t]
           /\ Kept' \subseteq Kept
  BY DEF IInv, TypeOK, JournalRows, Files, Seal, SealFails, Kept

(* prepare() adds a row without an identity.                               *)
LEMMA PreparedMoves ==
    ASSUME IInv, NEW s \in Stages, row' = [row EXCEPT ![s] = Prepared]
    PROVE  /\ row'[s].kept /\ row'[s].id = Absent
           /\ \A t \in Stages \ {s} : row'[t] = row[t]
           /\ Kept' = Kept \cup {s}
  BY DEF IInv, TypeOK, JournalRows, Prepared, Kept

(* An unlink takes the stage and leaves the final file.                    *)
LEMMA UnlinkMoves ==
    ASSUME IInv, NEW s \in Stages, Unlink(s)
    PROVE  /\ disk'[s].file = Absent /\ disk'[s].linked = FALSE
           /\ disk'[s].final = disk[s].final
           /\ \A t \in Stages \ {s} : disk'[t] = disk[t]
  BY DEF IInv, TypeOK, Files, Unlink

(* Each step of a writer keeps the inductive invariant.                     *)
LEMMA WriterStep ==
    ASSUME IInv, TypeOK', \A t \in Stages : RemovalFits(t)', NEW s \in Stages,
           \/ Prepare(s) \/ OpenLands(s) \/ Opened(s) \/ NextWrite(s) \/ WriteLands(s)
           \/ Written(s) \/ Commit(s) \/ PublishLands(s) \/ RemoveLands(s)
           \/ Committed(s)
    PROVE  IInv'
<1> USE DEF User
<1> DEFINE Others == \A t \in Stages \ {s} :
                       /\ disk'[t] = disk[t] /\ row'[t] = row[t] /\ recv'[t] = recv[t]
                       /\ t \in touched' <=> t \in touched
                       /\ t \in forgotten' <=> t \in forgotten
<1> DEFINE Limit == IsFiniteSet(Kept') /\ Cardinality(Kept') <= MaxRecords
<1>f. /\ recv \in [Stages -> Receives] /\ disk \in [Stages -> Files]
      /\ row \in [Stages -> JournalRows]
  BY DEF IInv, TypeOK
<1>d. /\ disk[s] \in Files /\ row[s] \in JournalRows /\ recv[s] \in Receives
      /\ WriterFits(s) /\ RowFits(s) /\ EndFits(s)
  BY <1>f DEF IInv
<1>v. /\ Absent = 0 /\ Created = 1 /\ Moved = 2 /\ Foreign = 3 /\ Own = {1, 2}
      /\ (s \in forgotten => s \in touched)
  BY DEF Absent, Created, Moved, Foreign, Own, IInv, TypeOK
<1>s. row' = row => Limit
  BY KeptShrinks DEF Kept
<1>q. ASSUME Others, Limit, WriterFits(s)', RowFits(s)', EndFits(s)'
      PROVE  IInv'
  BY <1>q, OneReceive
<1>1. CASE Prepare(s)
  <2>1. CASE PrepareRefused(s)
    <3>1. /\ recv[s].writer = "new" /\ recv'[s].writer = "failed"
          /\ recv'[s].cleaner = recv[s].cleaner /\ recv'[s].handle = recv[s].handle
          /\ recv'[s].left = recv[s].left /\ recv'[s].failed = recv[s].failed
          /\ disk'[s] = disk[s]
          /\ row'[s] = row[s]
          /\ touched' = touched /\ forgotten' = forgotten
      BY <1>1, <2>1, WriterMoves DEF Prepare
    <3>2. Others /\ Limit
      BY <1>1, <2>1, <1>s, WriterMoves DEF Prepare
    <3>3. WriterFits(s)'
      BY <3>1, <1>d, <1>v DEF WriterFits, Publishes
    <3>4. RowFits(s)'
      BY <3>1, <1>d, <1>v DEF RowFits
    <3>5. EndFits(s)'
      BY <3>1, <1>d, <1>v DEF EndFits
    <3> QED
      BY <1>q, <3>2, <3>3, <3>4, <3>5
  <2>2. CASE ~PrepareRefused(s)
    <3>1. /\ recv[s].writer = "new" /\ recv'[s].writer = "opening"
          /\ recv'[s].cleaner = recv[s].cleaner /\ recv'[s].handle = recv[s].handle
          /\ recv'[s].left = recv[s].left /\ recv'[s].failed = recv[s].failed
          /\ recv[s].cleaner = "none"
          /\ disk'[s] = disk[s]
          /\ row'[s].kept /\ row'[s].id = Absent
          /\ touched' = touched /\ forgotten' = forgotten
      BY <1>1, <2>2, WriterMoves, PreparedMoves DEF Prepare, Going
    <3>2. Others /\ Limit
      BY <1>1, <2>2, WriterMoves, PreparedMoves, KeptGrows DEF Prepare
    <3>3. WriterFits(s)'
      BY <3>1, <1>d, <1>v DEF WriterFits, Publishes
    <3>4. RowFits(s)'
      BY <3>1, <1>d, <1>v DEF RowFits
    <3>5. EndFits(s)'
      BY <3>1, <1>d, <1>v DEF EndFits
    <3> QED
      BY <1>q, <3>2, <3>3, <3>4, <3>5
  <2> QED
    BY <1>1, <2>1, <2>2
<1>2. CASE OpenLands(s)
  <2>1. CASE disk[s].file = Absent /\ Writer(s, "opening", "opened") /\ UNCHANGED row
             /\ disk' = [disk EXCEPT ![s].file = Created]
    <3>1. /\ recv[s].writer = "opening" /\ recv'[s].writer = "opened"
          /\ recv'[s].cleaner = recv[s].cleaner /\ recv'[s].handle = recv[s].handle
          /\ recv'[s].left = recv[s].left /\ recv'[s].failed = recv[s].failed
          /\ disk[s].file = Absent
          /\ disk'[s].file = Created /\ disk'[s].final = disk[s].final
          /\ row'[s] = row[s]
          /\ touched' = touched /\ forgotten' = forgotten
      BY <1>2, <2>1, <1>f, <1>d, WriterMoves DEF OpenLands, Files
    <3>2. Others /\ Limit
      BY <1>2, <2>1, <1>f, <1>s, WriterMoves DEF OpenLands
    <3>3. WriterFits(s)'
      BY <3>1, <1>d, <1>v DEF WriterFits, Publishes
    <3>4. RowFits(s)'
      BY <3>1, <1>d, <1>v DEF RowFits
    <3>5. EndFits(s)'
      BY <3>1, <1>d, <1>v DEF EndFits
    <3> QED
      BY <1>q, <3>2, <3>3, <3>4, <3>5
  <2>2. CASE Writer(s, "opening", "failed") /\ ClearIfAbsent(s) /\ UNCHANGED disk
    <3>1. /\ recv[s].writer = "opening" /\ recv'[s].writer = "failed"
          /\ recv'[s].cleaner = recv[s].cleaner /\ recv'[s].handle = recv[s].handle
          /\ recv'[s].left = recv[s].left /\ recv'[s].failed = recv[s].failed
          /\ disk'[s] = disk[s]
          /\ disk[s].file = Absent => ~row'[s].kept /\ row'[s].id = Absent
          /\ disk[s].file # Absent => (row'[s].kept <=> row[s].kept) /\ row'[s].id = row[s].id
          /\ touched' = touched /\ forgotten' = forgotten
      BY <1>2, <2>2, WriterMoves, ClearMoves DEF OpenLands
    <3>2. Others /\ Limit
      BY <1>2, <2>2, WriterMoves, ClearMoves, KeptShrinks DEF OpenLands
    <3>3. WriterFits(s)'
      BY <3>1, <1>d, <1>v DEF WriterFits, Publishes
    <3>4. RowFits(s)'
      BY <3>1, <1>d, <1>v DEF RowFits
    <3>5. EndFits(s)'
      BY <3>1, <1>d, <1>v DEF EndFits
    <3> QED
      BY <1>q, <3>2, <3>3, <3>4, <3>5
  <2> QED
    BY <1>2, <2>1, <2>2 DEF OpenLands
<1>3. CASE Opened(s)
  <2>1. CASE SealFails(s)
    <3>1. /\ recv[s].writer = "opened" /\ recv'[s].writer = "failed"
          /\ recv'[s].cleaner = recv[s].cleaner /\ recv'[s].handle = "open"
          /\ recv'[s].left = recv[s].left /\ recv'[s].failed = recv[s].failed
          /\ disk'[s] = disk[s]
          /\ disk[s].file = Absent => ~row'[s].kept /\ row'[s].id = Absent
          /\ disk[s].file # Absent => (row'[s].kept <=> row[s].kept) /\ row'[s].id = row[s].id
          /\ touched' = touched /\ forgotten' = forgotten
      BY <1>3, <2>1, <1>f, <1>d, ClearMoves DEF Opened, Receives
    <3>2. Others /\ Limit
      BY <1>3, <2>1, <1>f, ClearMoves, KeptShrinks DEF Opened
    <3>3. WriterFits(s)'
      BY <3>1, <1>d, <1>v DEF WriterFits, Publishes
    <3>4. RowFits(s)'
      BY <3>1, <1>d, <1>v DEF RowFits
    <3>5. EndFits(s)'
      BY <3>1, <1>d, <1>v DEF EndFits
    <3> QED
      BY <1>q, <3>2, <3>3, <3>4, <3>5
  <2>2. CASE ~SealFails(s)
    <3>1. /\ recv[s].writer = "opened" /\ recv'[s].writer = "writing"
          /\ recv'[s].cleaner = recv[s].cleaner /\ recv'[s].handle = "open"
          /\ recv'[s].left = recv[s].left /\ recv'[s].failed = recv[s].failed
          /\ Blocks > 0
          /\ disk'[s] = disk[s]
          /\ row'[s].kept /\ row'[s].id = disk[s].file /\ row[s].kept
          /\ disk[s].file # Absent /\ disk[s].file # Foreign
          /\ touched' = touched /\ forgotten' = forgotten
      BY <1>3, <2>2, <1>f, <1>d, SealMoves, StageAssumption DEF Opened, Receives, WriterFits
    <3>2. Others /\ Limit
      BY <1>3, <2>2, <1>f, SealMoves, KeptShrinks DEF Opened
    <3>3. WriterFits(s)'
      BY <3>1, <1>d, <1>v DEF WriterFits, Publishes
    <3>4. RowFits(s)'
      BY <3>1, <1>d, <1>v DEF RowFits
    <3>5. EndFits(s)'
      BY <3>1, <1>d, <1>v DEF EndFits
    <3> QED
      BY <1>q, <3>2, <3>3, <3>4, <3>5
  <2> QED
    BY <1>3, <2>1, <2>2
<1>4. CASE NextWrite(s)
  <2>1. /\ recv[s].writer = "open" /\ recv'[s].writer = "writing"
        /\ recv'[s].cleaner = recv[s].cleaner /\ recv'[s].handle = recv[s].handle
        /\ recv'[s].left = recv[s].left /\ recv'[s].failed = recv[s].failed
        /\ recv[s].cleaner = "none" /\ recv[s].left > 0
        /\ disk'[s] = disk[s]
        /\ row'[s] = row[s]
        /\ touched' = touched /\ forgotten' = forgotten
    BY <1>4, WriterMoves DEF NextWrite, Going
  <2>2. Others /\ Limit
    BY <1>4, <1>s, WriterMoves DEF NextWrite
  <2>3. WriterFits(s)'
    BY <2>1, <1>d, <1>v DEF WriterFits, Publishes
  <2>4. RowFits(s)'
    BY <2>1, <1>d, <1>v DEF RowFits
  <2>5. EndFits(s)'
    BY <2>1, <1>d, <1>v DEF EndFits
  <2> QED
    BY <1>q, <2>2, <2>3, <2>4, <2>5
<1>5. CASE WriteLands(s)
  <2>1. CASE recv' = [recv EXCEPT ![s].writer = "written", ![s].left = @ - 1] /\ disk' = disk
    <3>1. /\ recv[s].writer = "writing" /\ recv'[s].writer = "written"
          /\ recv'[s].cleaner = recv[s].cleaner /\ recv'[s].handle = recv[s].handle
          /\ recv'[s].failed = recv[s].failed
          /\ disk'[s] = disk[s]
          /\ row'[s] = row[s]
          /\ touched' = touched /\ forgotten' = forgotten
      BY <1>5, <2>1, <1>f, <1>d DEF WriteLands, Receives
    <3>2. Others /\ Limit
      BY <1>5, <2>1, <1>f, <1>s DEF WriteLands
    <3>3. WriterFits(s)'
      BY <3>1, <1>d, <1>v DEF WriterFits, Publishes
    <3>4. RowFits(s)'
      BY <3>1, <1>d, <1>v DEF RowFits
    <3>5. EndFits(s)'
      BY <3>1, <1>d, <1>v DEF EndFits
    <3> QED
      BY <1>q, <3>2, <3>3, <3>4, <3>5
  <2>2. CASE recv' = [recv EXCEPT ![s].writer = "written", ![s].left = @ - 1]
             /\ disk[s].file = Created /\ disk' = [disk EXCEPT ![s].file = Moved]
    <3>1. /\ recv[s].writer = "writing" /\ recv'[s].writer = "written"
          /\ recv'[s].cleaner = recv[s].cleaner /\ recv'[s].handle = recv[s].handle
          /\ recv'[s].failed = recv[s].failed
          /\ disk[s].file = Created
          /\ disk'[s].file = Moved /\ disk'[s].final = disk[s].final
          /\ row'[s] = row[s]
          /\ touched' = touched /\ forgotten' = forgotten
      BY <1>5, <2>2, <1>f, <1>d DEF WriteLands, Receives, Files
    <3>2. Others /\ Limit
      BY <1>5, <2>2, <1>f, <1>s DEF WriteLands
    <3>3. WriterFits(s)'
      BY <3>1, <1>d, <1>v DEF WriterFits, Publishes
    <3>4. RowFits(s)'
      BY <3>1, <1>d, <1>v DEF RowFits
    <3>5. EndFits(s)'
      BY <3>1, <1>d, <1>v DEF EndFits
    <3> QED
      BY <1>q, <3>2, <3>3, <3>4, <3>5
  <2>3. CASE recv[s].cleaner # "closing" /\ Writer(s, "writing", "failed") /\ UNCHANGED disk
    <3>1. /\ recv[s].writer = "writing" /\ recv'[s].writer = "failed"
          /\ recv'[s].cleaner = recv[s].cleaner /\ recv'[s].handle = recv[s].handle
          /\ recv'[s].left = recv[s].left /\ recv'[s].failed = recv[s].failed
          /\ recv[s].cleaner # "closing"
          /\ disk'[s] = disk[s]
          /\ row'[s] = row[s]
          /\ touched' = touched /\ forgotten' = forgotten
      BY <1>5, <2>3, WriterMoves DEF WriteLands
    <3>2. Others /\ Limit
      BY <1>5, <2>3, <1>s, WriterMoves DEF WriteLands
    <3>3. WriterFits(s)'
      BY <3>1, <1>d, <1>v DEF WriterFits, Publishes
    <3>4. RowFits(s)'
      BY <3>1, <1>d, <1>v DEF RowFits
    <3>5. EndFits(s)'
      BY <3>1, <1>d, <1>v DEF EndFits
    <3> QED
      BY <1>q, <3>2, <3>3, <3>4, <3>5
  <2> QED
    BY <1>5, <2>1, <2>2, <2>3 DEF WriteLands
<1>6. CASE Written(s)
  <2>1. CASE recv[s].cleaner = "closing"
    <3>1. /\ recv[s].writer = "written" /\ recv'[s].writer = "stopped"
          /\ recv'[s].cleaner = "unlinking" /\ recv'[s].handle = "closed"
          /\ recv'[s].left = recv[s].left /\ recv'[s].failed = recv[s].failed
          /\ disk'[s] = disk[s]
          /\ row'[s] = row[s]
          /\ touched' = touched /\ forgotten' = forgotten
      BY <1>6, <2>1, <1>f, <1>d DEF Written, Receives
    <3>2. Others /\ Limit
      BY <1>6, <2>1, <1>f, <1>s DEF Written
    <3>3. WriterFits(s)'
      BY <3>1, <1>d, <1>v DEF WriterFits, Publishes
    <3>4. RowFits(s)'
      BY <3>1, <1>d, <1>v DEF RowFits
    <3>5. EndFits(s)'
      BY <3>1, <1>d, <1>v DEF EndFits
    <3> QED
      BY <1>q, <3>2, <3>3, <3>4, <3>5
  <2>2. CASE recv[s].cleaner # "closing" /\ SealFails(s)
    <3>1. /\ recv[s].writer = "written" /\ recv'[s].writer = "failed"
          /\ recv'[s].cleaner = recv[s].cleaner /\ recv'[s].handle = recv[s].handle
          /\ recv'[s].left = recv[s].left /\ recv'[s].failed = recv[s].failed
          /\ recv[s].cleaner # "closing"
          /\ disk'[s] = disk[s]
          /\ row'[s] = row[s]
          /\ touched' = touched /\ forgotten' = forgotten
      BY <1>6, <2>2, WriterMoves DEF Written
    <3>2. Others /\ Limit
      BY <1>6, <2>2, <1>s, WriterMoves DEF Written
    <3>3. WriterFits(s)'
      BY <3>1, <1>d, <1>v DEF WriterFits, Publishes
    <3>4. RowFits(s)'
      BY <3>1, <1>d, <1>v DEF RowFits
    <3>5. EndFits(s)'
      BY <3>1, <1>d, <1>v DEF EndFits
    <3> QED
      BY <1>q, <3>2, <3>3, <3>4, <3>5
  <2>3. CASE recv[s].cleaner # "closing" /\ ~SealFails(s)
    <3>1. /\ recv[s].writer = "written"
          /\ recv'[s].writer = IF recv[s].cleaner = "none" THEN "open" ELSE "stopped"
          /\ recv'[s].cleaner = recv[s].cleaner /\ recv'[s].handle = recv[s].handle
          /\ recv'[s].left = recv[s].left /\ recv'[s].failed = recv[s].failed
          /\ recv[s].cleaner # "closing"
          /\ disk'[s] = disk[s]
          /\ row'[s].kept /\ row'[s].id = disk[s].file /\ row[s].kept
          /\ disk[s].file # Absent /\ disk[s].file # Foreign
          /\ touched' = touched /\ forgotten' = forgotten
      BY <1>6, <2>3, <1>d, WriterMoves, SealMoves DEF Written, Going, WriterFits
    <3>2. Others /\ Limit
      BY <1>6, <2>3, WriterMoves, SealMoves, KeptShrinks DEF Written
    <3>3. WriterFits(s)'
      BY <3>1, <1>d, <1>v DEF WriterFits, Publishes
    <3>4. RowFits(s)'
      BY <3>1, <1>d, <1>v DEF RowFits
    <3>5. EndFits(s)'
      BY <3>1, <1>d, <1>v DEF EndFits
    <3> QED
      BY <1>q, <3>2, <3>3, <3>4, <3>5
  <2> QED
    BY <1>6, <2>1, <2>2, <2>3 DEF Written
<1>7. CASE Commit(s)
  <2>1. CASE recv[s].left > 0
    <3>1. /\ recv[s].writer = "open" /\ recv'[s].writer = "failed"
          /\ recv'[s].cleaner = recv[s].cleaner /\ recv'[s].handle = recv[s].handle
          /\ recv'[s].left = recv[s].left /\ recv'[s].failed = recv[s].failed
          /\ recv[s].cleaner = "none"
          /\ disk'[s] = disk[s]
          /\ row'[s] = row[s]
          /\ touched' = touched /\ forgotten' = forgotten
      BY <1>7, <2>1, <1>f, <1>d DEF Commit, Going, Receives
    <3>2. Others /\ Limit
      BY <1>7, <2>1, <1>f, <1>s DEF Commit
    <3>3. WriterFits(s)'
      BY <3>1, <1>d, <1>v DEF WriterFits, Publishes
    <3>4. RowFits(s)'
      BY <3>1, <1>d, <1>v DEF RowFits
    <3>5. EndFits(s)'
      BY <3>1, <1>d, <1>v DEF EndFits
    <3> QED
      BY <1>q, <3>2, <3>3, <3>4, <3>5
  <2>2. CASE ~(recv[s].left > 0)
    <3>1. /\ recv[s].writer = "open" /\ recv'[s].writer = "publishing"
          /\ recv'[s].cleaner = recv[s].cleaner /\ recv'[s].handle = "closed"
          /\ recv'[s].left = recv[s].left /\ recv'[s].failed = recv[s].failed
          /\ recv[s].cleaner = "none"
          /\ disk'[s] = disk[s]
          /\ row'[s] = row[s]
          /\ touched' = touched /\ forgotten' = forgotten
      BY <1>7, <2>2, <1>f, <1>d DEF Commit, Going, Receives
    <3>2. Others /\ Limit
      BY <1>7, <2>2, <1>f, <1>s DEF Commit
    <3>3. WriterFits(s)'
      BY <3>1, <1>d, <1>v DEF WriterFits, Publishes
    <3>4. RowFits(s)'
      BY <3>1, <1>d, <1>v DEF RowFits
    <3>5. EndFits(s)'
      BY <3>1, <1>d, <1>v DEF EndFits
    <3> QED
      BY <1>q, <3>2, <3>3, <3>4, <3>5
  <2> QED
    BY <1>7, <2>1, <2>2
<1>8. CASE PublishLands(s)
  <2>1. CASE Writer(s, "publishing", "published")
             /\ disk' = [disk EXCEPT ![s].final = "whole", ![s].linked = TRUE]
    <3>1. /\ recv[s].writer = "publishing" /\ recv'[s].writer = "published"
          /\ recv'[s].cleaner = recv[s].cleaner /\ recv'[s].handle = recv[s].handle
          /\ recv'[s].left = recv[s].left /\ recv'[s].failed = recv[s].failed
          /\ disk'[s].file = disk[s].file /\ disk'[s].final = "whole"
          /\ row'[s] = row[s]
          /\ touched' = touched /\ forgotten' = forgotten
      BY <1>8, <2>1, <1>f, <1>d, WriterMoves DEF PublishLands, Files
    <3>2. Others /\ Limit
      BY <1>8, <2>1, <1>f, <1>s, WriterMoves DEF PublishLands
    <3>3. WriterFits(s)'
      BY <3>1, <1>d, <1>v DEF WriterFits, Publishes
    <3>4. RowFits(s)'
      BY <3>1, <1>d, <1>v DEF RowFits
    <3>5. EndFits(s)'
      BY <3>1, <1>d, <1>v DEF EndFits
    <3> QED
      BY <1>q, <3>2, <3>3, <3>4, <3>5
  <2>2. CASE Writer(s, "publishing", "published")
             /\ disk' = [disk EXCEPT ![s].final = "whole", ![s].file = Absent]
    <3>1. /\ recv[s].writer = "publishing" /\ recv'[s].writer = "published"
          /\ recv'[s].cleaner = recv[s].cleaner /\ recv'[s].handle = recv[s].handle
          /\ recv'[s].left = recv[s].left /\ recv'[s].failed = recv[s].failed
          /\ disk'[s].file = Absent /\ disk'[s].final = "whole"
          /\ row'[s] = row[s]
          /\ touched' = touched /\ forgotten' = forgotten
      BY <1>8, <2>2, <1>f, <1>d, WriterMoves DEF PublishLands, Files
    <3>2. Others /\ Limit
      BY <1>8, <2>2, <1>f, <1>s, WriterMoves DEF PublishLands
    <3>3. WriterFits(s)'
      BY <3>1, <1>d, <1>v DEF WriterFits, Publishes
    <3>4. RowFits(s)'
      BY <3>1, <1>d, <1>v DEF RowFits
    <3>5. EndFits(s)'
      BY <3>1, <1>d, <1>v DEF EndFits
    <3> QED
      BY <1>q, <3>2, <3>3, <3>4, <3>5
  <2>3. CASE Writer(s, "publishing", "failed") /\ UNCHANGED disk
    <3>1. /\ recv[s].writer = "publishing" /\ recv'[s].writer = "failed"
          /\ recv'[s].cleaner = recv[s].cleaner /\ recv'[s].handle = recv[s].handle
          /\ recv'[s].left = recv[s].left /\ recv'[s].failed = recv[s].failed
          /\ disk'[s] = disk[s]
          /\ row'[s] = row[s]
          /\ touched' = touched /\ forgotten' = forgotten
      BY <1>8, <2>3, WriterMoves DEF PublishLands
    <3>2. Others /\ Limit
      BY <1>8, <2>3, <1>s, WriterMoves DEF PublishLands
    <3>3. WriterFits(s)'
      BY <3>1, <1>d, <1>v DEF WriterFits, Publishes
    <3>4. RowFits(s)'
      BY <3>1, <1>d, <1>v DEF RowFits
    <3>5. EndFits(s)'
      BY <3>1, <1>d, <1>v DEF EndFits
    <3> QED
      BY <1>q, <3>2, <3>3, <3>4, <3>5
  <2> QED
    BY <1>8, <2>1, <2>2, <2>3 DEF PublishLands
<1>9. CASE RemoveLands(s)
  <2>1. CASE Writer(s, "published", "removed") /\ Unlink(s)
    <3>1. /\ recv[s].writer = "published" /\ recv'[s].writer = "removed"
          /\ recv'[s].cleaner = recv[s].cleaner /\ recv'[s].handle = recv[s].handle
          /\ recv'[s].left = recv[s].left /\ recv'[s].failed = recv[s].failed
          /\ disk'[s].file = Absent /\ disk'[s].final = disk[s].final
          /\ row'[s] = row[s]
          /\ touched' = touched /\ forgotten' = forgotten
      BY <1>9, <2>1, WriterMoves, UnlinkMoves, ZenonT(60) DEF RemoveLands
    <3>2. Others /\ Limit
      BY <1>9, <2>1, <1>s, WriterMoves, UnlinkMoves DEF RemoveLands
    <3>3. WriterFits(s)'
      BY <3>1, <1>d, <1>v DEF WriterFits, Publishes
    <3>4. RowFits(s)'
      BY <3>1, <1>d, <1>v DEF RowFits
    <3>5. EndFits(s)'
      BY <3>1, <1>d, <1>v DEF EndFits
    <3> QED
      BY <1>q, <3>2, <3>3, <3>4, <3>5
  <2>2. CASE Writer(s, "published", "failed") /\ UNCHANGED disk
    <3>1. /\ recv[s].writer = "published" /\ recv'[s].writer = "failed"
          /\ recv'[s].cleaner = recv[s].cleaner /\ recv'[s].handle = recv[s].handle
          /\ recv'[s].left = recv[s].left /\ recv'[s].failed = recv[s].failed
          /\ disk'[s] = disk[s]
          /\ row'[s] = row[s]
          /\ touched' = touched /\ forgotten' = forgotten
      BY <1>9, <2>2, WriterMoves DEF RemoveLands
    <3>2. Others /\ Limit
      BY <1>9, <2>2, <1>s, WriterMoves DEF RemoveLands
    <3>3. WriterFits(s)'
      BY <3>1, <1>d, <1>v DEF WriterFits, Publishes
    <3>4. RowFits(s)'
      BY <3>1, <1>d, <1>v DEF RowFits
    <3>5. EndFits(s)'
      BY <3>1, <1>d, <1>v DEF EndFits
    <3> QED
      BY <1>q, <3>2, <3>3, <3>4, <3>5
  <2> QED
    BY <1>9, <2>1, <2>2 DEF RemoveLands
<1>10. CASE Committed(s)
  <2>1. /\ recv[s].writer = "removed" /\ recv'[s].writer = "done"
        /\ recv'[s].cleaner = recv[s].cleaner /\ recv'[s].handle = recv[s].handle
        /\ recv'[s].left = recv[s].left /\ recv'[s].failed = recv[s].failed
        /\ disk[s].file = Absent
        /\ disk'[s] = disk[s]
        /\ disk[s].file = Absent => ~row'[s].kept /\ row'[s].id = Absent
        /\ disk[s].file # Absent => (row'[s].kept <=> row[s].kept) /\ row'[s].id = row[s].id
        /\ touched' = touched /\ forgotten' = forgotten
    BY <1>10, <1>d, WriterMoves, ClearMoves DEF Committed, WriterFits
  <2>2. Others /\ Limit
    BY <1>10, WriterMoves, ClearMoves, KeptShrinks DEF Committed
  <2>3. WriterFits(s)'
    BY <2>1, <1>d, <1>v DEF WriterFits, Publishes
  <2>4. RowFits(s)'
    BY <2>1, <1>d, <1>v DEF RowFits
  <2>5. EndFits(s)'
    BY <2>1, <1>d, <1>v DEF EndFits
  <2> QED
    BY <1>q, <2>2, <2>3, <2>4, <2>5
<1> QED
  BY <1>1, <1>2, <1>3, <1>4, <1>5, <1>6, <1>7, <1>8, <1>9, <1>10

(* Each step of a clean-up keeps the inductive invariant.                   *)
LEMMA CleanupStep ==
    ASSUME IInv, TypeOK', \A t \in Stages : RemovalFits(t)', NEW s \in Stages,
           \/ Cleanup(s) \/ CreateLands(s) \/ CreatedCloses(s) \/ CleanupRemoves(s)
           \/ CleanupEnds(s)
    PROVE  IInv'
<1> USE DEF User
<1> DEFINE Others == \A t \in Stages \ {s} :
                       /\ disk'[t] = disk[t] /\ row'[t] = row[t] /\ recv'[t] = recv[t]
                       /\ t \in touched' <=> t \in touched
                       /\ t \in forgotten' <=> t \in forgotten
<1> DEFINE Limit == IsFiniteSet(Kept') /\ Cardinality(Kept') <= MaxRecords
<1>f. /\ recv \in [Stages -> Receives] /\ disk \in [Stages -> Files]
      /\ row \in [Stages -> JournalRows]
  BY DEF IInv, TypeOK
<1>d. /\ disk[s] \in Files /\ row[s] \in JournalRows /\ recv[s] \in Receives
      /\ WriterFits(s) /\ RowFits(s) /\ EndFits(s)
  BY <1>f DEF IInv
<1>v. /\ Absent = 0 /\ Created = 1 /\ Moved = 2 /\ Foreign = 3 /\ Own = {1, 2}
      /\ (s \in forgotten => s \in touched)
  BY DEF Absent, Created, Moved, Foreign, Own, IInv, TypeOK
<1>s. row' = row => Limit
  BY KeptShrinks DEF Kept
<1>q. ASSUME Others, Limit, WriterFits(s)', RowFits(s)', EndFits(s)'
      PROVE  IInv'
  BY <1>q, OneReceive
<1>1. CASE Cleanup(s)
  <2>1. CASE recv[s].handle = "open" /\ recv[s].writer \in {"writing", "written"}
    <3>1. /\ recv[s].cleaner = "none" /\ recv[s].writer \notin {"done", "dead"}
          /\ recv[s].handle = "open" /\ recv[s].writer \in {"writing", "written"}
          /\ recv'[s].writer = recv[s].writer /\ recv'[s].left = recv[s].left
          /\ recv'[s].cleaner = "closing"
          /\ recv'[s].handle = recv[s].handle
          /\ recv'[s].failed = recv[s].failed
          /\ disk'[s] = disk[s]
          /\ row'[s] = row[s]
          /\ touched' = touched /\ forgotten' = forgotten
      BY <1>1, <2>1, <1>f, <1>d DEF Cleanup, CloseStarts, Going, Receives
    <3>2. Others /\ Limit
      BY <1>1, <2>1, <1>f, <1>s DEF Cleanup, CloseStarts
    <3>3. WriterFits(s)'
      BY <3>1, <1>d, <1>v DEF WriterFits, Publishes
    <3>4. RowFits(s)'
      BY <3>1, <1>d, <1>v DEF RowFits
    <3>5. EndFits(s)'
      BY <3>1, <1>d, <1>v DEF EndFits
    <3> QED
      BY <1>q, <3>2, <3>3, <3>4, <3>5
  <2>2. CASE recv[s].handle # "none" /\ recv[s].writer \notin {"writing", "written"}
    <3>1. /\ recv[s].cleaner = "none" /\ recv[s].writer \notin {"done", "dead"}
          /\ recv[s].writer \notin {"new", "opening", "opened", "writing", "written"}
          /\ recv'[s].writer = recv[s].writer /\ recv'[s].left = recv[s].left
          /\ recv'[s].cleaner = "unlinking"
          /\ recv'[s].handle = "closed"
          /\ recv'[s].failed = recv[s].failed
          /\ disk'[s] = disk[s]
          /\ row'[s] = row[s]
          /\ touched' = touched /\ forgotten' = forgotten
      BY <1>1, <2>2, <1>f, <1>d DEF Cleanup, CloseStarts, Going, Receives, WriterFits
    <3>2. Others /\ Limit
      BY <1>1, <2>2, <1>f, <1>s DEF Cleanup, CloseStarts
    <3>3. WriterFits(s)'
      BY <3>1, <1>d, <1>v DEF WriterFits, Publishes
    <3>4. RowFits(s)'
      BY <3>1, <1>d, <1>v DEF RowFits
    <3>5. EndFits(s)'
      BY <3>1, <1>d, <1>v DEF EndFits
    <3> QED
      BY <1>q, <3>2, <3>3, <3>4, <3>5
  <2>3. CASE recv[s].handle = "none" /\ PrepareRefused(s)
    <3>1. /\ recv[s].cleaner = "none" /\ recv[s].writer \notin {"done", "dead"}
          /\ recv'[s].writer = recv[s].writer /\ recv'[s].left = recv[s].left
          /\ recv'[s].cleaner = "unlinking"
          /\ recv'[s].handle = recv[s].handle
          /\ recv'[s].failed
          /\ disk'[s] = disk[s]
          /\ row'[s] = row[s]
          /\ touched' = touched /\ forgotten' = forgotten
      BY <1>1, <2>3, <1>f, <1>d DEF Cleanup, CloseStarts, Going, Receives
    <3>2. Others /\ Limit
      BY <1>1, <2>3, <1>f, <1>s DEF Cleanup, CloseStarts
    <3>3. WriterFits(s)'
      BY <3>1, <1>d, <1>v DEF WriterFits, Publishes
    <3>4. RowFits(s)'
      BY <3>1, <1>d, <1>v DEF RowFits
    <3>5. EndFits(s)'
      BY <3>1, <1>d, <1>v DEF EndFits
    <3> QED
      BY <1>q, <3>2, <3>3, <3>4, <3>5
  <2>4. CASE recv[s].handle = "none" /\ ~PrepareRefused(s)
    <3>1. /\ recv[s].cleaner = "none" /\ recv[s].writer \notin {"done", "dead"}
          /\ recv[s].writer \in {"new", "opening", "opened", "failed"}
          /\ recv'[s].writer = recv[s].writer /\ recv'[s].left = recv[s].left
          /\ recv'[s].cleaner = "creating"
          /\ recv'[s].handle = recv[s].handle
          /\ recv'[s].failed = recv[s].failed
          /\ ~row[s].kept
          /\ disk'[s] = disk[s]
          /\ row'[s].kept /\ row'[s].id = Absent
          /\ touched' = touched /\ forgotten' = forgotten
      BY <1>1, <2>4, <1>f, <1>d, PreparedMoves DEF Cleanup, CloseStarts, PrepareRefused, Going,
          Receives, JournalRows,
          WriterFits
    <3>2. Others /\ Limit
      BY <1>1, <2>4, <1>f, PreparedMoves, KeptGrows DEF Cleanup, CloseStarts
    <3>3. WriterFits(s)'
      BY <3>1, <1>d, <1>v DEF WriterFits, Publishes
    <3>4. RowFits(s)'
      BY <3>1, <1>d, <1>v DEF RowFits
    <3>5. EndFits(s)'
      BY <3>1, <1>d, <1>v DEF EndFits
    <3> QED
      BY <1>q, <3>2, <3>3, <3>4, <3>5
  <2> QED
    BY <1>1, <2>1, <2>2, <2>3, <2>4, <1>d DEF Cleanup, Going, Receives, WriterFits
<1>2. CASE CreateLands(s)
  <2>1. CASE disk[s].file = Absent /\ recv' = [recv EXCEPT ![s].cleaner = "created"]
             /\ disk' = [disk EXCEPT ![s].file = Created] /\ UNCHANGED row
    <3>1. /\ recv[s].cleaner = "creating"
          /\ s \notin forgotten => recv[s].writer \in {"new", "failed"}
          /\ recv'[s].writer = recv[s].writer /\ recv'[s].left = recv[s].left
          /\ recv'[s].cleaner = "created"
          /\ recv'[s].handle = recv[s].handle
          /\ recv'[s].failed = recv[s].failed
          /\ disk'[s].file = Created /\ disk'[s].final = disk[s].final
          /\ row'[s] = row[s]
          /\ touched' = touched /\ forgotten' = forgotten
      BY <1>2, <2>1, <1>f, <1>d DEF CreateLands, Receives, Files, RowFits
    <3>2. Others /\ Limit
      BY <1>2, <2>1, <1>f, <1>s DEF CreateLands
    <3>3. WriterFits(s)'
      BY <3>1, <1>d, <1>v DEF WriterFits, Publishes
    <3>4. RowFits(s)'
      BY <3>1, <1>d, <1>v DEF RowFits
    <3>5. EndFits(s)'
      BY <3>1, <1>d, <1>v DEF EndFits
    <3> QED
      BY <1>q, <3>2, <3>3, <3>4, <3>5
  <2>2. CASE recv' = [recv EXCEPT ![s].cleaner = "unlinking", ![s].failed = TRUE]
             /\ ClearIfAbsent(s) /\ UNCHANGED disk
    <3>1. /\ recv[s].cleaner = "creating"
          /\ recv'[s].writer = recv[s].writer /\ recv'[s].left = recv[s].left
          /\ recv'[s].cleaner = "unlinking"
          /\ recv'[s].handle = recv[s].handle
          /\ recv'[s].failed
          /\ disk'[s] = disk[s]
          /\ disk[s].file = Absent => ~row'[s].kept /\ row'[s].id = Absent
          /\ disk[s].file # Absent => (row'[s].kept <=> row[s].kept) /\ row'[s].id = row[s].id
          /\ touched' = touched /\ forgotten' = forgotten
      BY <1>2, <2>2, <1>f, <1>d, ClearMoves DEF CreateLands, Receives
    <3>2. Others /\ Limit
      BY <1>2, <2>2, <1>f, ClearMoves, KeptShrinks DEF CreateLands
    <3>3. WriterFits(s)'
      BY <3>1, <1>d, <1>v DEF WriterFits, Publishes
    <3>4. RowFits(s)'
      BY <3>1, <1>d, <1>v DEF RowFits
    <3>5. EndFits(s)'
      BY <3>1, <1>d, <1>v DEF EndFits
    <3> QED
      BY <1>q, <3>2, <3>3, <3>4, <3>5
  <2> QED
    BY <1>2, <2>1, <2>2 DEF CreateLands
<1>3. CASE CreatedCloses(s)
  <2>1. CASE SealFails(s)
    <3>1. /\ recv[s].cleaner = "created"
          /\ recv'[s].writer = recv[s].writer /\ recv'[s].left = recv[s].left
          /\ recv'[s].cleaner = "unlinking"
          /\ recv'[s].handle = "open"
          /\ recv'[s].failed
          /\ disk'[s] = disk[s]
          /\ disk[s].file = Absent => ~row'[s].kept /\ row'[s].id = Absent
          /\ disk[s].file # Absent => (row'[s].kept <=> row[s].kept) /\ row'[s].id = row[s].id
          /\ touched' = touched /\ forgotten' = forgotten
      BY <1>3, <2>1, <1>f, <1>d, ClearMoves DEF CreatedCloses, Receives
    <3>2. Others /\ Limit
      BY <1>3, <2>1, <1>f, ClearMoves, KeptShrinks DEF CreatedCloses
    <3>3. WriterFits(s)'
      BY <3>1, <1>d, <1>v DEF WriterFits, Publishes
    <3>4. RowFits(s)'
      BY <3>1, <1>d, <1>v DEF RowFits
    <3>5. EndFits(s)'
      BY <3>1, <1>d, <1>v DEF EndFits
    <3> QED
      BY <1>q, <3>2, <3>3, <3>4, <3>5
  <2>2. CASE ~SealFails(s)
    <3>1. /\ recv[s].cleaner = "created" /\ recv[s].writer # "dead"
          /\ recv'[s].writer = recv[s].writer /\ recv'[s].left = recv[s].left
          /\ recv'[s].cleaner = "unlinking"
          /\ recv'[s].handle = "closed"
          /\ recv'[s].failed = recv[s].failed
          /\ disk'[s] = disk[s]
          /\ row'[s].kept /\ row'[s].id = disk[s].file /\ row[s].kept
          /\ disk[s].file # Absent /\ disk[s].file # Foreign
          /\ touched' = touched /\ forgotten' = forgotten
      BY <1>3, <2>2, <1>f, <1>d, SealMoves DEF CreatedCloses, Receives, WriterFits, EndFits
    <3>2. Others /\ Limit
      BY <1>3, <2>2, <1>f, SealMoves, KeptShrinks DEF CreatedCloses
    <3>3. WriterFits(s)'
      BY <3>1, <1>d, <1>v DEF WriterFits, Publishes
    <3>4. RowFits(s)'
      BY <3>1, <1>d, <1>v DEF RowFits
    <3>5. EndFits(s)'
      BY <3>1, <1>d, <1>v DEF EndFits
    <3> QED
      BY <1>q, <3>2, <3>3, <3>4, <3>5
  <2> QED
    BY <1>3, <2>1, <2>2
<1>4. CASE CleanupRemoves(s)
  <2>1. CASE recv' = [recv EXCEPT ![s].cleaner = "unlinked"] /\ Unlink(s)
    <3>1. /\ recv[s].cleaner = "unlinking"
          /\ recv'[s].writer = recv[s].writer /\ recv'[s].left = recv[s].left
          /\ recv'[s].cleaner = "unlinked"
          /\ recv'[s].handle = recv[s].handle
          /\ recv'[s].failed = recv[s].failed
          /\ disk'[s].file = Absent /\ disk'[s].final = disk[s].final
          /\ row'[s] = row[s]
          /\ touched' = touched /\ forgotten' = forgotten
      BY <1>4, <2>1, <1>f, <1>d, UnlinkMoves DEF CleanupRemoves, Receives
    <3>2. Others /\ Limit
      BY <1>4, <2>1, <1>f, <1>s, UnlinkMoves DEF CleanupRemoves
    <3>3. WriterFits(s)'
      BY <3>1, <1>d, <1>v DEF WriterFits, Publishes
    <3>4. RowFits(s)'
      BY <3>1, <1>d, <1>v DEF RowFits
    <3>5. EndFits(s)'
      BY <3>1, <1>d, <1>v DEF EndFits
    <3> QED
      BY <1>q, <3>2, <3>3, <3>4, <3>5
  <2>2. CASE recv' = [recv EXCEPT ![s].cleaner = "ended", ![s].failed = TRUE] /\ UNCHANGED disk
    <3>1. /\ recv[s].cleaner = "unlinking"
          /\ recv'[s].writer = recv[s].writer /\ recv'[s].left = recv[s].left
          /\ recv'[s].cleaner = "ended"
          /\ recv'[s].handle = recv[s].handle
          /\ recv'[s].failed
          /\ disk'[s] = disk[s]
          /\ row'[s] = row[s]
          /\ touched' = touched /\ forgotten' = forgotten
      BY <1>4, <2>2, <1>f, <1>d DEF CleanupRemoves, Receives
    <3>2. Others /\ Limit
      BY <1>4, <2>2, <1>f, <1>s DEF CleanupRemoves
    <3>3. WriterFits(s)'
      BY <3>1, <1>d, <1>v DEF WriterFits, Publishes
    <3>4. RowFits(s)'
      BY <3>1, <1>d, <1>v DEF RowFits
    <3>5. EndFits(s)'
      BY <3>1, <1>d, <1>v DEF EndFits
    <3> QED
      BY <1>q, <3>2, <3>3, <3>4, <3>5
  <2> QED
    BY <1>4, <2>1, <2>2 DEF CleanupRemoves
<1>5. CASE CleanupEnds(s)
  <2>1. CASE recv[s].failed
    <3>1. /\ recv[s].cleaner = "unlinked" /\ recv[s].failed
          /\ recv'[s].writer = recv[s].writer /\ recv'[s].left = recv[s].left
          /\ recv'[s].cleaner = "ended"
          /\ recv'[s].handle = recv[s].handle
          /\ recv'[s].failed = recv[s].failed
          /\ disk'[s] = disk[s]
          /\ row'[s] = row[s]
          /\ touched' = touched /\ forgotten' = forgotten
      BY <1>5, <2>1, <1>f, <1>d DEF CleanupEnds, Reports, Receives
    <3>2. Others /\ Limit
      BY <1>5, <2>1, <1>f, <1>s DEF CleanupEnds, Reports
    <3>3. WriterFits(s)'
      BY <3>1, <1>d, <1>v DEF WriterFits, Publishes
    <3>4. RowFits(s)'
      BY <3>1, <1>d, <1>v DEF RowFits
    <3>5. EndFits(s)'
      BY <3>1, <1>d, <1>v DEF EndFits
    <3> QED
      BY <1>q, <3>2, <3>3, <3>4, <3>5
  <2>2. CASE ~recv[s].failed
    <3>1. /\ recv[s].cleaner = "unlinked" /\ ~recv[s].failed
          /\ recv'[s].writer = recv[s].writer /\ recv'[s].left = recv[s].left
          /\ recv'[s].cleaner = "ended"
          /\ recv'[s].handle = recv[s].handle
          /\ recv'[s].failed = recv[s].failed
          /\ disk'[s] = disk[s]
          /\ disk[s].file = Absent => ~row'[s].kept /\ row'[s].id = Absent
          /\ disk[s].file # Absent => (row'[s].kept <=> row[s].kept) /\ row'[s].id = row[s].id
          /\ touched' = touched /\ forgotten' = forgotten
      BY <1>5, <2>2, <1>f, <1>d, ClearMoves DEF CleanupEnds, Reports, Receives
    <3>2. Others /\ Limit
      BY <1>5, <2>2, <1>f, ClearMoves, KeptShrinks DEF CleanupEnds, Reports
    <3>3. WriterFits(s)'
      BY <3>1, <1>d, <1>v DEF WriterFits, Publishes
    <3>4. RowFits(s)'
      BY <3>1, <1>d, <1>v DEF RowFits
    <3>5. EndFits(s)'
      BY <3>1, <1>d, <1>v DEF EndFits
    <3> QED
      BY <1>q, <3>2, <3>3, <3>4, <3>5
  <2> QED
    BY <1>5, <2>1, <2>2
<1> QED
  BY <1>1, <1>2, <1>3, <1>4, <1>5

(* So does each step of the user and of other programs,                    *)
LEMMA UserStep ==
    ASSUME IInv, TypeOK', \A t \in Stages : RemovalFits(t)', NEW s \in Stages,
           \/ Meddle(s) \/ NameTaken(s) \/ Forget(s) \/ Expire(s)
           \/ RemoveStarts(s) \/ Removal(s)
    PROVE  IInv'
<1> USE DEF User
<1> DEFINE Others == \A t \in Stages \ {s} :
                       /\ disk'[t] = disk[t] /\ row'[t] = row[t] /\ recv'[t] = recv[t]
                       /\ t \in touched' <=> t \in touched
                       /\ t \in forgotten' <=> t \in forgotten
<1>f. /\ recv \in [Stages -> Receives] /\ disk \in [Stages -> Files]
      /\ row \in [Stages -> JournalRows]
  BY DEF IInv, TypeOK
<1>d. /\ disk[s] \in Files /\ row[s] \in JournalRows /\ recv[s] \in Receives
      /\ WriterFits(s) /\ RowFits(s) /\ EndFits(s)
  BY <1>f DEF IInv
<1>v. /\ Absent = 0 /\ Created = 1 /\ Moved = 2 /\ Foreign = 3 /\ Own = {1, 2}
      /\ (s \in forgotten => s \in touched)
  BY DEF Absent, Created, Moved, Foreign, Own, IInv, TypeOK
<1>1. CASE Meddle(s)
  <2>1. PICK file \in {Absent, disk[s].file, Foreign}, linked \in BOOLEAN :
          disk' = [disk EXCEPT ![s].file = file, ![s].linked = linked]
    BY <1>1 DEF Meddle
  <2>2. /\ disk'[s].file \in {Absent, disk[s].file, Foreign}
        /\ disk'[s].final = disk[s].final /\ recv'[s] = recv[s] /\ row'[s] = row[s]
        /\ recv[s].writer = "dead" /\ touched' = touched /\ forgotten' = forgotten
    BY <1>1, <2>1, <1>f, <1>d DEF Meddle, Files
  <2>3. Others /\ row' = row
    BY <1>1, <2>1, <1>f DEF Meddle
  <2>4. WriterFits(s)'
    BY <2>2, <1>d, <1>v DEF WriterFits, Publishes
  <2>5. RowFits(s)'
    BY <2>2, <1>d, <1>v DEF RowFits
  <2>6. EndFits(s)'
    BY <2>2, <1>d, <1>v DEF EndFits, WriterFits
  <2>7. IsFiniteSet(Kept') /\ Cardinality(Kept') <= MaxRecords
    BY <2>3, KeptShrinks DEF Kept
  <2> QED
    BY <2>3, <2>4, <2>5, <2>6, <2>7, OneReceive
<1>2. CASE NameTaken(s)
  <2>2. /\ disk'[s].file = disk[s].file /\ disk[s].final = "none"
        /\ recv'[s] = recv[s] /\ row'[s] = row[s]
        /\ recv[s].writer \notin {"published", "removed", "done"}
        /\ touched' = touched /\ forgotten' = forgotten
    BY <1>2, <1>f, <1>d DEF NameTaken, Files, WriterFits
  <2>3. Others /\ row' = row
    BY <1>2, <1>f DEF NameTaken
  <2>4. WriterFits(s)'
    BY <2>2, <1>d, <1>v DEF WriterFits, Publishes
  <2>5. RowFits(s)'
    BY <2>2, <1>d, <1>v DEF RowFits
  <2>6. EndFits(s)'
    BY <2>2, <1>d, <1>v DEF EndFits
  <2>7. IsFiniteSet(Kept') /\ Cardinality(Kept') <= MaxRecords
    BY <2>3, KeptShrinks DEF Kept
  <2> QED
    BY <2>3, <2>4, <2>5, <2>6, <2>7, OneReceive
<1>3. CASE RemoveUnlinks(s)
  <2>2. /\ disk'[s].file = Absent /\ disk'[s].final = disk[s].final
        /\ recv'[s] = recv[s] /\ row'[s] = row[s]
        /\ s \in touched' /\ forgotten' = forgotten
    BY <1>3, <1>f, <1>d DEF RemoveUnlinks, Unlink, Files
  <2>3. Others /\ row' = row
    BY <1>3, <1>f DEF RemoveUnlinks, Unlink
  <2>4. WriterFits(s)'
    BY <2>2, <1>d, <1>v DEF WriterFits, Publishes
  <2>5. RowFits(s)'
    BY <2>2, <1>d, <1>v DEF RowFits
  <2>6. EndFits(s)'
    BY <2>2 DEF EndFits
  <2>7. IsFiniteSet(Kept') /\ Cardinality(Kept') <= MaxRecords
    BY <2>3, KeptShrinks DEF Kept
  <2> QED
    BY <2>3, <2>4, <2>5, <2>6, <2>7, OneReceive
<1>6. CASE RemoveEnds(s)
  <2>1. s \in touched /\ row[s].id # Absent
    BY <1>6 DEF RemoveEnds, RemovalGoes, IInv, RemovalFits
  <2>2. /\ disk' = disk /\ recv' = recv /\ touched' = touched /\ forgotten' = forgotten
        /\ disk[s].file = Absent => ~row'[s].kept /\ row'[s].id = Absent
        /\ disk[s].file # Absent => row' = row
    BY <1>6, <1>f DEF RemoveEnds, ClearIfAbsent, NoRow
  <2>3. Others
    BY <1>6, <1>f DEF RemoveEnds, ClearIfAbsent
  <2>4. WriterFits(s)'
    BY <2>2, <1>d DEF WriterFits, Publishes
  <2>5. RowFits(s)'
    BY <2>1, <2>2, <1>d, <1>v DEF RowFits
  <2>6. EndFits(s)'
    BY <2>1, <2>2 DEF EndFits
  <2>7. IsFiniteSet(Kept') /\ Cardinality(Kept') <= MaxRecords
    <3>1. Kept' \subseteq Kept
      BY <2>2, <2>3 DEF Kept
    <3> QED
      BY <3>1, KeptShrinks
  <2> QED
    BY <2>3, <2>4, <2>5, <2>6, <2>7, OneReceive
<1>7. CASE RemoveStarts(s) \/ RemoveOpens(s) \/ RemoveChecks(s) \/ RemoveThrows(s)
  <2>1. /\ disk' = disk /\ row' = row /\ recv' = recv
        /\ touched' = touched /\ forgotten' = forgotten
    BY <1>7 DEF RemoveStarts, RemoveOpens, RemoveChecks, RemoveThrows
  <2>2. IsFiniteSet(Kept') /\ Cardinality(Kept') <= MaxRecords
    BY <2>1, KeptShrinks DEF Kept
  <2>3. WriterFits(s)' /\ RowFits(s)' /\ EndFits(s)'
    BY <1>d, <2>1 DEF WriterFits, Publishes, RowFits, EndFits
  <2> QED
    BY <2>1, <2>2, <2>3, OneReceive
<1>4. CASE Forget(s)
  <2>2. /\ disk'[s] = disk[s] /\ recv'[s] = recv[s]
        /\ ~row'[s].kept /\ row'[s].id = Absent
        /\ s \in touched' /\ s \in forgotten'
    BY <1>4, <1>f DEF Forget, NoRow
  <2>3. Others
    BY <1>4, <1>f DEF Forget
  <2>4. WriterFits(s)'
    BY <2>2, <1>d, <1>v DEF WriterFits, Publishes
  <2>5. RowFits(s)'
    BY <2>2, <1>v DEF RowFits
  <2>6. EndFits(s)'
    BY <2>2 DEF EndFits
  <2>7. IsFiniteSet(Kept') /\ Cardinality(Kept') <= MaxRecords
    <3>1. Kept' \subseteq Kept
      BY <1>4, <1>f DEF Forget, Kept, NoRow
    <3> QED
      BY <3>1, KeptShrinks
  <2> QED
    BY <2>2, <2>3, <2>4, <2>5, <2>6, <2>7, OneReceive
<1>5. CASE Expire(s)
  <2>2. /\ disk'[s] = disk[s] /\ recv'[s] = recv[s]
        /\ (row'[s].kept <=> row[s].kept) /\ row'[s].id = row[s].id
        /\ touched' = touched /\ forgotten' = forgotten
    BY <1>5, <1>f, <1>d DEF Expire, JournalRows
  <2>3. Others
    BY <1>5, <1>f DEF Expire
  <2>4. WriterFits(s)'
    BY <2>2, <1>d, <1>v DEF WriterFits, Publishes
  <2>5. RowFits(s)'
    BY <2>2, <1>d, <1>v DEF RowFits
  <2>6. EndFits(s)'
    BY <2>2, <1>d, <1>v DEF EndFits
  <2>7. IsFiniteSet(Kept') /\ Cardinality(Kept') <= MaxRecords
    <3>1. Kept' \subseteq Kept
      BY <2>2, <2>3 DEF Kept
    <3> QED
      BY <3>1, KeptShrinks
  <2> QED
    BY <2>2, <2>3, <2>4, <2>5, <2>6, <2>7, OneReceive
<1> QED
  BY <1>1, <1>2, <1>3, <1>4, <1>5, <1>6, <1>7 DEF Removal

(* and a kill of the Runtime, which leaves every file and every row.       *)
LEMMA CrashStep ==
    ASSUME IInv, TypeOK', \A t \in Stages : RemovalFits(t)', Crash
    PROVE  IInv'
<1>f. /\ recv \in [Stages -> Receives] /\ disk \in [Stages -> Files]
      /\ row \in [Stages -> JournalRows]
  BY DEF IInv, TypeOK
<1>u. disk' = disk /\ row' = row /\ forgotten' = forgotten
  BY DEF Crash
<1>1. IsFiniteSet(Kept') /\ Cardinality(Kept') <= MaxRecords
  BY <1>u, KeptShrinks DEF Kept
<1>2. ASSUME NEW s \in Stages
      PROVE  WriterFits(s)' /\ RowFits(s)' /\ EndFits(s)'
  <2>1. recv[s] \in Receives /\ WriterFits(s) /\ RowFits(s) /\ EndFits(s)
    BY <1>f DEF IInv
  <2>2. CASE Alive(s)
    <3>1. /\ recv'[s].writer = "dead" /\ recv'[s].cleaner = "ended"
          /\ s \in touched' /\ disk'[s] = disk[s] /\ row'[s] = row[s]
      BY <2>2, <2>1, <1>f, <1>u DEF Crash, Fresh
    <3>2. WriterFits(s)'
      BY <3>1 DEF WriterFits, Publishes
    <3>3. RowFits(s)'
      BY <3>1, <2>1, <1>u DEF RowFits
    <3>4. EndFits(s)'
      BY <3>1 DEF EndFits
    <3> QED
      BY <3>2, <3>3, <3>4
  <2>3. CASE ~Alive(s)
    <3>1. /\ recv'[s] = recv[s] /\ disk'[s] = disk[s] /\ row'[s] = row[s]
          /\ s \in touched' <=> s \in touched
      BY <2>3, <1>f, <1>u DEF Crash
    <3>2. WriterFits(s)'
      BY <3>1, <2>1 DEF WriterFits, Publishes
    <3>3. RowFits(s)'
      BY <3>1, <2>1, <1>u DEF RowFits
    <3>4. EndFits(s)'
      BY <3>1, <2>1 DEF EndFits
    <3> QED
      BY <3>2, <3>3, <3>4
  <2> QED
    BY <2>2, <2>3
<1> QED
  BY <1>1, <1>2, <1>u DEF IInv

(* The first state satisfies the inductive invariant,                      *)
LEMMA StartHolds == Init => IInv
<1> SUFFICES ASSUME Init PROVE IInv
  OBVIOUS
<1>1. TypeOK
  <2>1. [file |-> Absent, linked |-> FALSE, final |-> "none"] \in Files
    BY DEF Files, Absent
  <2>2. NoRow \in JournalRows
    BY DEF NoRow, JournalRows, Absent
  <2>3. Fresh \in Receives
    BY StageAssumption DEF Fresh, Receives
  <2> QED
    BY <2>1, <2>2, <2>3, StageAssumption DEF Init, TypeOK
<1>2. Kept = {}
  BY DEF Init, Kept, NoRow
<1>3. IsFiniteSet(Kept) /\ Cardinality(Kept) <= MaxRecords
  BY <1>2, FS_EmptySet, StageAssumption
<1>4. ASSUME NEW s \in Stages
      PROVE  WriterFits(s) /\ RowFits(s) /\ EndFits(s) /\ RemovalFits(s)
  <2>1. /\ disk[s].file = Absent
        /\ ~row[s].kept /\ row[s].id = Absent
        /\ recv[s].writer = "new" /\ recv[s].cleaner = "none" /\ recv[s].handle = "none"
        /\ recv[s].left = Blocks /\ removing[s] = "no"
    BY DEF Init, NoRow, Fresh
  <2> QED
    BY <2>1 DEF WriterFits, RowFits, EndFits, RemovalFits, Publishes, Absent, Foreign, Own, Created, Moved
<1> QED
  BY <1>1, <1>3, <1>4 DEF IInv, Init

(* each step keeps it,                                                     *)
LEMMA Step == IInv /\ [Next]_vars => IInv'
<1> SUFFICES ASSUME IInv, [Next]_vars PROVE IInv'
  OBVIOUS
<1>1. TypeOK'
  BY TypeStep
<1>0. \A t \in Stages : RemovalFits(t)'
  BY <1>1, RemovalStep
<1>2. CASE UNCHANGED vars
  <2>1. /\ disk' = disk /\ row' = row /\ recv' = recv /\ touched' = touched
        /\ forgotten' = forgotten
    BY <1>2 DEF vars
  <2>2. IsFiniteSet(Kept') /\ Cardinality(Kept') <= MaxRecords
    BY <2>1, KeptShrinks DEF Kept
  <2> QED
    BY <1>0, <1>1, <2>1, <2>2 DEF IInv, WriterFits, RowFits, EndFits, Publishes
<1>3. CASE Crash
  BY <1>0, <1>1, <1>3, CrashStep
<1>4. ASSUME NEW s \in Stages,
             \/ Prepare(s) \/ OpenLands(s) \/ Opened(s) \/ NextWrite(s) \/ WriteLands(s)
             \/ Written(s) \/ Commit(s) \/ PublishLands(s) \/ RemoveLands(s) \/ Committed(s)
      PROVE  IInv'
  BY <1>0, <1>1, <1>4, WriterStep
<1>5. ASSUME NEW s \in Stages,
             \/ Cleanup(s) \/ CreateLands(s) \/ CreatedCloses(s) \/ CleanupRemoves(s)
             \/ CleanupEnds(s)
      PROVE  IInv'
  BY <1>0, <1>1, <1>5, CleanupStep
<1>6. ASSUME NEW s \in Stages,
             \/ Meddle(s) \/ NameTaken(s) \/ Forget(s) \/ Expire(s)
             \/ RemoveStarts(s) \/ Removal(s)
      PROVE  IInv'
  BY <1>0, <1>1, <1>6, UserStep
<1> QED
  BY <1>2, <1>3, <1>4, <1>5, <1>6 DEF Next, Goes, Lands

(* and so it holds of every reachable state.                               *)
LEMMA Invariance == Spec => []IInv
  BY StartHolds, Step, PTL DEF Spec

-----------------------------------------------------------------------------
(* Results                                                                 *)

(* The state of every receive keeps its type.                              *)
THEOREM TypeCorrect == Spec => []TypeOK
<1>1. IInv => TypeOK
  BY DEF IInv
<1> QED
  BY <1>1, Invariance, PTL

(* At every moment, so also after a crash, a stage that the Runtime left   *)
(* on the disk has its row (unless the user had it forgotten), the journal *)
(* is within its limit and no row names a file the receive did not create: *)
(* prepare, seal and clearIfAbsent, whatever clean-up, commit and calls in *)
(* flight they run against.                                                *)
THEOREM EveryStageJournaled == Spec => []Journaled
<1>1. IInv => Journaled
  BY DEF IInv, Journaled, RowFits, Kept, Rows
<1> QED
  BY <1>1, Invariance, PTL

(* A receive that ended without a failure, a crash or the user leaves      *)
(* neither stage nor row, and a committed one its final file.              *)
THEOREM EndsLeaveNothing == Spec => []EndsClean
<1>1. IInv => EndsClean
  BY DEF IInv, EndsClean, IsOver, WriterFits, EndFits
<1> QED
  BY <1>1, Invariance, PTL

(* What removeVerified() unlinks was, at its last look, a stage of the     *)
(* Runtime without another name, whatever other programs and calls in      *)
(* flight did between its looks, and still is unless the path was changed  *)
(* after that look; a final file stays what it was once it is there.       *)
THEOREM OnlyOwnRemoved == Spec => RemovesOwn
<1>1. ASSUME IInv, [Next]_vars
      PROVE  [/\ \A s \in Stages : removing[s] = "checked" /\ removing'[s] = "unlinked" =>
                                    disk[s].file \in Own /\ ~disk[s].linked
              /\ \A s \in Stages : disk[s].final # "none" => disk'[s].final = disk[s].final]_vars
  <2>1. ASSUME NEW s \in Stages, removing[s] = "checked", removing'[s] = "unlinked"
        PROVE  disk[s].file \in Own /\ ~disk[s].linked
    <3>1. removing \in [Stages -> Phases] /\ RemovalFits(s)
      BY <1>1 DEF IInv, TypeOK, Phases
    <3>2. RemoveUnlinks(s)
      <4>1. ASSUME NEW t \in Stages, (Free /\ Goes(t)) \/ Lands(t) \/ Removal(t) \/ Meddle(t)
                                    \/ NameTaken(t) \/ Expire(t)
            PROVE  RemoveUnlinks(t) \/ removing'[s] # "unlinked"
        <5>1. CASE Free
          BY <2>1, <5>1 DEF Free
        <5>2. CASE Lands(t) \/ Meddle(t) \/ NameTaken(t) \/ Expire(t)
          <6>1. removing' = removing \/ Overtaken(t)
            BY <5>2 DEF Lands, OpenLands, WriteLands, PublishLands, RemoveLands, CreateLands,
                        CleanupRemoves, Meddle, NameTaken, Expire, User
          <6> QED
            BY <2>1, <3>1, <6>1 DEF Overtaken
        <5>3. CASE Removal(t)
          BY <2>1, <3>1, <5>3
             DEF Removal, RemoveOpens, RemoveChecks, RemoveUnlinks, RemoveEnds, RemoveThrows,
                 RemovalGoes
        <5> QED
          BY <4>1, <5>1, <5>2, <5>3
      <4>2. PICK t \in Stages : RemoveUnlinks(t)
        BY <1>1, <2>1, <4>1 DEF Next, Crash, vars
      <4> QED
        BY <2>1, <3>1, <4>2 DEF RemoveUnlinks, RemovalGoes
    <3> QED
      BY <2>1, <3>1, <3>2 DEF RemoveUnlinks, RemovalFits
  <2>2. ASSUME NEW s \in Stages, disk[s].final # "none"
        PROVE  disk'[s].final = disk[s].final
    <3>1. disk \in [Stages -> Files]
      BY <1>1 DEF IInv, TypeOK
    <3>2. CASE disk' = disk
      BY <3>2
    <3>3. ASSUME NEW t \in Stages, Unlink(t) PROVE disk'[s].final = disk[s].final
      BY <3>1, <3>3 DEF Unlink, Files
    <3>4. ASSUME NEW t \in Stages, NEW file, disk' = [disk EXCEPT ![t].file = file]
          PROVE  disk'[s].final = disk[s].final
      BY <3>1, <3>4 DEF Files
    <3>5. ASSUME NEW t \in Stages, PublishLands(t) \/ NameTaken(t)
          PROVE  disk'[s].final = disk[s].final
      <4>1. disk[t].final = "none" \/ disk' = disk
        BY <3>5 DEF PublishLands, NameTaken
      <4>2. t # s => disk'[s] = disk[s]
        BY <3>1, <3>5 DEF PublishLands, NameTaken
      <4> QED
        BY <2>2, <4>1, <4>2
    <3>6. ASSUME NEW t \in Stages, NEW file, NEW linked,
                 disk' = [disk EXCEPT ![t].file = file, ![t].linked = linked]
          PROVE  disk'[s].final = disk[s].final
      BY <3>1, <3>6 DEF Files
    <3>7. ASSUME NEW t \in Stages,
                 \/ Prepare(t) \/ OpenLands(t) \/ Opened(t) \/ NextWrite(t) \/ WriteLands(t)
                 \/ Written(t) \/ Commit(t) \/ Committed(t)
          PROVE  disk'[s].final = disk[s].final
      BY <3>2, <3>4, <3>7
         DEF Prepare, OpenLands, Opened, NextWrite, WriteLands, Written, Commit, Committed
    <3>8. ASSUME NEW t \in Stages,
                 \/ RemoveLands(t) \/ Cleanup(t) \/ CreateLands(t) \/ CreatedCloses(t)
                 \/ CleanupRemoves(t) \/ CleanupEnds(t)
          PROVE  disk'[s].final = disk[s].final
      BY <3>2, <3>3, <3>4, <3>8
         DEF RemoveLands, Cleanup, CreateLands, CreatedCloses, CleanupRemoves, CleanupEnds
    <3>9. ASSUME NEW t \in Stages, Meddle(t) \/ Forget(t) \/ Expire(t)
          PROVE  disk'[s].final = disk[s].final
      BY <3>2, <3>6, <3>9 DEF Meddle, Forget, Expire
    <3>11. ASSUME NEW t \in Stages, RemoveStarts(t) \/ Removal(t)
          PROVE  disk'[s].final = disk[s].final
      BY <3>2, <3>3, <3>11
         DEF RemoveStarts, Removal, RemoveOpens, RemoveChecks, RemoveUnlinks, RemoveEnds,
             RemoveThrows
    <3>10. CASE Crash \/ UNCHANGED vars
      BY <3>2, <3>10 DEF Crash, vars
    <3> QED
      BY <1>1, <3>5, <3>7, <3>8, <3>9, <3>10, <3>11 DEF Next, Goes, Lands
  <2> QED
    BY <2>1, <2>2
<1> QED
  BY <1>1, Invariance, PTL DEF Spec, RemovesOwn

=============================================================================
