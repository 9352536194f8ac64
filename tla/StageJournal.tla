---------------------------- MODULE StageJournal ----------------------------
(***************************************************************************)
(* The stages of files received over a terminal: ZmodemReceiveFile and     *)
(* StagedTrzszWriter write a private .part file, publish it under its      *)
(* final name and remove it, and OwnedStageJournal keeps a durable row of  *)
(* it, so that after a crash the user may have it removed.                 *)
(*                                                                         *)
(* The end of a session (cancel, timeout, error, shutdown) cleans up       *)
(* while a write or the publication may still be in flight. A call to the  *)
(* file system lands in one action and its continuation runs in another: a *)
(* crash may strike between any two. The journal's own calls are           *)
(* synchronous: while removeVerified() goes through its checks no other    *)
(* continuation runs, but calls in flight land and other programs act.     *)
(***************************************************************************)
EXTENDS Naturals, FiniteSets

CONSTANTS
  Stages,      \* receives of a behaviour, each with a name of its own
  Blocks,      \* writes that complete a file
  MaxRecords,  \* rows the journal keeps (4096)
  MaxCrashes   \* bound: kills of the Runtime

\* An empty file, which commit() opens itself, is left out.
ASSUME StageAssumption ==
  Blocks \in Nat \ {0} /\ MaxRecords \in Nat /\ MaxCrashes \in Nat

VARIABLES
  disk,     \* of each stage: the file at its path, a second link, the final file
  row,      \* of each stage: the row of the journal
  recv,     \* of each stage: where its writer and its clean-up are
  crashes,
  touched,  \* history: crashed, removed or forgotten by the user before its end
  forgotten,\* history: the user had the row forgotten
  removing  \* of each stage: how far removeVerified() is with it

vars == <<disk, row, recv, crashes, touched, forgotten, removing>>

----------------------------------------------------------------------------
\* File identities: none, the stage's when created, the one a FAT volume gives it
\* with its first bytes, a file that somebody else put at the path.
Absent == 0
Created == 1
Moved == 2
Foreign == 3
Own == {Created, Moved}

NoRow == [kept |-> FALSE, id |-> Absent, old |-> FALSE]
Prepared == [kept |-> TRUE, id |-> Absent, old |-> FALSE]

Fresh == [writer |-> "new", cleaner |-> "none", handle |-> "none",
          left |-> Blocks, failed |-> FALSE]

Init ==
  /\ disk = [s \in Stages |-> [file |-> Absent, linked |-> FALSE, final |-> "none"]]
  /\ row = [s \in Stages |-> NoRow]
  /\ recv = [s \in Stages |-> Fresh]
  /\ crashes = 0
  /\ touched = {} /\ forgotten = {}
  /\ removing = [s \in Stages |-> "no"]

User == <<crashes, touched, forgotten, removing>>

\* The one thread of the Runtime is not inside removeVerified().
Free == \A s \in Stages : removing[s] = "no"

----------------------------------------------------------------------------
(* The journal.                                                            *)

Rows == Cardinality({s \in Stages : row[s].kept})

\* stage_name is UNIQUE, and the journal is never made larger than its limit.
InsertOrReplace(s) == Cardinality({t \in Stages \ {s} : row[t].kept}) >= MaxRecords
PrepareRefused(s) == row[s].kept \/ Rows >= MaxRecords

\* seal() takes a file that is still linked once and a row that is still there.
SealFails(s) == disk[s].file = Absent \/ disk[s].linked \/ ~row[s].kept
Seal(s) == row' = [row EXCEPT ![s].id = disk[s].file]

ClearIfAbsent(s) == row' = IF disk[s].file = Absent THEN [row EXCEPT ![s] = NoRow] ELSE row

\* metadata() of the path, or of the opened file, compared with the row.
SameFile(s) ==
  disk[s].file # Absent /\ ~disk[s].linked /\ disk[s].file = row[s].id

----------------------------------------------------------------------------
(* ensureOpen(), write() and commit().                                     *)

Writer(s, from, to) ==
  recv[s].writer = from /\ recv' = [recv EXCEPT ![s].writer = to]

\* The session goes on with the file only until it ends.
Going(s) == recv[s].cleaner = "none"

Prepare(s) ==
  /\ Going(s)
  /\ IF PrepareRefused(s)
     THEN Writer(s, "new", "failed") /\ UNCHANGED row
     ELSE Writer(s, "new", "opening") /\ row' = [row EXCEPT ![s] = Prepared]
  /\ UNCHANGED <<disk, User>>

\* open() with O_EXCL; when it fails the row goes.
OpenLands(s) ==
  /\ \/ /\ disk[s].file = Absent
        /\ Writer(s, "opening", "opened")
        /\ disk' = [disk EXCEPT ![s].file = Created]
        /\ UNCHANGED row
     \/ /\ Free
        /\ Writer(s, "opening", "failed")
        /\ ClearIfAbsent(s)
        /\ UNCHANGED disk
  /\ UNCHANGED User

Opened(s) ==
  /\ recv[s].writer = "opened"
  /\ recv' = [recv EXCEPT ![s].handle = "open",
                          ![s].writer = IF SealFails(s) THEN "failed" ELSE "writing"]
  /\ IF SealFails(s) THEN ClearIfAbsent(s) ELSE Seal(s)
  /\ UNCHANGED <<disk, User>>

NextWrite(s) ==
  /\ Going(s) /\ recv[s].left > 0
  /\ Writer(s, "open", "writing")
  /\ UNCHANGED <<disk, row, User>>

\* The first bytes may give the file another identity.
WriteLands(s) ==
  /\ recv[s].writer = "writing"
  /\ \/ /\ recv' = [recv EXCEPT ![s].writer = "written", ![s].left = @ - 1]
        /\ \/ UNCHANGED disk
           \/ /\ recv[s].left = Blocks /\ disk[s].file = Created
              /\ disk' = [disk EXCEPT ![s].file = Moved]
     \/ recv[s].cleaner # "closing" /\ Writer(s, "writing", "failed") /\ UNCHANGED disk
  /\ UNCHANGED <<row, User>>

\* The continuation of the write: under a clean-up that closes the handle the
\* descriptor is gone, so that seal() throws.
Written(s) ==
  /\ recv[s].writer = "written"
  /\ IF recv[s].cleaner = "closing"
     THEN /\ recv' = [recv EXCEPT ![s].writer = "stopped", ![s].handle = "closed",
                                  ![s].cleaner = "unlinking"]
          /\ UNCHANGED row
     ELSE IF SealFails(s) THEN Writer(s, "written", "failed") /\ UNCHANGED row
     ELSE /\ Writer(s, "written", IF Going(s) THEN "open" ELSE "stopped")
          /\ Seal(s)
  /\ UNCHANGED <<disk, User>>

\* commit() refuses a file shorter than the offer.
Commit(s) ==
  /\ Going(s) /\ recv[s].writer = "open"
  /\ recv' = [recv EXCEPT
       ![s].writer = IF recv[s].left > 0 THEN "failed" ELSE "publishing",
       ![s].handle = IF recv[s].left > 0 THEN @ ELSE "closed"]
  /\ UNCHANGED <<disk, row, User>>

\* Somebody changed what is at the path after removeVerified() had checked it for
\* the last time.
Overtaken(s) == removing' = [removing EXCEPT ![s] = IF @ = "checked" THEN "raced" ELSE @]

\* publishStagedFile: link(), or a rename where links are not supported; neither
\* replaces a file.
PublishLands(s) ==
  /\ \/ /\ disk[s].file # Absent /\ disk[s].final = "none"
        /\ Writer(s, "publishing", "published")
        /\ \/ disk' = [disk EXCEPT ![s].final = "whole", ![s].linked = TRUE]
           \/ disk' = [disk EXCEPT ![s].final = "whole", ![s].file = Absent]
     \/ Writer(s, "publishing", "failed") /\ UNCHANGED disk
  /\ Overtaken(s)
  /\ UNCHANGED <<row, crashes, touched, forgotten>>

Unlink(s) ==
  disk' = [disk EXCEPT ![s].file = Absent, ![s].linked = FALSE]

RemoveLands(s) ==
  /\ \/ Writer(s, "published", "removed") /\ Unlink(s)
     \/ disk[s].file # Absent /\ Writer(s, "published", "failed") /\ UNCHANGED disk
  /\ UNCHANGED <<row, User>>

Committed(s) ==
  /\ Writer(s, "removed", "done")
  /\ ClearIfAbsent(s)
  /\ UNCHANGED <<disk, User>>

----------------------------------------------------------------------------
(* cleanup(), deleteFile(): the session ends or the writer failed.         *)

\* close() opens the stage first when it has no handle.
CloseStarts(s) ==
  LET r == recv[s]
  IN CASE r.handle = "open" /\ r.writer \in {"writing", "written"} ->
            /\ recv' = [recv EXCEPT ![s].cleaner = "closing"]
            /\ UNCHANGED row
       [] r.handle # "none" /\ r.writer \notin {"writing", "written"} ->
            /\ recv' = [recv EXCEPT ![s].cleaner = "unlinking", ![s].handle = "closed"]
            /\ UNCHANGED row
       [] r.handle = "none" /\ PrepareRefused(s) ->
            /\ recv' = [recv EXCEPT ![s].cleaner = "unlinking", ![s].failed = TRUE]
            /\ UNCHANGED row
       [] OTHER ->
            /\ recv' = [recv EXCEPT ![s].cleaner = "creating"]
            /\ row' = [row EXCEPT ![s] = Prepared]

Cleanup(s) ==
  /\ Going(s) /\ recv[s].writer \notin {"done", "dead"}
  /\ CloseStarts(s)
  /\ UNCHANGED <<disk, User>>

CreateLands(s) ==
  /\ recv[s].cleaner = "creating"
  /\ \/ /\ disk[s].file = Absent
        /\ disk' = [disk EXCEPT ![s].file = Created]
        /\ recv' = [recv EXCEPT ![s].cleaner = "created"]
        /\ UNCHANGED row
     \/ /\ Free
        /\ recv' = [recv EXCEPT ![s].cleaner = "unlinking", ![s].failed = TRUE]
        /\ ClearIfAbsent(s)
        /\ UNCHANGED disk
  /\ UNCHANGED User

CreatedCloses(s) ==
  /\ recv[s].cleaner = "created"
  /\ recv' = [recv EXCEPT ![s].cleaner = "unlinking", ![s].failed = @ \/ SealFails(s),
                          ![s].handle = IF SealFails(s) THEN "open" ELSE "closed"]
  /\ IF SealFails(s) THEN ClearIfAbsent(s) ELSE Seal(s)
  /\ UNCHANGED <<disk, User>>

CleanupRemoves(s) ==
  /\ recv[s].cleaner = "unlinking"
  /\ \/ recv' = [recv EXCEPT ![s].cleaner = "unlinked"] /\ Unlink(s)
     \/ /\ recv' = [recv EXCEPT ![s].cleaner = "ended", ![s].failed = TRUE]
        /\ disk[s].file # Absent /\ UNCHANGED disk
  /\ UNCHANGED <<row, User>>

NeverReports(s) == FALSE
Reports(s) == recv[s].failed

CleanupEnds(s) ==
  /\ recv[s].cleaner = "unlinked"
  /\ recv' = [recv EXCEPT ![s].cleaner = "ended"]
  /\ IF Reports(s) THEN UNCHANGED row ELSE ClearIfAbsent(s)
  /\ UNCHANGED <<disk, User>>

----------------------------------------------------------------------------
(* A kill of the Runtime, other programs, and what the user asks for.      *)

Alive(s) == recv[s].writer \in {"opening", "opened", "open", "writing", "written",
                                "failed", "publishing", "published", "removed"}
            \/ recv[s].cleaner \notin {"none", "ended"}

\* What the process knew of a receive is gone; a removal that is not committed is
\* rolled back.
Crash ==
  /\ crashes < MaxCrashes
  /\ ~Free \/ \E s \in Stages : Alive(s)
  /\ crashes' = crashes + 1
  /\ recv' = [s \in Stages |->
               IF Alive(s) THEN [Fresh EXCEPT !.writer = "dead", !.cleaner = "ended"]
               ELSE recv[s]]
  /\ touched' = touched \cup {s \in Stages : Alive(s)}
  /\ removing' = [s \in Stages |-> "no"]
  /\ UNCHANGED <<disk, row, forgotten>>

\* What is left after a crash may be deleted, replaced, or linked elsewhere, and a
\* file put where there was none.
Meddle(s) ==
  /\ recv[s].writer = "dead"
  /\ \E file \in {Absent, disk[s].file, Foreign}, linked \in BOOLEAN :
       /\ file = Absent => ~linked
       /\ disk' = [disk EXCEPT ![s].file = file, ![s].linked = linked]
  /\ Overtaken(s)
  /\ UNCHANGED <<row, recv, crashes, touched, forgotten>>

\* The name chosen for the final file is taken before it is published.
NameTaken(s) ==
  /\ disk[s].final = "none" /\ recv[s].writer \notin {"done", "dead"}
  /\ disk' = [disk EXCEPT ![s].final = "foreign"]
  /\ UNCHANGED <<row, recv, User>>

\* removeVerified(), one look at the file system after the other: the metadata of the
\* path, the file that is opened there, the metadata of the path again, the removal of
\* whatever is there then, and clearIfAbsent(). A receive that is not over is not spared.
RemovalGoes(s, from, to) ==
  removing[s] = from /\ removing' = [removing EXCEPT ![s] = to]

RemoveStarts(s) ==
  /\ row[s].kept /\ ~row[s].old /\ SameFile(s)
  /\ RemovalGoes(s, "no", "found")
  /\ UNCHANGED <<disk, row, recv, crashes, touched, forgotten>>

RemoveOpens(s) ==
  /\ SameFile(s)
  /\ RemovalGoes(s, "found", "opened")
  /\ UNCHANGED <<disk, row, recv, crashes, touched, forgotten>>

TrustsOpened(s) ==
  /\ disk[s].file # Absent
  /\ RemovalGoes(s, "opened", "checked")
  /\ UNCHANGED <<disk, row, recv, crashes, touched, forgotten>>

RemoveChecks(s) ==
  /\ SameFile(s)
  /\ RemovalGoes(s, "opened", "checked")
  /\ UNCHANGED <<disk, row, recv, crashes, touched, forgotten>>

RemoveUnlinks(s) ==
  /\ disk[s].file # Absent
  /\ RemovalGoes(s, "checked", "unlinked") \/ RemovalGoes(s, "raced", "unlinked")
  /\ Unlink(s)
  /\ touched' = touched \cup {s}
  /\ UNCHANGED <<row, recv, crashes, forgotten>>

RemoveEnds(s) ==
  /\ RemovalGoes(s, "unlinked", "no")
  /\ ClearIfAbsent(s)
  /\ UNCHANGED <<disk, recv, crashes, touched, forgotten>>

\* A check fails, or one of the calls does: the row stays, a file unlinked is gone.
RemoveThrows(s) ==
  /\ removing[s] # "no"
  /\ RemovalGoes(s, removing[s], "no")
  /\ UNCHANGED <<disk, row, recv, crashes, touched, forgotten>>

\* forget() leaves the file alone.
Forget(s) ==
  /\ row[s].kept
  /\ row' = [row EXCEPT ![s] = NoRow]
  /\ forgotten' = forgotten \cup {s} /\ touched' = touched \cup {s}
  /\ UNCHANGED <<disk, recv, crashes, removing>>

\* Thirty days have passed: a row of a receive that is long over.
Expire(s) ==
  /\ row[s].kept /\ recv[s].writer = "dead"
  /\ row' = [row EXCEPT ![s].old = TRUE]
  /\ UNCHANGED <<disk, recv, User>>

----------------------------------------------------------------------------
\* The thread of the Runtime goes on: a call, a continuation.
Goes(s) ==
  \/ Prepare(s) \/ Opened(s) \/ NextWrite(s) \/ Written(s) \/ Commit(s) \/ Committed(s)
  \/ Cleanup(s) \/ CreatedCloses(s) \/ CleanupEnds(s)
  \/ RemoveStarts(s) \/ Forget(s)

\* A call to the file system lands.
Lands(s) ==
  \/ OpenLands(s) \/ WriteLands(s) \/ PublishLands(s) \/ RemoveLands(s)
  \/ CreateLands(s) \/ CleanupRemoves(s)

Removal(s) ==
  \/ RemoveOpens(s) \/ RemoveChecks(s) \/ RemoveUnlinks(s) \/ RemoveEnds(s)
  \/ RemoveThrows(s)

Next ==
  \/ \E s \in Stages :
       \/ Free /\ Goes(s)
       \/ Lands(s) \/ Removal(s)
       \/ Meddle(s) \/ NameTaken(s) \/ Expire(s)
  \/ Crash

Spec == Init /\ [][Next]_vars

----------------------------------------------------------------------------
Files == [file : 0 .. 3, linked : BOOLEAN, final : {"none", "whole", "foreign"}]
JournalRows == [kept : BOOLEAN, id : 0 .. 3, old : BOOLEAN]
Receives ==
  [writer : {"new", "opening", "opened", "open", "writing", "written", "publishing",
             "published", "removed", "done", "failed", "stopped", "dead"},
   cleaner : {"none", "creating", "created", "closing", "unlinking", "unlinked", "ended"},
   handle : {"none", "open", "closed"}, left : 0 .. Blocks, failed : BOOLEAN]

TypeOK ==
  /\ disk \in [Stages -> Files] /\ row \in [Stages -> JournalRows]
  /\ recv \in [Stages -> Receives]
  /\ crashes \in 0 .. MaxCrashes
  /\ touched \subseteq Stages /\ forgotten \subseteq touched
  /\ removing \in [Stages -> {"no", "found", "opened", "checked", "raced", "unlinked"}]

\* At every moment, so also after a crash: a stage that the Runtime left on the
\* disk has its row, unless the user had it forgotten, within the journal's
\* limit; a row never names a file the receive did not create (prepare, seal,
\* clearIfAbsent against cleanup, commit and the calls in flight).
Journaled ==
  /\ TypeOK /\ Rows <= MaxRecords
  /\ \A s \in Stages : /\ disk[s].file \in Own => row[s].kept \/ s \in forgotten
                       /\ row[s].id # Foreign

\* A receive whose clean-up reported no failure, that no crash and no user
\* touched, leaves neither a stage nor a row, however its end and the calls in
\* flight came together; one that was committed has its final file and no stage.
IsOver(s) ==
  /\ recv[s].writer \in {"stopped", "failed", "new", "open", "done"}
  /\ recv[s].cleaner = "ended" \/ (recv[s].cleaner = "none" /\ recv[s].writer = "done")
EndsClean ==
  \A s \in Stages :
    /\ IsOver(s) /\ ~recv[s].failed /\ s \notin touched
         => disk[s].file = Absent /\ ~row[s].kept
    /\ recv[s].writer = "done" => disk[s].final = "whole" /\ disk[s].file = Absent

\* What the user confirms to remove is a stage of the Runtime that has no other
\* name: removeVerified() never unlinks somebody else's file, nor a stage that is also
\* linked elsewhere, as after a kill between the publication and its unlink. Other
\* programs and calls in flight may change the path before, between and after its first
\* two looks at the file. Between its last look and unlink() nothing protects the path:
\* what was put there just then ("raced") goes. A final file stays what it was.
RemovesOwn ==
  [][/\ \A s \in Stages : removing[s] = "checked" /\ removing'[s] = "unlinked" =>
                          disk[s].file \in Own /\ ~disk[s].linked
     /\ \A s \in Stages : disk[s].final # "none" => disk'[s].final = disk[s].final]_vars
=============================================================================
