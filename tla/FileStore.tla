----------------------------- MODULE FileStore -----------------------------
(***************************************************************************)
(* The user files of internal/service/file_svc.go: a row in the table      *)
(* `files` and a file on disk, two stores without a common transaction, on *)
(* which several replicas work.                                            *)
(*                                                                         *)
(*   upload: write -> save -> ok, or save -> cleanup -> failed             *)
(*   delete: lock -> guard -> commit -> remove -> ok                       *)
(*                                                                         *)
(* A request that is answered keeps its answer, ok or failed, until its    *)
(* connection carries the next one.  The checks of size and MIME type come *)
(* before the first step and are left out.                                 *)
(***************************************************************************)
EXTENDS Environment

CONSTANTS Users, FileIds, Handlers, Procs, Nobody

ASSUME NobodyAssumption == Nobody \notin Handlers

VARIABLES files,          \* table files
          rowLock,        \* the transaction that holds the row for update
          disk,           \* the file at storage_path
          fileMu,         \* fileMu of each process
          req             \* the request of each connection

vars == <<spent, files, rowLock, disk, fileMu, req>>

Unused == [status |-> "unused"]
FileRow == [status : {"stored", "gone"}, owner : Users]

Done == {"ok", "failed"}
UploadPC == {"write", "save", "cleanup"}
DeletePC == {"lock", "guard", "commit", "remove"}
Idle == [pc |-> "idle"]
Request == [pc : UploadPC \cup DeletePC \cup Done, op : {"upload", "delete"},
            proc : Procs, user : Users, file : FileIds]

\* A file is "partial" after a write that failed, and "lost" when a workload
\* container, which mounts the user's folder, has removed it.
TypeOK ==
  /\ spent \in [Budgets -> Nat]
  /\ files \in [FileIds -> FileRow \cup {Unused}]
  /\ rowLock \in [FileIds -> Handlers \cup {Nobody}]
  /\ disk \in [FileIds -> {"none", "partial", "whole", "lost"}]
  /\ fileMu \in [Procs -> [FileIds -> Handlers \cup {Nobody}]]
  /\ req \in [Handlers -> Request \cup {Idle}]

Init == /\ EnvInit
        /\ files = [f \in FileIds |-> Unused]
        /\ rowLock = [f \in FileIds |-> Nobody]
        /\ disk = [f \in FileIds |-> "none"]
        /\ fileMu = [p \in Procs |-> [f \in FileIds |-> Nobody]]
        /\ req = [h \in Handlers |-> Idle]

-----------------------------------------------------------------------------
Serving(h) == req[h].pc \in UploadPC \cup DeletePC

Stored(f) == files[f].status = "stored"
OnDisk(f) == disk[f] \in {"partial", "whole"}

Goto(h, pc) == req' = [req EXCEPT ![h] = [@ EXCEPT !.pc = pc]]

\* The deferred mu.Unlock() of Delete, and the answer.
Unlock(h) == fileMu' = [fileMu EXCEPT ![req[h].proc] = [@ EXCEPT ![req[h].file] = Nobody]]

WriteDisk(f, content) == disk' = [disk EXCEPT ![f] = content]

\* os.Remove; a file that is not there is an error the callers tolerate.
RemoveFromDisk(f) == IF OnDisk(f) THEN WriteDisk(f, "none") ELSE UNCHANGED disk

\* uuid.New()
FreshFiles == {f \in FileIds : /\ files[f].status = "unused"
                               /\ disk[f] = "none"
                               /\ \A h \in Handlers : Serving(h) => req[h].file # f}

-----------------------------------------------------------------------------
(* Upload *)

Upload(h) ==
  /\ ~Serving(h)
  /\ \E p \in Procs, u \in Users, f \in FreshFiles :
       req' = [req EXCEPT ![h] = [pc |-> "write", op |-> "upload", proc |-> p,
                                  user |-> u, file |-> f]]
  /\ UNCHANGED <<spent, files, rowLock, disk, fileMu>>

\* MkdirAll and WriteFile.  A write that fails leaves what it wrote.
WriteFile(h) ==
  LET f == req[h].file IN
  /\ req[h].pc = "write"
  /\ \/ NoFault /\ WriteDisk(f, "whole") /\ Goto(h, "save")
     \/ Fault /\ (UNCHANGED disk \/ WriteDisk(f, "partial")) /\ Goto(h, "failed")
  /\ UNCHANGED <<files, rowLock, fileMu>>

\* Mutant of SaveRow: the error of the INSERT is not looked at.
SaveRowUnchecked(h) ==
  LET f == req[h].file IN
  /\ req[h].pc = "save"
  /\ \/ NoFault /\ files' = [files EXCEPT ![f] = [status |-> "stored", owner |-> req[h].user]]
     \/ Fault /\ UNCHANGED files
  /\ Goto(h, "ok")
  /\ UNCHANGED <<rowLock, disk, fileMu>>

\* INSERT INTO files; an error may follow a statement that took effect.
SaveRow(h) ==
  LET f == req[h].file
      insert == files' = [files EXCEPT ![f] = [status |-> "stored", owner |-> req[h].user]]
  IN
  /\ req[h].pc = "save"
  /\ \/ NoFault /\ insert /\ Goto(h, "ok")
     \/ Fault /\ (UNCHANGED files \/ insert) /\ Goto(h, "cleanup")
  /\ UNCHANGED <<rowLock, disk, fileMu>>

\* The best-effort os.Remove after a failed INSERT.
CleanUp(h) ==
  /\ req[h].pc = "cleanup"
  /\ Goto(h, "failed")
  /\ \/ NoFault /\ RemoveFromDisk(req[h].file)
     \/ Fault /\ UNCHANGED disk
  /\ UNCHANGED <<files, rowLock, fileMu>>

-----------------------------------------------------------------------------
(* Delete *)

\* A client may name any id, also one that no file has.
Delete(h) ==
  /\ ~Serving(h)
  /\ \E p \in Procs, u \in Users, f \in FileIds :
       req' = [req EXCEPT ![h] = [pc |-> "lock", op |-> "delete", proc |-> p,
                                  user |-> u, file |-> f]]
  /\ UNCHANGED <<spent, files, rowLock, disk, fileMu>>

Lock(h) ==
  LET p == req[h].proc
      f == req[h].file
  IN
  /\ req[h].pc = "lock"
  /\ fileMu[p][f] = Nobody
  /\ fileMu' = [fileMu EXCEPT ![p] = [@ EXCEPT ![f] = h]]
  /\ Goto(h, "guard")
  /\ UNCHANGED <<spent, files, rowLock, disk>>

\* Mutants of Accepts: no owner check, and a missing row taken for success.
AcceptsAnyone(u, f) == Stored(f)
AcceptsMissing(u, f) == Stored(f) => files[f].owner = u

Accepts(u, f) == Stored(f) /\ files[f].owner = u

\* Mutant of Guard: a plain SELECT, and the count of deleted rows not looked at.
GuardWithoutRowLock(h) ==
  LET r == req[h] IN
  /\ r.pc = "guard"
  /\ NoFault
  /\ IF Accepts(r.user, r.file) THEN Goto(h, "commit") /\ UNCHANGED fileMu
     ELSE Goto(h, "failed") /\ Unlock(h)
  /\ UNCHANGED <<files, rowLock, disk>>

\* Mutant of Guard: the file is removed inside the transaction.
GuardRemovesFile(h) ==
  LET r == req[h] IN
  /\ r.pc = "guard"
  /\ rowLock[r.file] = Nobody
  /\ NoFault
  /\ IF Accepts(r.user, r.file)
     THEN /\ rowLock' = [rowLock EXCEPT ![r.file] = h]
          /\ RemoveFromDisk(r.file)
          /\ Goto(h, "commit")
          /\ UNCHANGED fileMu
     ELSE Goto(h, "failed") /\ Unlock(h) /\ UNCHANGED <<rowLock, disk>>
  /\ UNCHANGED files

\* BEGIN, SELECT ... FOR UPDATE and DELETE, which others see after the COMMIT.
\* The lock it waits for is held until then, so that the row it reads is final.
Guard(h) ==
  LET r == req[h] IN
  /\ r.pc = "guard"
  /\ rowLock[r.file] = Nobody
  /\ \/ /\ NoFault
        /\ Accepts(r.user, r.file)
        /\ rowLock' = [rowLock EXCEPT ![r.file] = h]
        /\ Goto(h, "commit")
        /\ UNCHANGED fileMu
     \/ /\ \/ Fault
           \/ NoFault /\ ~Accepts(r.user, r.file)
        /\ UNCHANGED rowLock
        /\ Goto(h, "failed") /\ Unlock(h)
  /\ UNCHANGED <<files, disk>>

\* Mutant of Commit: its error is not looked at.
CommitUnchecked(h) ==
  LET f == req[h].file IN
  /\ req[h].pc = "commit"
  /\ rowLock' = [rowLock EXCEPT ![f] = Nobody]
  /\ \/ NoFault /\ files' = [files EXCEPT ![f] = [@ EXCEPT !.status = "gone"]]
     \/ Fault /\ UNCHANGED files
  /\ Goto(h, "remove")
  /\ UNCHANGED <<disk, fileMu>>

\* COMMIT; when it returns an error the row may be gone all the same.
Commit(h) ==
  LET f == req[h].file
      delete == files' = [files EXCEPT ![f] = [@ EXCEPT !.status = "gone"]]
  IN
  /\ req[h].pc = "commit"
  /\ rowLock' = [rowLock EXCEPT ![f] = Nobody]
  /\ \/ NoFault /\ delete /\ Goto(h, "remove") /\ UNCHANGED fileMu
     \/ Fault /\ (UNCHANGED files \/ delete) /\ Goto(h, "failed") /\ Unlock(h)
  /\ UNCHANGED disk

\* Mutant of RemoveFile: the error of os.Remove is dropped, as in CleanUp.
RemoveBestEffort(h) ==
  /\ req[h].pc = "remove"
  /\ \/ NoFault /\ RemoveFromDisk(req[h].file)
     \/ Fault /\ UNCHANGED disk
  /\ Goto(h, "ok") /\ Unlock(h)
  /\ UNCHANGED <<files, rowLock>>

\* Mutant of RemoveFile: the file stays.
RemoveNothing(h) ==
  /\ req[h].pc = "remove"
  /\ Goto(h, "ok") /\ Unlock(h)
  /\ UNCHANGED <<spent, files, rowLock, disk>>

\* os.Remove after the COMMIT.
RemoveFile(h) ==
  /\ req[h].pc = "remove"
  /\ \/ NoFault /\ RemoveFromDisk(req[h].file) /\ Goto(h, "ok")
     \/ Fault /\ UNCHANGED disk /\ Goto(h, "failed")
  /\ Unlock(h)
  /\ UNCHANGED <<files, rowLock>>

-----------------------------------------------------------------------------
\* A process dies: its requests and mutexes are gone and its transactions are
\* rolled back; a file it was writing may be there in part.
Crash(p) ==
  LET lost == {h \in Handlers : Serving(h) /\ req[h].proc = p}
      writing == {req[h].file : h \in {k \in lost : req[k].pc = "write"}}
  IN
  /\ Spend("crashes")
  /\ \E half \in SUBSET writing :
       disk' = [f \in FileIds |-> IF f \in half THEN "partial" ELSE disk[f]]
  /\ req' = [h \in Handlers |-> IF h \in lost THEN Idle ELSE req[h]]
  /\ rowLock' = [f \in FileIds |-> IF rowLock[f] \in lost THEN Nobody ELSE rowLock[f]]
  /\ fileMu' = [fileMu EXCEPT ![p] = [f \in FileIds |-> Nobody]]
  /\ UNCHANGED files

\* A workload container removes a file of the folder it mounts.
WorkloadRemoves(f) ==
  /\ disk[f] = "whole"
  /\ Spend("removals")
  /\ WriteDisk(f, "lost")
  /\ UNCHANGED <<files, rowLock, fileMu, req>>

Next ==
  \/ \E h \in Handlers :
       \/ Upload(h) \/ WriteFile(h) \/ SaveRow(h) \/ CleanUp(h)
       \/ Delete(h) \/ Lock(h) \/ Guard(h) \/ Commit(h) \/ RemoveFile(h)
  \/ \E p \in Procs : Crash(p)
  \/ \E f \in FileIds : WorkloadRemoves(f)

Spec == Init /\ [][Next]_vars

-----------------------------------------------------------------------------
\* A row in the table has its file, unless a workload took it: the file is
\* written before the INSERT and removed after the COMMIT, whatever replica
\* crashes in between.  (A lost reply of the INSERT breaks this: the clean-up
\* then removes the file of a row that is there.)
RowHasFile ==
  spent["faults"] = 0 =>
    \A f \in FileIds : Stored(f) => disk[f] \in {"whole", "lost"}

\* The disk keeps no file without a row, but for one an upload or a delete is
\* about to deal with, as long as nothing fails or crashes.
NoStrayFile ==
  spent["faults"] = 0 /\ spent["crashes"] = 0 =>
    \A f \in FileIds :
      OnDisk(f) => Stored(f) \/ \E h \in Handlers : /\ req[h].pc \in {"save", "cleanup", "remove"}
                                                    /\ req[h].file = f

\* Of several deletes of one file, in any replicas, at most one gets as far as
\* removing the file and answering 204: the others answer 404.
DeletesOnce ==
  \A h, k \in Handlers :
    /\ req[h].pc \in {"remove", "ok"} /\ req[k].pc \in {"remove", "ok"}
    /\ req[h].op = "delete" /\ req[k].op = "delete"
    /\ req[h].file = req[k].file
    => h = k

\* A row leaves the table only by a delete of its owner: every path to the COMMIT
\* passes the check of the owner.
OnlyOwnersDelete ==
  [][\A f \in FileIds :
       Stored(f) /\ files'[f].status = "gone" =>
         \E h \in Handlers : /\ req[h].pc = "commit" /\ req[h].file = f
                             /\ req[h].user = files[f].owner]_vars
=============================================================================
