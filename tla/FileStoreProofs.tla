-------------------------- MODULE FileStoreProofs --------------------------
(***************************************************************************)
(* Safety of FileStore for any number of users, files, clients, replicas,  *)
(* faults, crashes and removals.                                           *)
(***************************************************************************)
EXTENDS FileRefinement, TLAPS

\* Uploads run the steps of Upload, deletes those of Delete.
OpOK == \A h \in Handlers : /\ req[h].pc \in UploadPC => req[h].op = "upload"
                            /\ req[h].pc \in DeletePC => req[h].op = "delete"

\* An upload has its file id to itself, and no row of that id exists before its
\* INSERT.
UploadsApart ==
  \A h, k \in Handlers :
    req[h].pc \in UploadPC /\ req[k].pc \in UploadPC /\ req[h].file = req[k].file => h = k
UploadsFresh ==
  \A h \in Handlers :
    /\ req[h].pc \in {"write", "save"} => files[req[h].file].status = "unused"
    /\ req[h].pc = "save" => disk[req[h].file] \in {"whole", "lost"}

\* A delete about to commit holds the lock of a row that is there and belongs to
\* its user.
CommitsLocked ==
  \A h \in Handlers :
    req[h].pc = "commit" =>
      /\ rowLock[req[h].file] = h
      /\ Stored(req[h].file)
      /\ files[req[h].file].owner = req[h].user

\* After the COMMIT the row is gone for good.
RemovesGone ==
  \A h \in Handlers :
    /\ req[h].pc = "remove" => files[req[h].file].status = "gone"
    /\ req[h].pc = "ok" /\ req[h].op = "delete" => files[req[h].file].status = "gone"

\* Without faults no upload cleans up.
NoCleanUp == spent["faults"] = 0 => \A h \in Handlers : req[h].pc # "cleanup"

Inv == /\ TypeOK /\ OpOK /\ UploadsApart /\ UploadsFresh /\ CommitsLocked
       /\ RemovesGone /\ NoCleanUp /\ RowHasFile /\ DeletesOnce

-----------------------------------------------------------------------------
(* Types *)

LEMMA BudgetType ==
  ASSUME spent \in [Budgets -> Nat], NoFault \/ Fault \/ Spend("crashes") \/ Spend("removals")
  PROVE  spent' \in [Budgets -> Nat]
BY DEF NoFault, Fault, Spend, Budgets

LEMMA Fields ==
  ASSUME TypeOK, NEW h \in Handlers, req[h].pc # "idle"
  PROVE  /\ req[h] \in Request
         /\ req[h].file \in FileIds /\ req[h].proc \in Procs /\ req[h].user \in Users
BY DEF TypeOK, Idle, Request

\* A step that moves the request of h on, and leaves its other fields alone.
LEMMA GotoFields ==
  ASSUME TypeOK, NEW h \in Handlers, req[h].pc # "idle",
         NEW pc \in UploadPC \cup DeletePC \cup Done, Goto(h, pc)
  PROVE  /\ req' \in [Handlers -> Request \cup {Idle}]
         /\ req'[h].pc = pc
         /\ req'[h].op = req[h].op /\ req'[h].file = req[h].file /\ req'[h].user = req[h].user
         /\ \A k \in Handlers : k # h => req'[k] = req[k]
<1>1. req[h] \in Request
  BY Fields
<1>2. [req[h] EXCEPT !.pc = pc] \in Request
  BY <1>1 DEF Request
<1>3. req'[h] = [req[h] EXCEPT !.pc = pc]
  BY DEF Goto, TypeOK
<1> QED BY <1>1, <1>2, <1>3 DEF Goto, TypeOK, Request

LEMMA UnlockType ==
  ASSUME TypeOK, NEW h \in Handlers, req[h].pc # "idle", Unlock(h)
  PROVE  fileMu' \in [Procs -> [FileIds -> Handlers \cup {Nobody}]]
<1>1. req[h].proc \in Procs /\ req[h].file \in FileIds
  BY Fields
<1>2. fileMu[req[h].proc] \in [FileIds -> Handlers \cup {Nobody}]
  BY <1>1 DEF TypeOK
<1> QED BY <1>1, <1>2 DEF Unlock, TypeOK

LEMMA TypeInit == Init => TypeOK
BY DEF Init, EnvInit, TypeOK, Budgets, Idle

LEMMA RequestType ==
  ASSUME TypeOK, NEW h \in Handlers, Upload(h) \/ Delete(h)
  PROVE  TypeOK'
<1>1. PICK p \in Procs, u \in Users, f \in FileIds, op \in {"upload", "delete"}, pc \in {"write", "lock"} :
        req' = [req EXCEPT ![h] = [pc |-> pc, op |-> op, proc |-> p, user |-> u, file |-> f]]
  BY DEF Upload, Delete, FreshFiles
<1>2. [pc |-> pc, op |-> op, proc |-> p, user |-> u, file |-> f] \in Request
  BY DEF Request, UploadPC, DeletePC
<1> QED BY <1>1, <1>2 DEF TypeOK, Upload, Delete

LEMMA HandlerType ==
  ASSUME TypeOK, CommitsLocked, NEW h \in Handlers,
         \/ WriteFile(h) \/ SaveRow(h) \/ CleanUp(h)
         \/ Lock(h) \/ Guard(h) \/ Commit(h) \/ RemoveFile(h)
  PROVE  TypeOK'
<1> DEFINE f == req[h].file
<1>1. /\ req[h].pc # "idle"
      /\ f \in FileIds /\ req[h].proc \in Procs /\ req[h].user \in Users
  BY Fields DEF WriteFile, SaveRow, CleanUp, Lock, Guard, Commit, RemoveFile
<1>2. req' \in [Handlers -> Request \cup {Idle}]
  <2>1. \E pc \in UploadPC \cup DeletePC \cup Done : Goto(h, pc)
    BY DEF WriteFile, SaveRow, CleanUp, Lock, Guard, Commit, RemoveFile, UploadPC, DeletePC, Done
  <2> QED BY <1>1, <2>1, GotoFields
<1>3. spent' \in [Budgets -> Nat]
  <2>1. NoFault \/ Fault
    BY DEF WriteFile, SaveRow, CleanUp, Lock, Guard, Commit, RemoveFile, NoFault
  <2> QED BY <2>1, BudgetType DEF TypeOK
<1>4. fileMu' \in [Procs -> [FileIds -> Handlers \cup {Nobody}]]
  <2>1. CASE Lock(h)
    <3>1. fileMu[req[h].proc] \in [FileIds -> Handlers \cup {Nobody}]
      BY <1>1 DEF TypeOK
    <3> QED BY <1>1, <2>1, <3>1 DEF Lock, TypeOK
  <2>2. CASE Unlock(h) \/ UNCHANGED fileMu
    BY <1>1, <2>2, UnlockType DEF TypeOK
  <2> QED BY <2>1, <2>2 DEF WriteFile, SaveRow, CleanUp, Guard, Commit, RemoveFile
<1>5. files' \in [FileIds -> FileRow \cup {Unused}]
  <2>1. CASE SaveRow(h)
    BY <1>1, <2>1 DEF SaveRow, TypeOK, FileRow
  <2>2. CASE UNCHANGED files
    BY <2>2 DEF TypeOK
  <2>3. CASE Commit(h)
    <3>1. files[f] \in FileRow /\ [files[f] EXCEPT !.status = "gone"] \in FileRow
      BY <1>1, <2>3 DEF Commit, CommitsLocked, Stored, TypeOK, FileRow, Unused
    <3> QED BY <1>1, <2>3, <3>1 DEF Commit, TypeOK
  <2> QED BY <2>1, <2>2, <2>3 DEF WriteFile, CleanUp, Lock, Guard, RemoveFile
<1>6. rowLock' \in [FileIds -> Handlers \cup {Nobody}]
  BY <1>1 DEF WriteFile, SaveRow, CleanUp, Lock, Guard, Commit, RemoveFile, TypeOK
<1>7. disk' \in [FileIds -> {"none", "partial", "whole", "lost"}]
  BY <1>1 DEF WriteFile, SaveRow, CleanUp, Lock, Guard, Commit, RemoveFile, TypeOK,
     WriteDisk, RemoveFromDisk
<1> QED BY <1>2, <1>3, <1>4, <1>5, <1>6, <1>7 DEF TypeOK

LEMMA TypeStep ==
  ASSUME TypeOK, CommitsLocked, [Next]_vars
  PROVE  TypeOK'
<1>1. CASE UNCHANGED vars
  BY <1>1 DEF vars, TypeOK
<1>2. ASSUME NEW p \in Procs, Crash(p) PROVE TypeOK'
  BY <1>2, BudgetType DEF Crash, TypeOK, Idle
<1>3. ASSUME NEW f \in FileIds, WorkloadRemoves(f) PROVE TypeOK'
  BY <1>3, BudgetType DEF WorkloadRemoves, WriteDisk, TypeOK
<1> QED BY <1>1, <1>2, <1>3, RequestType, HandlerType DEF Next

-----------------------------------------------------------------------------
(* What one step may do to a request, a row and a file *)

\* The request of h alone moves on, from one step to the next.
Moves(h, from, to) ==
  /\ req[h].pc = from /\ req'[h].pc = to
  /\ req'[h].op = req[h].op /\ req'[h].file = req[h].file /\ req'[h].user = req[h].user
  /\ \A k \in Handlers : k # h => req'[k] = req[k]

Begins(h) ==
  /\ \A k \in Handlers : k # h => req'[k] = req[k]
  /\ UNCHANGED <<files, disk>>
  /\ \/ req'[h].pc = "write" /\ req'[h].op = "upload" /\ req'[h].file \in FreshFiles
     \/ req'[h].pc = "lock" /\ req'[h].op = "delete"

ReqMove(h) ==
  LET f == req[h].file IN
  \/ req'[h] = req[h]
  \/ req'[h] = Idle
  \/ Begins(h)
  \/ Moves(h, "write", "save") /\ disk'[f] = "whole"
  \/ Moves(h, "save", "ok")
  \/ Moves(h, "save", "cleanup") /\ spent'["faults"] # 0
  \/ Moves(h, "lock", "guard")
  \/ /\ Moves(h, "guard", "commit")
     /\ Accepts(req[h].user, f) /\ UNCHANGED files /\ rowLock'[f] = h
  \/ Moves(h, "commit", "remove") /\ files'[f].status = "gone"
  \/ Moves(h, "remove", "ok") /\ disk'[f] \notin {"partial", "whole"}
  \/ \E from \in UploadPC \cup DeletePC : Moves(h, from, "failed")

RowMove(f) ==
  \/ files'[f] = files[f]
  \/ \E h \in Handlers : /\ req[h].pc = "save" /\ req[h].file = f
                         /\ req'[h].pc \in {"ok", "cleanup"}
                         /\ files'[f].status = "stored"
  \/ \E h \in Handlers : /\ req[h].pc = "commit" /\ req[h].file = f
                         /\ req'[h].pc \in {"remove", "failed"}
                         /\ files'[f] = [files[f] EXCEPT !.status = "gone"]

DiskMove(f) ==
  \/ disk'[f] = disk[f]
  \/ disk[f] = "whole" /\ disk'[f] = "lost"
  \/ \E h \in Handlers : req[h].pc = "write" /\ req[h].file = f
  \/ /\ disk'[f] = "none"
     /\ \E h \in Handlers : req[h].pc \in {"cleanup", "remove"} /\ req[h].file = f

\* One handler's step touches its own file only.
LEMMA HandlerMoves ==
  ASSUME TypeOK, NEW h \in Handlers,
         \/ WriteFile(h) \/ SaveRow(h) \/ CleanUp(h)
         \/ Lock(h) \/ Guard(h) \/ Commit(h) \/ RemoveFile(h)
  PROVE  /\ \A k \in Handlers : ReqMove(k)
         /\ \A f \in FileIds : RowMove(f) /\ DiskMove(f)
<1> DEFINE f == req[h].file
<1>1. f \in FileIds /\ req[h].pc # "idle"
  BY Fields DEF WriteFile, SaveRow, CleanUp, Lock, Guard, Commit, RemoveFile
<1>2. ASSUME NEW to \in UploadPC \cup DeletePC \cup Done, Goto(h, to)
      PROVE  Moves(h, req[h].pc, to)
  BY <1>1, <1>2, GotoFields DEF Moves
<1>3. spent \in [Budgets -> Nat] /\ disk \in [FileIds -> {"none", "partial", "whole", "lost"}]
  BY DEF TypeOK
<1>4. Fault => spent'["faults"] # 0
  BY <1>3 DEF Fault, Spend, Budgets
<1>5. RemoveFromDisk(f) => disk'[f] \notin {"partial", "whole"}
  BY <1>1, <1>3 DEF RemoveFromDisk, OnDisk, WriteDisk
<1>6. CASE WriteFile(h)
  <2>1. ReqMove(h) /\ UNCHANGED files
    BY <1>1, <1>2, <1>3, <1>6 DEF WriteFile, ReqMove, WriteDisk, UploadPC, Done
  <2>2. \A g \in FileIds : DiskMove(g)
    BY <1>1, <1>3, <1>6 DEF WriteFile, DiskMove, WriteDisk
  <2>3. \A k \in Handlers : k # h => req'[k] = req[k]
    BY <1>6, <1>2 DEF WriteFile, Moves, UploadPC, Done
  <2> QED BY <2>1, <2>2, <2>3 DEF RowMove, ReqMove
<1>7. CASE SaveRow(h)
  <2>1. /\ ReqMove(h) /\ UNCHANGED disk
        /\ req'[h].pc \in {"ok", "cleanup"}
        /\ \A k \in Handlers : k # h => req'[k] = req[k]
    BY <1>1, <1>2, <1>4, <1>7 DEF SaveRow, ReqMove, Moves, UploadPC, Done
  <2>2. \A g \in FileIds : RowMove(g)
    BY <1>1, <1>7, <2>1 DEF SaveRow, RowMove, TypeOK
  <2> QED BY <2>1, <2>2 DEF DiskMove, ReqMove
<1>8. CASE CleanUp(h)
  <2>1. /\ ReqMove(h) /\ UNCHANGED files
        /\ \A k \in Handlers : k # h => req'[k] = req[k]
    BY <1>1, <1>2, <1>8 DEF CleanUp, ReqMove, Moves, UploadPC, Done
  <2>2. \A g \in FileIds : DiskMove(g)
    BY <1>1, <1>3, <1>8 DEF CleanUp, DiskMove, RemoveFromDisk, WriteDisk
  <2> QED BY <2>1, <2>2 DEF RowMove, ReqMove
<1>9. CASE Lock(h)
  <2>1. /\ ReqMove(h) /\ UNCHANGED <<files, disk>>
        /\ \A k \in Handlers : k # h => req'[k] = req[k]
    BY <1>1, <1>2, <1>9 DEF Lock, ReqMove, Moves, DeletePC
  <2> QED BY <2>1 DEF RowMove, DiskMove, ReqMove
<1>10. CASE Guard(h)
  <2>1. UNCHANGED <<files, disk>> /\ req[h].pc = "guard"
    BY <1>10 DEF Guard
  <2>2. CASE Goto(h, "failed")
    <3>1. Moves(h, "guard", "failed")
      BY <1>2, <2>1, <2>2 DEF Done
    <3> QED BY <2>1, <3>1 DEF RowMove, DiskMove, ReqMove, Moves, DeletePC
  <2>3. CASE ~Goto(h, "failed")
    <3>1. Moves(h, "guard", "commit") /\ Accepts(req[h].user, f) /\ rowLock'[f] = h
      BY <1>1, <1>2, <1>10, <2>1, <2>3 DEF Guard, DeletePC, TypeOK
    <3> QED BY <2>1, <3>1 DEF RowMove, DiskMove, ReqMove, Moves
  <2> QED BY <2>2, <2>3
<1>11. CASE Commit(h)
  <2>1. UNCHANGED disk /\ req[h].pc = "commit"
    BY <1>11 DEF Commit
  <2>2. \A g \in FileIds : RowMove(g)
    <3>1. req'[h].pc \in {"remove", "failed"}
      BY <1>2, <1>11, <2>1 DEF Commit, Moves, DeletePC, Done
    <3> QED BY <1>1, <1>11, <2>1, <3>1 DEF Commit, RowMove, TypeOK
  <2>3. CASE Goto(h, "failed")
    <3>1. Moves(h, "commit", "failed")
      BY <1>2, <2>1, <2>3 DEF Done
    <3> QED BY <2>1, <2>2, <3>1 DEF DiskMove, ReqMove, Moves, DeletePC
  <2>4. CASE ~Goto(h, "failed")
    <3>1. Moves(h, "commit", "remove") /\ files' = [files EXCEPT ![f] = [@ EXCEPT !.status = "gone"]]
      BY <1>2, <1>11, <2>1, <2>4 DEF Commit, DeletePC
    <3>2. files'[f] = [files[f] EXCEPT !.status = "gone"]
      BY <1>1, <3>1 DEF TypeOK
    <3>3. files[f] \in FileRow \cup {Unused}
      BY <1>1 DEF TypeOK
    <3>4. files'[f].status = "gone"
      BY <3>2, <3>3 DEF FileRow, Unused
    <3> QED BY <2>1, <2>2, <3>1, <3>4 DEF DiskMove, ReqMove, Moves
  <2> QED BY <2>3, <2>4
<1>12. CASE RemoveFile(h)
  <2>1. /\ ReqMove(h) /\ UNCHANGED files
        /\ \A k \in Handlers : k # h => req'[k] = req[k]
    BY <1>1, <1>2, <1>5, <1>12 DEF RemoveFile, ReqMove, Moves, DeletePC, Done
  <2>2. \A g \in FileIds : DiskMove(g)
    BY <1>1, <1>3, <1>12 DEF RemoveFile, DiskMove, RemoveFromDisk, WriteDisk
  <2> QED BY <2>1, <2>2 DEF RowMove, ReqMove
<1> QED BY <1>6, <1>7, <1>8, <1>9, <1>10, <1>11, <1>12

LEMMA StepMoves ==
  ASSUME TypeOK, [Next]_vars
  PROVE  /\ \A k \in Handlers : ReqMove(k)
         /\ \A f \in FileIds : RowMove(f) /\ DiskMove(f)
<1>1. CASE UNCHANGED vars
  BY <1>1 DEF vars, ReqMove, RowMove, DiskMove
<1>2. ASSUME NEW h \in Handlers, Upload(h) \/ Delete(h)
      PROVE  /\ \A k \in Handlers : ReqMove(k)
             /\ \A f \in FileIds : RowMove(f) /\ DiskMove(f)
  <2>1. Begins(h)
    BY <1>2 DEF Upload, Delete, Begins, TypeOK
  <2> QED BY <2>1 DEF Begins, ReqMove, RowMove, DiskMove
<1>3. ASSUME NEW p \in Procs, Crash(p)
      PROVE  /\ \A k \in Handlers : ReqMove(k)
             /\ \A f \in FileIds : RowMove(f) /\ DiskMove(f)
  <2>1. \A f \in FileIds : DiskMove(f)
    BY <1>3 DEF Crash, DiskMove
  <2> QED BY <1>3, <2>1 DEF Crash, ReqMove, RowMove
<1>4. ASSUME NEW g \in FileIds, WorkloadRemoves(g)
      PROVE  /\ \A k \in Handlers : ReqMove(k)
             /\ \A f \in FileIds : RowMove(f) /\ DiskMove(f)
  BY <1>4 DEF WorkloadRemoves, WriteDisk, ReqMove, RowMove, DiskMove, TypeOK
<1> QED BY <1>1, <1>2, <1>3, <1>4, HandlerMoves DEF Next

LEMMA FaultsStay ==
  ASSUME TypeOK, [Next]_vars, spent'["faults"] = 0
  PROVE  spent["faults"] = 0
<1>1. UNCHANGED spent \/ \E b \in Budgets : Spend(b)
  BY DEF Next, vars, Upload, WriteFile, SaveRow, CleanUp, Delete, Lock, Guard, Commit,
     RemoveFile, Crash, WorkloadRemoves, NoFault, Fault, Budgets
<1> QED BY <1>1 DEF Spend, Budgets, TypeOK

\* The file of a request that runs, or has ended, is a file.
LEMMA FileOf ==
  ASSUME TypeOK, NEW h \in Handlers, req[h].pc # "idle"
  PROVE  /\ req[h].file \in FileIds
         /\ files[req[h].file].status \in {"unused", "stored", "gone"}
BY Fields DEF TypeOK, FileRow, Unused

\* A row that is gone stays gone, and an upload's file gets no row but its own.
LEMMA RowsStay ==
  ASSUME Inv, [Next]_vars, NEW f \in FileIds
  PROVE  /\ files[f].status = "gone" => files'[f].status = "gone"
         /\ \A h \in Handlers :
              /\ req[h].pc \in {"write", "save"} /\ req[h].file = f
              /\ req'[h].pc \in {"write", "save"}
              => files'[f] = files[f]
<1>1. RowMove(f) /\ files[f] \in FileRow \cup {Unused}
  BY StepMoves DEF Inv, TypeOK
<1> QED BY <1>1 DEF RowMove, Inv, UploadsFresh, UploadsApart, CommitsLocked, Stored, UploadPC,
     FileRow, Unused

-----------------------------------------------------------------------------
(* Every step preserves the invariant, part by part *)

LEMMA OpStep ==
  ASSUME Inv, [Next]_vars
  PROVE  OpOK'
<1> SUFFICES ASSUME NEW h \in Handlers
             PROVE  /\ req'[h].pc \in UploadPC => req'[h].op = "upload"
                    /\ req'[h].pc \in DeletePC => req'[h].op = "delete"
  BY DEF OpOK
<1> QED BY StepMoves DEF ReqMove, Inv, OpOK, Begins, Moves, Idle, UploadPC, DeletePC

LEMMA ApartStep ==
  ASSUME Inv, [Next]_vars
  PROVE  UploadsApart'
<1> SUFFICES ASSUME NEW h \in Handlers, NEW k \in Handlers, h # k,
                    req'[h].pc \in UploadPC, req'[k].pc \in UploadPC,
                    req'[h].file = req'[k].file
             PROVE  FALSE
  BY DEF UploadsApart
<1>1. ASSUME NEW j \in Handlers, req'[j].pc \in UploadPC
      PROVE  \/ Begins(j) /\ req'[j].file \in FreshFiles
             \/ req[j].pc \in UploadPC /\ req[j].file = req'[j].file
  BY <1>1, StepMoves DEF ReqMove, Inv, Begins, Moves, Idle, UploadPC, DeletePC
<1>2. ASSUME NEW i \in Handlers, NEW j \in Handlers, i # j,
             Begins(i), req'[i].file \in FreshFiles, req'[j].pc \in UploadPC,
             req'[i].file = req'[j].file
      PROVE  FALSE
  BY <1>2 DEF Begins, FreshFiles, Serving
<1>3. req[h].pc \in UploadPC /\ req[h].file = req'[h].file
  BY <1>1, <1>2
<1>4. req[k].pc \in UploadPC /\ req[k].file = req'[k].file
  BY <1>1, <1>2
<1> QED BY <1>3, <1>4 DEF Inv, UploadsApart

LEMMA FreshStep ==
  ASSUME Inv, [Next]_vars
  PROVE  UploadsFresh'
<1> SUFFICES ASSUME NEW h \in Handlers, req'[h].pc \in {"write", "save"}
             PROVE  /\ files'[req'[h].file].status = "unused"
                    /\ req'[h].pc = "save" => disk'[req'[h].file] \in {"whole", "lost"}
  BY DEF UploadsFresh
<1>1. CASE Begins(h)
  BY <1>1 DEF Begins, FreshFiles
<1>2. CASE ~Begins(h)
  <2>1. /\ req[h].pc \in {"write", "save"} /\ req'[h].file = req[h].file
        /\ \/ req[h].pc = "write" /\ req'[h].pc = "save" /\ disk'[req[h].file] = "whole"
           \/ req[h].pc = req'[h].pc
    BY <1>2, StepMoves DEF ReqMove, Inv, Moves, Idle, UploadPC, DeletePC
  <2>2. req[h].file \in FileIds
    BY <2>1, FileOf DEF Inv
  <2>3. files'[req[h].file].status = "unused"
    BY <2>1, <2>2, RowsStay DEF Inv, UploadsFresh
  <2>4. CASE req[h].pc = "save" /\ req'[h].pc = "save"
    <3>1. DiskMove(req[h].file) /\ disk[req[h].file] \in {"whole", "lost"}
      BY <2>2, <2>4, StepMoves DEF Inv, UploadsFresh
    <3>2. ASSUME NEW k \in Handlers, req[k].pc \in {"write", "cleanup", "remove"},
                 req[k].file = req[h].file
          PROVE  FALSE
      BY <2>4, <3>2 DEF Inv, UploadsApart, UploadsFresh, RemovesGone, UploadPC
    <3> QED BY <2>1, <2>3, <2>4, <3>1, <3>2 DEF DiskMove
  <2> QED BY <2>1, <2>3, <2>4
<1> QED BY <1>1, <1>2

LEMMA LockedStep ==
  ASSUME Inv, [Next]_vars
  PROVE  CommitsLocked'
<1> SUFFICES ASSUME NEW h \in Handlers, req'[h].pc = "commit"
             PROVE  /\ rowLock'[req'[h].file] = h
                    /\ files'[req'[h].file].status = "stored"
                    /\ files'[req'[h].file].owner = req'[h].user
  BY DEF CommitsLocked, Stored
<1>1. CASE Moves(h, "guard", "commit")
  BY <1>1, StepMoves DEF ReqMove, Moves, Idle, Accepts, Stored, Begins, Inv
<1>2. CASE ~Moves(h, "guard", "commit")
  <2> DEFINE f == req[h].file
  <2>1. req'[h] = req[h]
    BY <1>2, StepMoves DEF ReqMove, Begins, Moves, Idle, Inv
  <2>2. /\ f \in FileIds /\ rowLock[f] = h
        /\ files[f].status = "stored" /\ files[f].owner = req[h].user
    BY <2>1, FileOf DEF Inv, CommitsLocked, Stored
  <2>3. files'[f] = files[f]
    <3>1. RowMove(f)
      BY <2>2, StepMoves DEF Inv
    <3>2. ASSUME NEW k \in Handlers, req[k].pc = "save", req[k].file = f PROVE FALSE
      BY <2>2, <3>2 DEF Inv, UploadsFresh
    <3>3. ASSUME NEW k \in Handlers, req[k].pc = "commit", req[k].file = f,
                 req'[k].pc \in {"remove", "failed"}
          PROVE  FALSE
      BY <2>1, <2>2, <3>3 DEF Inv, CommitsLocked
    <3> QED BY <3>1, <3>2, <3>3 DEF RowMove
  <2>4. rowLock'[f] = h
    <3>1. ASSUME NEW k \in Handlers, Commit(k) PROVE rowLock'[f] = h
      <4>1. CASE req[k].file = f
        <5>1. k = h /\ req[h].pc = "commit"
          BY <2>2, <3>1, <4>1 DEF Commit, Inv, CommitsLocked
        <5> QED BY <2>1, <3>1, <5>1, GotoFields DEF Commit, Inv, DeletePC, Done
      <4>2. CASE req[k].file # f
        BY <2>2, <3>1, <4>2 DEF Commit, Inv, TypeOK
      <4> QED BY <4>1, <4>2
    <3>2. ASSUME NEW k \in Handlers, Guard(k) PROVE rowLock'[f] = h
      BY <2>2, <3>2, NobodyAssumption DEF Guard, Inv, TypeOK
    <3>3. ASSUME NEW p \in Procs, Crash(p) PROVE rowLock'[f] = h
      BY <2>1, <2>2, <3>3 DEF Crash, Idle, Inv
    <3> QED BY <2>2, <3>1, <3>2, <3>3 DEF Next, vars, Upload, WriteFile, SaveRow, CleanUp,
            Delete, Lock, RemoveFile, WorkloadRemoves
  <2> QED BY <2>1, <2>2, <2>3, <2>4
<1> QED BY <1>1, <1>2

LEMMA RemovesStep ==
  ASSUME Inv, [Next]_vars
  PROVE  RemovesGone'
<1> SUFFICES ASSUME NEW h \in Handlers,
                    \/ req'[h].pc = "remove"
                    \/ req'[h].pc = "ok" /\ req'[h].op = "delete"
             PROVE  files'[req'[h].file].status = "gone"
  BY DEF RemovesGone
<1>1. CASE Moves(h, "commit", "remove")
  BY <1>1, StepMoves DEF ReqMove, Moves, Idle, Begins, Inv
<1>2. CASE ~Moves(h, "commit", "remove")
  <2>1. /\ req'[h].file = req[h].file /\ req[h].pc # "idle"
        /\ \/ req[h].pc = "remove"
           \/ req[h].pc = "ok" /\ req[h].op = "delete"
    BY <1>2, StepMoves DEF ReqMove, Moves, Idle, Begins, Inv, OpOK, UploadPC
  <2> QED BY <2>1, FileOf, RowsStay DEF Inv, RemovesGone
<1> QED BY <1>1, <1>2

LEMMA CleanUpStep ==
  ASSUME Inv, [Next]_vars
  PROVE  NoCleanUp'
<1> SUFFICES ASSUME spent'["faults"] = 0, NEW h \in Handlers, req'[h].pc = "cleanup"
             PROVE  FALSE
  BY DEF NoCleanUp
<1>1. req[h].pc = "cleanup"
  BY StepMoves DEF ReqMove, Moves, Idle, Begins, Inv
<1> QED BY <1>1, FaultsStay DEF Inv, NoCleanUp

LEMMA RowHasFileStep ==
  ASSUME Inv, [Next]_vars
  PROVE  RowHasFile'
<1> SUFFICES ASSUME spent'["faults"] = 0, NEW f \in FileIds, files'[f].status = "stored"
             PROVE  disk'[f] \in {"whole", "lost"}
  BY DEF RowHasFile, Stored
<1>1. spent["faults"] = 0 /\ RowMove(f) /\ DiskMove(f)
  BY FaultsStay, StepMoves DEF Inv
<1>2. \/ files[f].status = "stored"
      \/ \E h \in Handlers : req[h].pc = "save" /\ req[h].file = f
  BY <1>1 DEF RowMove, Inv, TypeOK, FileRow, Unused
<1>3. disk[f] \in {"whole", "lost"}
  BY <1>1, <1>2 DEF Inv, RowHasFile, Stored, UploadsFresh
<1>4. ASSUME NEW k \in Handlers, req[k].pc \in {"write", "cleanup", "remove"}, req[k].file = f
      PROVE  FALSE
  BY <1>1, <1>2, <1>4 DEF Inv, NoCleanUp, UploadsFresh, RemovesGone, UploadsApart, UploadPC
<1> QED BY <1>1, <1>3, <1>4 DEF DiskMove

LEMMA DeletesStep ==
  ASSUME Inv, [Next]_vars
  PROVE  DeletesOnce'
<1> SUFFICES ASSUME NEW h \in Handlers, NEW k \in Handlers, h # k,
                    req'[h].pc \in {"remove", "ok"}, req'[k].pc \in {"remove", "ok"},
                    req'[h].op = "delete", req'[k].op = "delete",
                    req'[h].file = req'[k].file
             PROVE  FALSE
  BY DEF DeletesOnce
<1>1. ASSUME NEW i \in Handlers, req'[i].pc \in {"remove", "ok"}, req'[i].op = "delete"
      PROVE  /\ req[i].file = req'[i].file /\ req[i].op = "delete"
             /\ Moves(i, "commit", "remove") \/ req[i].pc \in {"remove", "ok"}
  BY <1>1, StepMoves DEF ReqMove, Moves, Idle, Begins, Inv, OpOK, UploadPC
<1>2. ASSUME NEW i \in Handlers, NEW j \in Handlers, i # j, Moves(i, "commit", "remove"),
             req'[j].pc \in {"remove", "ok"}, req'[j].op = "delete",
             req'[i].file = req'[j].file
      PROVE  FALSE
  <2>1. req'[j] = req[j]
    BY <1>2 DEF Moves
  <2>2. files[req[j].file].status = "gone"
    BY <1>2, <2>1 DEF Inv, RemovesGone
  <2>3. files[req[i].file].status = "stored"
    BY <1>2 DEF Moves, Inv, CommitsLocked, Stored
  <2> QED BY <1>2, <2>1, <2>2, <2>3 DEF Moves
<1> QED BY <1>1, <1>2 DEF Inv, DeletesOnce

\* Without faults and crashes each step passes the file from hand to hand: from
\* the upload that wrote it to its row, from the row to the delete that committed.
LEMMA StrayStep ==
  ASSUME Inv, NoStrayFile, [Next]_vars
  PROVE  NoStrayFile'
<1> DEFINE Held(h, f) == req[h].pc \in {"save", "cleanup", "remove"} /\ req[h].file = f
           Keeps(f) == \/ files'[f].status = "stored"
                       \/ \E h \in Handlers : /\ req'[h].pc \in {"save", "cleanup", "remove"}
                                              /\ req'[h].file = f
<1> SUFFICES ASSUME spent'["faults"] = 0, spent'["crashes"] = 0,
                    NEW f \in FileIds, disk'[f] \in {"partial", "whole"}
             PROVE  Keeps(f)
  BY DEF NoStrayFile, OnDisk, Stored
<1> USE DEF Inv
<1>1. /\ spent["faults"] = 0 /\ spent["crashes"] = 0
      /\ ~Fault /\ ~Spend("crashes")
  <2>1. spent["faults"] = 0
    BY FaultsStay
  <2>2. spent \in [Budgets -> Nat] /\ ~Fault /\ ~Spend("crashes")
    BY DEF Fault, Spend, Budgets, TypeOK
  <2>3. spent' = spent \/ Spend("removals")
    BY <2>2 DEF Next, vars, Upload, WriteFile, SaveRow, CleanUp, Delete, Lock, Guard, Commit,
       RemoveFile, Crash, WorkloadRemoves, NoFault
  <2> QED BY <2>1, <2>2, <2>3 DEF Spend, Budgets
<1>2. disk[f] \in {"partial", "whole"} => files[f].status = "stored" \/ \E h \in Handlers : Held(h, f)
  BY <1>1 DEF NoStrayFile, OnDisk, Stored
<1>3. ASSUME NEW h \in Handlers, ~Held(h, f), disk'[f] = disk[f], files'[f] = files[f],
             \A k \in Handlers : k # h => req'[k] = req[k]
      PROVE  Keeps(f)
  BY <1>2, <1>3
<1>4. ASSUME NEW h \in Handlers, req[h].pc # "idle", NEW to \in UploadPC \cup DeletePC \cup Done,
             Goto(h, to)
      PROVE  /\ req'[h].pc = to /\ req'[h].file = req[h].file
             /\ \A k \in Handlers : k # h => req'[k] = req[k]
  BY <1>4, GotoFields DEF Moves
<1>5. ASSUME NEW h \in Handlers, WriteFile(h) \/ SaveRow(h) PROVE Keeps(f)
  <2>1. CASE req[h].file = f
    BY <1>1, <1>4, <1>5, <2>1 DEF WriteFile, SaveRow, UploadPC, Done, TypeOK
  <2>2. CASE req[h].file # f
    <3>1. /\ disk'[f] = disk[f] /\ files'[f] = files[f]
          /\ \A k \in Handlers : k # h => req'[k] = req[k]
      BY <1>1, <1>4, <1>5, <2>2 DEF WriteFile, SaveRow, WriteDisk, UploadPC, Done, TypeOK
    <3> QED BY <1>3, <2>2, <3>1
  <2> QED BY <2>1, <2>2
<1>6. ASSUME NEW h \in Handlers, CleanUp(h) \/ RemoveFile(h) PROVE Keeps(f)
  <2>1. req[h].file # f /\ disk'[f] = disk[f] /\ UNCHANGED files
    <3>1. req[h].file \in FileIds /\ RemoveFromDisk(req[h].file)
      BY <1>1, <1>6, Fields DEF CleanUp, RemoveFile
    <3> QED BY <1>6, <3>1 DEF CleanUp, RemoveFile, RemoveFromDisk, OnDisk, WriteDisk, TypeOK
  <2>2. \A k \in Handlers : k # h => req'[k] = req[k]
    BY <1>1, <1>4, <1>6 DEF CleanUp, RemoveFile, Done
  <2> QED BY <1>3, <2>1, <2>2
<1>7. ASSUME NEW h \in Handlers, Lock(h) \/ Guard(h) PROVE Keeps(f)
  <2>1. \A k \in Handlers : k # h => req'[k] = req[k]
    BY <1>4, <1>7 DEF Lock, Guard, DeletePC, Done
  <2> QED BY <1>3, <1>7, <2>1 DEF Lock, Guard
<1>8. ASSUME NEW h \in Handlers, Commit(h) PROVE Keeps(f)
  <2>1. req[h].pc = "commit" /\ Goto(h, "remove") /\ UNCHANGED disk
        /\ files' = [files EXCEPT ![req[h].file] = [@ EXCEPT !.status = "gone"]]
    BY <1>1, <1>8 DEF Commit
  <2>2. /\ req'[h].pc = "remove" /\ req'[h].file = req[h].file
        /\ \A k \in Handlers : k # h => req'[k] = req[k]
    BY <1>4, <2>1 DEF DeletePC
  <2>3. CASE req[h].file = f
    BY <2>2, <2>3
  <2>4. CASE req[h].file # f
    BY <1>3, <2>1, <2>2, <2>4 DEF TypeOK
  <2> QED BY <2>3, <2>4
<1>9. ASSUME NEW h \in Handlers, Upload(h) \/ Delete(h) PROVE Keeps(f)
  <2>1. /\ ~Held(h, f) /\ UNCHANGED <<files, disk>>
        /\ \A k \in Handlers : k # h => req'[k] = req[k]
    BY <1>9 DEF Upload, Delete, Serving, UploadPC, DeletePC, TypeOK
  <2> QED BY <1>3, <2>1
<1>10. ASSUME NEW g \in FileIds, WorkloadRemoves(g) PROVE Keeps(f)
  <2>1. disk'[f] = disk[f] /\ UNCHANGED <<files, req>>
    BY <1>10 DEF WorkloadRemoves, WriteDisk, TypeOK
  <2> QED BY <1>2, <2>1
<1>11. CASE UNCHANGED vars
  BY <1>2, <1>11 DEF vars
<1> QED BY <1>1, <1>5, <1>6, <1>7, <1>8, <1>9, <1>10, <1>11 DEF Next, Crash

-----------------------------------------------------------------------------
(* The theorems *)

LEMMA InvInit == Init => Inv
<1> SUFFICES ASSUME Init PROVE Inv
  OBVIOUS
<1>1. \A h \in Handlers : req[h].pc = "idle"
  BY DEF Init, Idle
<1>2. \A f \in FileIds : files[f].status = "unused"
  BY DEF Init, Unused
<1> QED BY <1>1, <1>2, TypeInit DEF Inv, OpOK, UploadsApart, UploadsFresh, CommitsLocked,
       RemovesGone, NoCleanUp, RowHasFile, DeletesOnce, UploadPC, DeletePC,
       Stored

LEMMA InvStep == Inv /\ [Next]_vars => Inv'
<1> SUFFICES ASSUME Inv, [Next]_vars PROVE Inv'
  OBVIOUS
<1>1. TypeOK'
  BY TypeStep DEF Inv
<1> QED BY <1>1, OpStep, ApartStep, FreshStep, LockedStep, RemovesStep, CleanUpStep,
       RowHasFileStep, DeletesStep DEF Inv

\* The invariant holds throughout, for any constants.
THEOREM FilesCorrect == Spec => []Inv
BY InvInit, InvStep, PTL DEF Spec

\* Every variable keeps its type; a COMMIT never meets a row that does not exist.
THEOREM FilesTypeSafe == Spec => []TypeOK
<1>1. Inv => TypeOK
  BY DEF Inv
<1> QED BY <1>1, FilesCorrect, PTL

\* A row of the table has its file, whatever replica crashes when.
THEOREM RowsHaveFiles == Spec => []RowHasFile
<1>1. Inv => RowHasFile
  BY DEF Inv
<1> QED BY <1>1, FilesCorrect, PTL

\* Two deletes of one file, in any replicas, do not both get past the COMMIT.
THEOREM DeletesHappenOnce == Spec => []DeletesOnce
<1>1. Inv => DeletesOnce
  BY DEF Inv
<1> QED BY <1>1, FilesCorrect, PTL

\* Without faults and crashes the disk keeps no file without a row, but for one
\* an upload or a delete is about to deal with.
THEOREM NoFileIsStray == Spec => []NoStrayFile
<1>1. Init => NoStrayFile
  BY DEF Init, NoStrayFile, OnDisk
<1>2. Inv /\ NoStrayFile /\ [Next]_vars => NoStrayFile'
  BY StrayStep
<1> QED BY <1>1, <1>2, FilesCorrect, PTL DEF Spec

\* A row leaves the table by a delete of its owner and in no other way.
THEOREM OwnersDeleteTheirFiles == Spec => OnlyOwnersDelete
<1> DEFINE ByOwner == \A f \in FileIds :
             Stored(f) /\ files'[f].status = "gone" =>
               \E h \in Handlers : /\ req[h].pc = "commit" /\ req[h].file = f
                                   /\ req[h].user = files[f].owner
<1>1. Inv /\ [Next]_vars => ByOwner
  <2> SUFFICES ASSUME Inv, [Next]_vars, NEW f \in FileIds,
                      files[f].status = "stored", files'[f].status = "gone"
               PROVE  \E h \in Handlers : /\ req[h].pc = "commit" /\ req[h].file = f
                                          /\ req[h].user = files[f].owner
    BY DEF Stored
  <2>1. RowMove(f)
    BY StepMoves DEF Inv
  <2>2. PICK h \in Handlers : req[h].pc = "commit" /\ req[h].file = f
    BY <2>1 DEF RowMove
  <2> QED BY <2>2 DEF Inv, CommitsLocked
<1>2. Inv /\ [Next]_vars => [ByOwner]_vars
  BY <1>1
<1> QED BY <1>2, FilesCorrect, PTL DEF Spec, OnlyOwnersDelete

-----------------------------------------------------------------------------
(* The abstract specification is implemented, step by step *)

LEMMA MappedInit == Init => FL!LInit
BY DEF Init, FL!LInit, Entries, Requests, EntryOf, RequestOf, Unused, Idle, FL!NoEntry, FL!NoRequest

LEMMA EntriesStay ==
  ASSUME UNCHANGED files
  PROVE  UNCHANGED Entries
BY DEF Entries, EntryOf

LEMMA EntryTurns ==
  ASSUME NEW f \in FileIds, \A g \in FileIds : g # f => files'[g] = files[g]
  PROVE  Entries' = [Entries EXCEPT ![f] = EntryOf(f)']
<1>1. \A g \in FileIds : g # f => EntryOf(g)' = EntryOf(g)
  BY DEF EntryOf
<1> QED BY <1>1 DEF Entries

LEMMA EntryOfRow ==
  ASSUME NEW f \in FileIds
  PROVE  /\ files[f].status = "unused" => Entries[f] = FL!NoEntry
         /\ files[f].status = "stored" => Entries[f] = [state |-> "listed", owner |-> files[f].owner]
BY DEF Entries, EntryOf, FL!NoEntry

\* What the clients see of a request that is not idle.
LEMMA RequestSeen ==
  ASSUME NEW h \in Handlers, req[h].pc # "idle"
  PROVE  /\ Requests[h] = [state |-> StateOf(h), op |-> req[h].op, user |-> req[h].user,
                           file |-> req[h].file]
         /\ Requests[h].state = StateOf(h) /\ Requests[h].op = req[h].op
         /\ Requests[h].user = req[h].user /\ Requests[h].file = req[h].file
BY DEF Requests, RequestOf

\* An upload that cleans up is the only one that could insert its row, so that
\* whether it has had its effect does not change any more.
LEMMA EffectIsSettled ==
  ASSUME Inv, [Next]_vars, NEW k \in Handlers, req[k].pc = "cleanup"
  PROVE  files'[req[k].file].status = "unused" <=> files[req[k].file].status = "unused"
<1>1. req[k].file \in FileIds
  BY FileOf DEF Inv
<1>2. RowMove(req[k].file)
  BY <1>1, StepMoves DEF Inv
<1>3. ASSUME NEW j \in Handlers, req[j].pc = "save", req[j].file = req[k].file PROVE FALSE
  BY <1>3 DEF Inv, UploadsApart, UploadPC
<1>4. ASSUME NEW j \in Handlers, req[j].pc = "commit", req[j].file = req[k].file,
             files'[req[k].file] = [files[req[k].file] EXCEPT !.status = "gone"]
      PROVE  /\ files[req[k].file].status = "stored"
             /\ files'[req[k].file].status = "gone"
  <2>1. files[req[k].file].status = "stored"
    BY <1>4 DEF Inv, CommitsLocked, Stored
  <2>2. files[req[k].file] \in FileRow
    BY <1>1, <2>1 DEF Inv, TypeOK, Unused
  <2> QED BY <1>4, <2>1, <2>2 DEF FileRow
<1> QED BY <1>2, <1>3, <1>4 DEF RowMove

\* The requests of a step that leaves k alone look the same to k's client.
LEMMA OthersStay ==
  ASSUME Inv, [Next]_vars, NEW k \in Handlers, req'[k] = req[k]
  PROVE  RequestOf(k)' = RequestOf(k)
<1>1. HasActed(k)' <=> HasActed(k)
  BY EffectIsSettled DEF HasActed
<1>2. StateOf(k)' = StateOf(k)
  BY <1>1 DEF StateOf
<1> QED BY <1>2 DEF RequestOf

LEMMA AllStay ==
  ASSUME Inv, [Next]_vars, \A k \in Handlers : RequestOf(k)' = RequestOf(k)
  PROVE  UNCHANGED Requests
BY DEF Requests

\* A step that moves the request of h on shows its client the new state alone.
LEMMA Turned ==
  ASSUME Inv, [Next]_vars, NEW h \in Handlers, req[h].pc # "idle",
         NEW to \in UploadPC \cup DeletePC \cup Done, Goto(h, to),
         NEW s, s = StateOf(h)'
  PROVE  /\ FL!Turn(h, s)
         /\ s = StateOf(h) => UNCHANGED Requests
<1>1. /\ req'[h].pc = to
      /\ req'[h].op = req[h].op /\ req'[h].file = req[h].file /\ req'[h].user = req[h].user
      /\ \A k \in Handlers : k # h => req'[k] = req[k]
  BY GotoFields DEF Inv
<1>2. to # "idle"
  BY DEF UploadPC, DeletePC, Done
<1>3. RequestOf(h)' = [state |-> s, op |-> req[h].op, user |-> req[h].user, file |-> req[h].file]
  BY <1>1, <1>2 DEF RequestOf
<1>4. RequestOf(h) = [state |-> StateOf(h), op |-> req[h].op, user |-> req[h].user,
                      file |-> req[h].file]
  BY DEF RequestOf
<1>5. \A k \in Handlers : k # h => RequestOf(k)' = RequestOf(k)
  BY <1>1, OthersStay
<1>6. Requests' = [k \in Handlers |-> RequestOf(k)'] /\ Requests = [k \in Handlers |-> RequestOf(k)]
  BY DEF Requests
<1>7. [RequestOf(h) EXCEPT !.state = s] = RequestOf(h)'
  BY <1>3, <1>4
<1>8. Requests' = [Requests EXCEPT ![h] = RequestOf(h)']
  BY <1>5, <1>6
<1>9. Requests[h] = RequestOf(h)
  BY <1>6
<1>10. FL!Turn(h, s)
  BY <1>7, <1>8, <1>9 DEF FL!Turn
<1>11. s = StateOf(h) => UNCHANGED Requests
  BY <1>3, <1>4, <1>5, <1>6
<1> QED BY <1>10, <1>11

\* A request that is open serves its client.
LEMMA OpenServes ==
  ASSUME TypeOK, NEW h \in Handlers
  PROVE  Requests[h].state \in FL!Open <=> Serving(h)
<1>1. CASE req[h].pc = "idle"
  BY <1>1 DEF Requests, RequestOf, Serving, UploadPC, DeletePC, FL!Open
<1>2. CASE req[h].pc # "idle"
  <2>1. Requests[h].state = StateOf(h)
    BY <1>2, RequestSeen
  <2>2. req[h].pc \in UploadPC \cup DeletePC \cup Done
    BY <1>2, Fields DEF Request
  <2> QED BY <2>1, <2>2 DEF StateOf, Serving, UploadPC, DeletePC, Done, FL!Open, HasActed
<1> QED BY <1>1, <1>2

LEMMA AsksOne ==
  ASSUME Inv, [Next]_vars, NEW h \in Handlers, Upload(h) \/ Delete(h)
  PROVE  FL!LNext
<1>1. PICK p \in Procs, u \in Users, f \in FileIds, op \in {"upload", "delete"},
           pc \in {"write", "lock"} :
        /\ req' = [req EXCEPT ![h] = [pc |-> pc, op |-> op, proc |-> p, user |-> u, file |-> f]]
        /\ op = "upload" => f \in FreshFiles
  BY DEF Upload, Delete, FreshFiles
<1>2. ~Serving(h) /\ UNCHANGED <<files, disk>>
  BY DEF Upload, Delete
<1>3. Requests[h].state \notin FL!Open
  BY <1>2, OpenServes DEF Inv
<1>4. ASSUME op = "upload"
      PROVE  /\ Entries[f] = FL!NoEntry /\ disk[f] = "none"
             /\ \A k \in Handlers : Requests[k].state \in FL!Open => Requests[k].file # f
  <2>1. /\ files[f].status = "unused" /\ disk[f] = "none"
        /\ \A k \in Handlers : Serving(k) => req[k].file # f
    BY <1>1, <1>4 DEF FreshFiles
  <2>2. ASSUME NEW k \in Handlers, Requests[k].state \in FL!Open PROVE Requests[k].file # f
    <3>1. Serving(k)
      BY <2>2, OpenServes DEF Inv
    <3>2. Requests[k].file = req[k].file
      BY <3>1, RequestSeen DEF Serving, UploadPC, DeletePC
    <3> QED BY <2>1, <3>1, <3>2
  <2> QED BY <2>1, <2>2, EntryOfRow
<1>5. Requests' = [Requests EXCEPT ![h] = [state |-> "asked", op |-> op, user |-> u, file |-> f]]
  <2>1. req'[h] = [pc |-> pc, op |-> op, proc |-> p, user |-> u, file |-> f]
    BY <1>1 DEF Inv, TypeOK
  <2>2. RequestOf(h)' = [state |-> "asked", op |-> op, user |-> u, file |-> f]
    BY <2>1 DEF RequestOf, StateOf, HasActed, Done
  <2>3. \A k \in Handlers : k # h => RequestOf(k)' = RequestOf(k)
    BY <1>1, OthersStay DEF Inv, TypeOK
  <2> QED BY <2>2, <2>3 DEF Requests
<1>6. FL!Ask(h, op, u, f)
  BY <1>2, <1>3, <1>4, <1>5, EntriesStay DEF FL!Ask
<1> QED BY <1>6 DEF FL!LNext

LEMMA UploadsOne ==
  ASSUME Inv, [Next]_vars, NEW h \in Handlers, WriteFile(h) \/ SaveRow(h) \/ CleanUp(h)
  PROVE  [FL!LNext]_<<Entries, disk, Requests>>
<1> DEFINE f == req[h].file
<1>1. /\ req[h].pc \in {"write", "save", "cleanup"} /\ req[h].op = "upload"
      /\ f \in FileIds
  BY FileOf DEF WriteFile, SaveRow, CleanUp, Inv, OpOK, UploadPC
<1>2. /\ Requests[h].state = StateOf(h) /\ Requests[h].op = "upload"
      /\ Requests[h].file = f /\ Requests[h].user = req[h].user
  BY <1>1, RequestSeen
<1>3. req[h].pc \in {"write", "save"} =>
        StateOf(h) = "asked" /\ files[f].status = "unused" /\ Entries[f] = FL!NoEntry
  BY <1>1, EntryOfRow DEF StateOf, HasActed, Done, Inv, UploadsFresh
<1>4. StateOf(h) \in FL!Open
  BY <1>1 DEF StateOf, Done, FL!Open
<1>5. ASSUME NEW to \in {"ok", "failed"}, Goto(h, to)
      PROVE  FL!Turn(h, to)
  <2>1. req'[h].pc = to
    BY <1>1, <1>5, GotoFields DEF Inv, Done
  <2>2. to = StateOf(h)'
    BY <2>1 DEF StateOf, Done
  <2> QED BY <1>1, <1>5, <2>2, Turned DEF Done
<1>6. ASSUME NEW to \in {"save", "cleanup"}, Goto(h, to), req[h].pc \in {"write", "save"},
             files'[f].status = "unused"
      PROVE  UNCHANGED Requests
  <2>1. req'[h].pc = to /\ req'[h].file = f
    BY <1>1, <1>6, GotoFields DEF Inv, UploadPC
  <2>2. "asked" = StateOf(h)'
    BY <1>6, <2>1 DEF StateOf, HasActed, Done
  <2> QED BY <1>1, <1>3, <1>6, <2>2, Turned DEF UploadPC
<1>7. ASSUME Goto(h, "cleanup"), files'[f].status = "stored"
      PROVE  FL!Turn(h, "done")
  <2>1. req'[h].pc = "cleanup" /\ req'[h].file = f
    BY <1>1, <1>7, GotoFields DEF Inv, UploadPC
  <2>2. "done" = StateOf(h)'
    BY <1>7, <2>1 DEF StateOf, HasActed, Done
  <2> QED BY <1>1, <1>7, <2>2, Turned DEF UploadPC
<1> HIDE DEF f
<1>8. CASE WriteFile(h)
  <2>1. req[h].pc = "write" /\ UNCHANGED files /\ UNCHANGED Entries
    BY <1>8, EntriesStay DEF WriteFile
  <2>2. FL!IsUpload(h, "asked")
    BY <1>2, <1>3, <2>1 DEF FL!IsUpload
  <2>3. CASE WriteDisk(f, "whole") /\ Goto(h, "save")
    <3>1. UNCHANGED Requests
      BY <1>3, <1>6, <2>1, <2>3
    <3>2. FL!Write(h)
      BY <1>2, <1>3, <2>1, <2>2, <2>3, <3>1 DEF FL!Write, FL!Fill, WriteDisk
    <3> QED BY <3>2 DEF FL!LNext
  <2>4. CASE (UNCHANGED disk \/ WriteDisk(f, "partial")) /\ Goto(h, "failed")
    <3>1. FL!Fail(h)
      BY <1>2, <1>4, <1>5, <2>1, <2>2, <2>4 DEF FL!Fail, FL!Fill, WriteDisk
    <3> QED BY <3>1 DEF FL!LNext
  <2> QED BY <1>8, <2>3, <2>4 DEF WriteFile, f
<1>9. CASE SaveRow(h)
  <2> DEFINE row == [status |-> "stored", owner |-> req[h].user]
  <2>1. req[h].pc = "save" /\ UNCHANGED disk /\ disk[f] \in {"whole", "lost"}
    BY <1>9 DEF SaveRow, Inv, UploadsFresh, f
  <2>2. FL!IsUpload(h, "asked")
    BY <1>2, <1>3, <2>1 DEF FL!IsUpload
  <2>3. CASE UNCHANGED files /\ Goto(h, "cleanup")
    BY <1>3, <1>6, <2>1, <2>3, EntriesStay
  <2>4. CASE files' = [files EXCEPT ![f] = row] /\ (Goto(h, "ok") \/ Goto(h, "cleanup"))
    <3>1. /\ files'[f] = row
          /\ \A g \in FileIds : g # f => files'[g] = files[g]
      BY <1>1, <2>4 DEF Inv, TypeOK
    <3>4. Entries' = [Entries EXCEPT ![f] = [state |-> "listed", owner |-> req[h].user]]
      <4>1. ASSUME NEW g \in FileIds, g = f
            PROVE  Entries' = [Entries EXCEPT ![g] = [state |-> "listed", owner |-> req[h].user]]
        <5>1. EntryOf(g)' = [state |-> "listed", owner |-> req[h].user]
          BY <3>1, <4>1 DEF EntryOf
        <5> QED BY <3>1, <4>1, <5>1, EntryTurns
      <4> QED BY <1>1, <4>1
    <3>5. FL!Turn(h, "ok") \/ FL!Turn(h, "done")
      BY <1>5, <1>7, <2>4, <3>1
    <3>6. FL!Add(h)
      BY <1>2, <1>3, <2>1, <2>2, <3>4, <3>5 DEF FL!Add
    <3> QED BY <3>6 DEF FL!LNext
  <2> QED BY <1>9, <2>3, <2>4 DEF SaveRow, f
<1>10. CASE CleanUp(h)
  <2>1. /\ UNCHANGED files /\ Goto(h, "failed")
        /\ UNCHANGED disk \/ WriteDisk(f, "none")
    BY <1>10 DEF CleanUp, RemoveFromDisk, f
  <2>2. FL!Fail(h)
    BY <1>2, <1>4, <1>5, <2>1, EntriesStay DEF FL!Fail, FL!Fill, WriteDisk
  <2> QED BY <2>2 DEF FL!LNext
<1> QED BY <1>8, <1>9, <1>10

LEMMA DeletesOne ==
  ASSUME Inv, [Next]_vars, NEW h \in Handlers, Lock(h) \/ Guard(h) \/ Commit(h) \/ RemoveFile(h)
  PROVE  [FL!LNext]_<<Entries, disk, Requests>>
<1> DEFINE f == req[h].file
<1>1. req[h].pc \in DeletePC /\ req[h].op = "delete" /\ f \in FileIds
  BY FileOf DEF Lock, Guard, Commit, RemoveFile, Inv, OpOK, DeletePC
<1>2. /\ Requests[h].state = StateOf(h) /\ Requests[h].op = "delete"
      /\ Requests[h].file = f /\ Requests[h].user = req[h].user
  BY <1>1, RequestSeen DEF DeletePC
<1>3. StateOf(h) = IF req[h].pc = "remove" THEN "done" ELSE "asked"
  BY <1>1 DEF StateOf, HasActed, Done, DeletePC
<1>4. StateOf(h) \in FL!Open
  BY <1>3 DEF FL!Open
<1>5. ASSUME NEW to \in {"ok", "failed"}, Goto(h, to)
      PROVE  FL!Turn(h, to)
  <2>1. req'[h].pc = to
    BY <1>1, <1>5, GotoFields DEF Inv, Done, DeletePC
  <2>2. to = StateOf(h)'
    BY <2>1 DEF StateOf, Done
  <2> QED BY <1>1, <1>5, <2>2, Turned DEF Done, DeletePC
<1>6. ASSUME NEW to \in {"guard", "commit"}, Goto(h, to), req[h].pc # "remove"
      PROVE  UNCHANGED Requests
  <2>1. req'[h].pc = to
    BY <1>1, <1>6, GotoFields DEF Inv, DeletePC
  <2>2. "asked" = StateOf(h)'
    BY <2>1 DEF StateOf, HasActed, Done
  <2> QED BY <1>1, <1>3, <1>6, <2>2, Turned DEF DeletePC
<1>7. ASSUME Goto(h, "remove")
      PROVE  FL!Turn(h, "done")
  <2>1. req'[h].pc = "remove"
    BY <1>1, <1>7, GotoFields DEF Inv, DeletePC
  <2>2. "done" = StateOf(h)'
    BY <2>1 DEF StateOf, HasActed, Done
  <2> QED BY <1>1, <1>7, <2>2, Turned DEF DeletePC
<1>8. ASSUME Goto(h, "failed"), UNCHANGED <<files, disk>>
      PROVE  FL!LNext
  <2>1. FL!Fail(h)
    BY <1>2, <1>4, <1>5, <1>8, EntriesStay DEF FL!Fail
  <2> QED BY <2>1 DEF FL!LNext
<1> HIDE DEF f
<1>9. CASE Lock(h)
  BY <1>6, <1>9, EntriesStay DEF Lock
<1>10. CASE Guard(h)
  <2>1. /\ Goto(h, "commit") \/ Goto(h, "failed")
        /\ UNCHANGED <<files, disk>> /\ req[h].pc # "remove"
    BY <1>10 DEF Guard
  <2> QED BY <1>6, <1>8, <2>1, EntriesStay
<1>11. CASE Commit(h)
  <2>1. req[h].pc = "commit" /\ UNCHANGED disk
    BY <1>11 DEF Commit
  <2>2. CASE files' = [files EXCEPT ![f] = [@ EXCEPT !.status = "gone"]]
    <3>1. /\ files[f].status = "stored" /\ files[f].owner = req[h].user
          /\ files[f] \in FileRow
      BY <1>1, <2>1 DEF Inv, CommitsLocked, Stored, TypeOK, Unused, f
    <3>2. Entries[f] = [state |-> "listed", owner |-> req[h].user]
      BY <1>1, <3>1, EntryOfRow
    <3>3. /\ files'[f].status = "gone" /\ files'[f].owner = req[h].user
          /\ \A g \in FileIds : g # f => files'[g] = files[g]
      <4>1. /\ files'[f] = [files[f] EXCEPT !.status = "gone"]
            /\ \A g \in FileIds : g # f => files'[g] = files[g]
        BY <1>1, <2>2 DEF Inv, TypeOK
      <4> QED BY <3>1, <4>1 DEF FileRow
    <3>4. Entries' = [Entries EXCEPT ![f].state = "gone"]
      <4>1. ASSUME NEW g \in FileIds, g = f
            PROVE  Entries' = [Entries EXCEPT ![g] = [Entries[g] EXCEPT !.state = "gone"]]
        <5>1. EntryOf(g)' = [state |-> "gone", owner |-> req[h].user]
          BY <3>3, <4>1 DEF EntryOf
        <5>2. EntryOf(g)' = [Entries[g] EXCEPT !.state = "gone"]
          BY <3>2, <4>1, <5>1
        <5> QED BY <3>3, <4>1, <5>2, EntryTurns
      <4> QED BY <1>1, <4>1
    <3>5. FL!Turn(h, "done") \/ FL!Turn(h, "failed")
      BY <1>5, <1>7, <1>11 DEF Commit
    <3>6. FL!TakeOff(h)
      BY <1>2, <1>3, <2>1, <3>2, <3>4, <3>5 DEF FL!TakeOff, FL!IsDelete
    <3> QED BY <3>6 DEF FL!LNext
  <2>3. CASE UNCHANGED files /\ Goto(h, "failed")
    BY <1>8, <2>1, <2>3
  <2> QED BY <1>11, <2>2, <2>3 DEF Commit, f
<1>12. CASE RemoveFile(h)
  <2>1. req[h].pc = "remove" /\ UNCHANGED files /\ UNCHANGED Entries
    BY <1>12, EntriesStay DEF RemoveFile
  <2>2. CASE RemoveFromDisk(f) /\ Goto(h, "ok")
    <3>1. disk[f] \in {"none", "partial", "whole", "lost"}
      BY <1>1 DEF Inv, TypeOK
    <3>2. FL!Finish(h)
      BY <1>2, <1>3, <1>5, <2>1, <2>2, <3>1
         DEF FL!Finish, FL!IsDelete, FL!Fill, RemoveFromDisk, OnDisk, WriteDisk
    <3> QED BY <3>2 DEF FL!LNext
  <2>3. CASE UNCHANGED disk /\ Goto(h, "failed")
    BY <1>8, <2>1, <2>3
  <2> QED BY <1>12, <2>2, <2>3 DEF RemoveFile, f
<1> QED BY <1>9, <1>10, <1>11, <1>12

LEMMA CrashCutsOff ==
  ASSUME Inv, [Next]_vars, NEW p \in Procs, Crash(p)
  PROVE  FL!LNext
<1> DEFINE lost == {h \in Handlers : Serving(h) /\ req[h].proc = p}
           writing == {req[h].file : h \in {k \in lost : req[k].pc = "write"}}
           uploads == {Requests[h].file : h \in {k \in lost : FL!IsUpload(k, "asked")}}
<1>1. /\ UNCHANGED files /\ UNCHANGED Entries
      /\ req' = [h \in Handlers |-> IF h \in lost THEN Idle ELSE req[h]]
  BY EntriesStay DEF Crash
<1>2. PICK half \in SUBSET writing :
        disk' = [f \in FileIds |-> IF f \in half THEN "partial" ELSE disk[f]]
  BY DEF Crash
<1>3. \A h \in lost : Requests[h].state \in FL!Open
  BY OpenServes DEF Inv
<1>4. writing \subseteq uploads
  <2> SUFFICES ASSUME NEW k \in lost, req[k].pc = "write"
               PROVE  FL!IsUpload(k, "asked") /\ Requests[k].file = req[k].file
    OBVIOUS
  <2>1. StateOf(k) = "asked" /\ req[k].op = "upload"
    BY DEF StateOf, HasActed, Done, Inv, OpOK, UploadPC
  <2> QED BY <2>1, RequestSeen DEF FL!IsUpload
<1>5. \A h \in Handlers : RequestOf(h)' = IF h \in lost THEN FL!NoRequest ELSE Requests[h]
  <2> SUFFICES ASSUME NEW h \in Handlers
               PROVE  RequestOf(h)' = IF h \in lost THEN FL!NoRequest ELSE Requests[h]
    OBVIOUS
  <2> HIDE DEF lost
  <2>1. CASE h \in lost
    <3>1. req'[h].pc = "idle"
      BY <1>1, <2>1 DEF Idle
    <3> QED BY <2>1, <3>1 DEF RequestOf, FL!NoRequest
  <2>2. CASE h \notin lost
    <3>1. RequestOf(h)' = RequestOf(h)
      BY <1>1, <2>2, OthersStay
    <3> QED BY <2>2, <3>1 DEF Requests
  <2> QED BY <2>1, <2>2
<1> HIDE DEF lost
<1>6. Requests' = [h \in Handlers |-> IF h \in lost THEN FL!NoRequest ELSE Requests[h]]
  BY <1>5 DEF Requests
<1>7. FL!CutOff(lost)
  <2>1. half \in SUBSET uploads
    BY <1>2, <1>4
  <2> QED BY <1>1, <1>2, <1>3, <1>6, <2>1 DEF FL!CutOff
<1>8. lost \in SUBSET Handlers
  BY DEF lost
<1> QED BY <1>7, <1>8 DEF FL!LNext

LEMMA RemovalLoses ==
  ASSUME Inv, [Next]_vars, NEW f \in FileIds, WorkloadRemoves(f)
  PROVE  FL!LNext
<1>1. UNCHANGED Entries
  BY EntriesStay DEF WorkloadRemoves
<1>2. UNCHANGED Requests
  <2>1. \A k \in Handlers : req'[k] = req[k]
    BY DEF WorkloadRemoves
  <2> QED BY <2>1, OthersStay, AllStay
<1>3. FL!Lose(f)
  BY <1>1, <1>2 DEF FL!Lose, FL!Fill, WorkloadRemoves, WriteDisk
<1> QED BY <1>3 DEF FL!LNext

\* Every step of the file store is a step of the abstract specification, or one
\* that no client can see.
LEMMA MappedStep ==
  ASSUME Inv, [Next]_vars
  PROVE  [FL!LNext]_<<Entries, disk, Requests>>
<1>1. CASE UNCHANGED vars
  <2>1. UNCHANGED Requests
    BY <1>1, OthersStay, AllStay DEF vars
  <2> QED BY <1>1, <2>1, EntriesStay DEF vars
<1> QED BY <1>1, AsksOne, UploadsOne, DeletesOne, CrashCutsOff, RemovalLoses DEF Next

\* The file store implements the abstract specification of files: whatever
\* replicas, mutexes, transactions, faults and crashes do, every upload and every
\* delete looks like one change of the list of files.
THEOREM FilesImplementLibrary == Spec => ImplementsLibrary
<1>1. Inv /\ [Next]_vars => [FL!LNext]_(FL!lvars)
  BY MappedStep DEF FL!lvars
<1> QED BY <1>1, MappedInit, FilesCorrect, PTL DEF Spec, ImplementsLibrary, FL!LSpec

-----------------------------------------------------------------------------
(* What the abstract specification promises *)

\* An upload that is under way has its file to itself, which no list names
\* before it; a request that has acted left its mark on the list.
Marked(h) ==
  LET r == Requests[h]
      e == Entries[r.file]
  IN
  /\ FL!IsUpload(h, "asked") => e = FL!NoEntry
  /\ FL!IsUpload(h, "done") \/ FL!IsUpload(h, "ok") => e.state # "none" /\ e.owner = r.user
  /\ FL!IsDelete(h, "done") \/ FL!IsDelete(h, "ok") => e.state = "gone"
  /\ FL!IsDelete(h, "ok") => disk[r.file] \notin {"partial", "whole"}

LApart ==
  \A h, k \in Handlers :
    FL!IsUpload(h, "asked") /\ FL!IsUpload(k, "asked") /\ Requests[h].file = Requests[k].file
    => h = k

LInv == FL!LTypeOK /\ LApart /\ \A h \in Handlers : Marked(h)

LEMMA LInvInit == FL!LInit => LInv
<1> SUFFICES ASSUME FL!LInit PROVE LInv
  OBVIOUS
<1>1. \A h \in Handlers : Requests[h].state = "none"
  BY DEF FL!LInit, FL!NoRequest
<1>2. FL!LTypeOK
  BY DEF FL!LInit, FL!LTypeOK
<1> QED BY <1>1, <1>2 DEF LInv, LApart, Marked, FL!IsUpload, FL!IsDelete

\* The request of h turns, and no other.
LEMMA TurnFields ==
  ASSUME FL!LTypeOK, NEW h \in Handlers, Requests[h] # FL!NoRequest,
         NEW s \in FL!Open \cup FL!Answers, FL!Turn(h, s)
  PROVE  /\ Requests' \in [Handlers -> FL!Asking \cup {FL!NoRequest}]
         /\ Requests'[h].state = s /\ Requests'[h].op = Requests[h].op
         /\ Requests'[h].file = Requests[h].file /\ Requests'[h].user = Requests[h].user
         /\ \A k \in Handlers : k # h => Requests'[k] = Requests[k]
<1>1. Requests[h] \in FL!Asking
  BY DEF FL!LTypeOK
<1>2. /\ Requests'[h] = [Requests[h] EXCEPT !.state = s]
      /\ Requests' \in [Handlers -> FL!Asking \cup {FL!NoRequest, Requests'[h]}]
      /\ \A k \in Handlers : k # h => Requests'[k] = Requests[k]
  BY DEF FL!Turn, FL!LTypeOK
<1>3. [Requests[h] EXCEPT !.state = s] \in FL!Asking
  BY <1>1 DEF FL!Asking
<1> QED BY <1>1, <1>2, <1>3 DEF FL!Asking


LEMMA AskKeeps ==
  ASSUME LInv, NEW h \in Handlers, NEW op \in {"upload", "delete"}, NEW u \in Users,
         NEW f \in FileIds, FL!Ask(h, op, u, f)
  PROVE  LInv'
<1> DEFINE new == [state |-> "asked", op |-> op, user |-> u, file |-> f]
<1>1. /\ Requests'[h] = new
      /\ \A k \in Handlers : k # h => Requests'[k] = Requests[k]
      /\ UNCHANGED <<Entries, disk>>
  BY DEF FL!Ask, LInv, FL!LTypeOK
<1>2. FL!LTypeOK'
  <2>1. new \in FL!Asking
    BY DEF FL!Asking, FL!Open
  <2> QED BY <1>1, <2>1 DEF FL!Ask, LInv, FL!LTypeOK
<1>3. op = "upload" =>
        /\ Entries[f] = FL!NoEntry
        /\ \A k \in Handlers : FL!IsUpload(k, "asked") => Requests[k].file # f
  BY DEF FL!Ask, FL!IsUpload, FL!Open
<1>4. LApart'
  BY <1>1, <1>3 DEF LApart, LInv, FL!IsUpload
<1>5. ASSUME NEW k \in Handlers PROVE Marked(k)'
  BY <1>1, <1>3 DEF Marked, LInv, FL!IsUpload, FL!IsDelete
<1> QED BY <1>2, <1>4, <1>5 DEF LInv

LEMMA ActKeeps ==
  ASSUME LInv, NEW h \in Handlers,
         FL!Write(h) \/ FL!Add(h) \/ FL!TakeOff(h) \/ FL!Finish(h) \/ FL!Fail(h)
  PROVE  LInv'
<1> DEFINE f == Requests[h].file
           r == Requests[h]
<1> USE DEF LInv
<1>1. /\ r \in FL!Asking /\ f \in FileIds /\ r.user \in Users
      /\ r # FL!NoRequest /\ r.state \in FL!Open
  BY DEF FL!Write, FL!Add, FL!TakeOff, FL!Finish, FL!Fail, FL!IsUpload, FL!IsDelete, FL!LTypeOK,
     FL!NoRequest, FL!Asking, FL!Open
<1>2. ASSUME NEW s \in FL!Open \cup FL!Answers, FL!Turn(h, s)
      PROVE  /\ Requests' \in [Handlers -> FL!Asking \cup {FL!NoRequest}]
             /\ Requests'[h].state = s /\ Requests'[h].op = r.op
             /\ Requests'[h].file = f /\ Requests'[h].user = r.user
             /\ \A k \in Handlers : k # h => Requests'[k] = Requests[k]
  BY <1>1, <1>2, TurnFields
<1>3. ASSUME NEW c \in {"none", "partial", "whole", "lost"}, FL!Fill(f, c)
      PROVE  /\ disk' \in [FileIds -> {"none", "partial", "whole", "lost"}]
             /\ disk'[f] = c /\ \A g \in FileIds : g # f => disk'[g] = disk[g]
  BY <1>1, <1>3 DEF FL!Fill, FL!LTypeOK
<1>4. \A k \in Handlers : Requests[k].state # "none" => Requests[k].file \in FileIds
  BY DEF FL!LTypeOK, FL!Asking, FL!NoRequest
<1>5. CASE FL!Write(h)
  <2>1. /\ FL!IsUpload(h, "asked") /\ FL!Fill(f, "whole") /\ Entries[f] = FL!NoEntry
        /\ UNCHANGED <<Entries, Requests>>
    BY <1>5 DEF FL!Write
  <2>2. FL!LTypeOK'
    BY <1>3, <2>1 DEF FL!LTypeOK
  <2>3. LApart'
    BY <2>1 DEF LApart, FL!IsUpload
  <2>4. ASSUME NEW k \in Handlers PROVE Marked(k)'
    BY <1>3, <1>4, <2>1 DEF Marked, FL!IsUpload, FL!IsDelete, FL!NoEntry
  <2> QED BY <2>2, <2>3, <2>4
<1>6. CASE FL!Add(h)
  <2> DEFINE new == [state |-> "listed", owner |-> r.user]
  <2>1. /\ FL!IsUpload(h, "asked") /\ Entries[f] = FL!NoEntry /\ UNCHANGED disk
        /\ Entries'[f] = new
        /\ \A g \in FileIds : g # f => Entries'[g] = Entries[g]
    BY <1>1, <1>6 DEF FL!Add, FL!LTypeOK
  <2>2. PICK s \in {"done", "ok"} : FL!Turn(h, s)
    BY <1>6 DEF FL!Add
  <2>3. /\ Requests' \in [Handlers -> FL!Asking \cup {FL!NoRequest}]
        /\ Requests'[h].state = s /\ Requests'[h].op = r.op
        /\ Requests'[h].file = f /\ Requests'[h].user = r.user
        /\ \A k \in Handlers : k # h => Requests'[k] = Requests[k]
    BY <1>2, <2>2 DEF FL!Open, FL!Answers
  <2>4. FL!LTypeOK'
    <3>1. new \in FL!Entry
      BY <1>1 DEF FL!Entry
    <3>2. Entries' \in [FileIds -> FL!Entry \cup {FL!NoEntry}]
      BY <1>6, <3>1 DEF FL!Add, FL!LTypeOK
    <3> QED BY <2>1, <2>3, <3>2 DEF FL!LTypeOK
  <2>5. LApart'
    BY <2>2, <2>3 DEF LApart, FL!IsUpload
  <2>6. ASSUME NEW k \in Handlers PROVE Marked(k)'
    <3>1. CASE k = h
      BY <2>1, <2>2, <2>3, <3>1 DEF Marked, FL!IsUpload, FL!IsDelete
    <3>2. CASE k # h
      <4>1. Requests'[k] = Requests[k] /\ Marked(k)
        BY <2>3, <3>2
      <4>2. FL!IsUpload(k, "asked") => Requests[k].file # f
        BY <2>1, <3>2 DEF LApart
      <4>3. Requests[k].file = f => ~FL!IsUpload(k, "done") /\ ~FL!IsUpload(k, "ok")
                                   /\ ~FL!IsDelete(k, "done") /\ ~FL!IsDelete(k, "ok")
        BY <2>1, <4>1 DEF Marked, FL!NoEntry
      <4>4. Requests[k].file # f /\ Requests[k].state # "none" =>
              Entries'[Requests[k].file] = Entries[Requests[k].file]
        BY <1>4, <2>1
      <4> QED BY <2>1, <4>1, <4>2, <4>3, <4>4 DEF Marked, FL!IsUpload, FL!IsDelete
    <3> QED BY <3>1, <3>2
  <2> QED BY <2>4, <2>5, <2>6
<1>7. CASE FL!TakeOff(h)
  <2>1. /\ FL!IsDelete(h, "asked") /\ UNCHANGED disk
        /\ Entries[f] = [state |-> "listed", owner |-> r.user]
        /\ Entries' = [Entries EXCEPT ![f].state = "gone"]
    BY <1>7 DEF FL!TakeOff
  <2>2. /\ Entries'[f] = [state |-> "gone", owner |-> r.user]
        /\ \A g \in FileIds : g # f => Entries'[g] = Entries[g]
    BY <1>1, <2>1 DEF FL!LTypeOK
  <2>3. PICK s \in {"done", "failed"} : FL!Turn(h, s)
    BY <1>7 DEF FL!TakeOff
  <2>4. /\ Requests' \in [Handlers -> FL!Asking \cup {FL!NoRequest}]
        /\ Requests'[h].state = s /\ Requests'[h].op = r.op
        /\ Requests'[h].file = f /\ Requests'[h].user = r.user
        /\ \A k \in Handlers : k # h => Requests'[k] = Requests[k]
    BY <1>2, <2>3 DEF FL!Open, FL!Answers
  <2>5. FL!LTypeOK'
    <3>1. Entries'[f] \in FL!Entry
      BY <1>1, <2>2 DEF FL!Entry
    <3>2. Entries' \in [FileIds -> FL!Entry \cup {FL!NoEntry}]
      BY <1>1, <2>1, <2>2, <3>1 DEF FL!LTypeOK
    <3> QED BY <2>1, <2>4, <3>2 DEF FL!LTypeOK
  <2>6. LApart'
    BY <2>1, <2>3, <2>4 DEF LApart, FL!IsUpload, FL!IsDelete
  <2>7. ASSUME NEW k \in Handlers PROVE Marked(k)'
    <3>1. CASE k = h
      BY <2>1, <2>2, <2>3, <2>4, <3>1 DEF Marked, FL!IsUpload, FL!IsDelete
    <3>2. CASE k # h
      <4>1. Requests'[k] = Requests[k] /\ Marked(k)
        BY <2>4, <3>2
      <4> QED BY <2>1, <2>2, <4>1, <1>4 DEF Marked, FL!IsUpload, FL!IsDelete, FL!NoEntry
    <3> QED BY <3>1, <3>2
  <2> QED BY <2>5, <2>6, <2>7
<1>8. CASE FL!Finish(h) \/ FL!Fail(h)
  <2>1. UNCHANGED Entries
    BY <1>8 DEF FL!Finish, FL!Fail
  <2>2. PICK s \in {"ok", "failed"} : FL!Turn(h, s) /\ (s = "ok" => FL!Finish(h))
    BY <1>8 DEF FL!Finish, FL!Fail
  <2>3. /\ Requests' \in [Handlers -> FL!Asking \cup {FL!NoRequest}]
        /\ Requests'[h].state = s /\ Requests'[h].op = r.op
        /\ Requests'[h].file = f /\ Requests'[h].user = r.user
        /\ \A k \in Handlers : k # h => Requests'[k] = Requests[k]
    BY <1>2, <2>2 DEF FL!Open, FL!Answers
  <2>4. /\ disk' \in [FileIds -> {"none", "partial", "whole", "lost"}]
        /\ \A g \in FileIds : g # f => disk'[g] = disk[g]
        /\ disk'[f] = disk[f] \/ disk'[f] = "none" \/ FL!IsUpload(h, "asked")
    BY <1>3, <1>8 DEF FL!Finish, FL!Fail, FL!LTypeOK
  <2>5. FL!LTypeOK'
    BY <2>1, <2>3, <2>4 DEF FL!LTypeOK
  <2>6. LApart'
    BY <2>2, <2>3 DEF LApart, FL!IsUpload
  <2>7. FL!Finish(h) => /\ FL!IsDelete(h, "done")
                        /\ disk'[f] \notin {"partial", "whole"}
    BY <1>1, <1>3 DEF FL!Finish
  <2>8. ASSUME NEW k \in Handlers PROVE Marked(k)'
    <3>1. CASE k = h
      BY <2>1, <2>2, <2>3, <2>7, <3>1 DEF Marked, FL!IsUpload, FL!IsDelete
    <3>2. CASE k # h
      <4>1. Requests'[k] = Requests[k] /\ Marked(k) /\ Marked(h)
        BY <2>3, <3>2
      <4> QED BY <2>1, <2>4, <4>1, <1>4 DEF Marked, FL!IsUpload, FL!IsDelete, FL!NoEntry
    <3> QED BY <3>1, <3>2
  <2> QED BY <2>5, <2>6, <2>8
<1> QED BY <1>5, <1>6, <1>7, <1>8

LEMMA EnvironmentKeeps ==
  ASSUME LInv,
         \/ \E lost \in SUBSET Handlers : FL!CutOff(lost)
         \/ \E f \in FileIds : FL!Lose(f)
  PROVE  LInv'
<1> USE DEF LInv
<1>1. \A k \in Handlers : Requests[k].state # "none" => Requests[k].file \in FileIds
  BY DEF FL!LTypeOK, FL!Asking, FL!NoRequest
<1>2. ASSUME NEW lost \in SUBSET Handlers, FL!CutOff(lost) PROVE LInv'
  <2>1. /\ UNCHANGED Entries
        /\ \A k \in Handlers : Requests'[k] = Requests[k] \/ Requests'[k] = FL!NoRequest
    BY <1>2 DEF FL!CutOff
  <2>2. \A f \in FileIds :
          \/ disk'[f] = disk[f]
          \/ \E k \in Handlers : FL!IsUpload(k, "asked") /\ Requests[k].file = f
    BY <1>2 DEF FL!CutOff
  <2>3. FL!LTypeOK'
    BY <1>2 DEF FL!CutOff, FL!LTypeOK
  <2>4. LApart'
    BY <2>1 DEF LApart, FL!IsUpload, FL!NoRequest
  <2>5. ASSUME NEW k \in Handlers PROVE Marked(k)'
    <3>1. CASE Requests'[k] = FL!NoRequest
      BY <3>1 DEF Marked, FL!IsUpload, FL!IsDelete, FL!NoRequest
    <3>2. CASE Requests'[k] = Requests[k]
      <4>1. ASSUME NEW j \in Handlers, FL!IsUpload(j, "asked"), FL!IsDelete(k, "ok"),
                   Requests[j].file = Requests[k].file
            PROVE  FALSE
        BY <4>1 DEF Marked, FL!NoEntry
      <4> QED BY <1>1, <2>1, <2>2, <3>2, <4>1 DEF Marked, FL!IsUpload, FL!IsDelete
    <3> QED BY <2>1, <3>1, <3>2
  <2> QED BY <2>3, <2>4, <2>5
<1>3. ASSUME NEW f \in FileIds, FL!Lose(f) PROVE LInv'
  <2>1. /\ UNCHANGED <<Entries, Requests>>
        /\ disk' \in [FileIds -> {"none", "partial", "whole", "lost"}]
        /\ \A g \in FileIds : disk'[g] = disk[g] \/ disk'[g] = "lost"
    BY <1>3 DEF FL!Lose, FL!Fill, FL!LTypeOK
  <2>2. FL!LTypeOK' /\ LApart'
    BY <2>1 DEF FL!LTypeOK, LApart, FL!IsUpload
  <2>3. ASSUME NEW k \in Handlers PROVE Marked(k)'
    BY <1>1, <2>1 DEF Marked, FL!IsUpload, FL!IsDelete
  <2> QED BY <2>2, <2>3
<1> QED BY <1>2, <1>3

LEMMA LInvStep == LInv /\ [FL!LNext]_(FL!lvars) => LInv'
<1> SUFFICES ASSUME LInv, [FL!LNext]_(FL!lvars) PROVE LInv'
  OBVIOUS
<1>1. CASE UNCHANGED FL!lvars
  BY <1>1 DEF FL!lvars, LInv, FL!LTypeOK, LApart, Marked, FL!IsUpload, FL!IsDelete
<1> QED BY <1>1, AskKeeps, ActKeeps, EnvironmentKeeps DEF FL!LNext

\* By the abstract specification an answer "ok" is true: the upload is, or was,
\* on the list in its user's name, the deleted file is gone from list and disk.
THEOREM LibraryAnswersHold == FL!LSpec => []FL!LAnswersHold
<1>1. LInv => FL!LAnswersHold
  BY DEF LInv, Marked, FL!LAnswersHold, FL!IsUpload, FL!IsDelete, FL!LTypeOK, FL!Asking,
     FL!NoRequest
<1> QED BY <1>1, LInvInit, LInvStep, PTL DEF FL!LSpec

\* And a file comes on the list, and off it, by an open request of its owner.
THEOREM LibraryOwnersOnly == FL!LSpec => FL!LOwnersOnly
<1> DEFINE ByOwner == \A f \in FileIds :
             Entries'[f] # Entries[f] =>
               \E h \in Handlers : /\ Requests[h].state = "asked" /\ Requests[h].file = f
                                   /\ Requests[h].user = Entries'[f].owner
<1>1. LInv /\ [FL!LNext]_(FL!lvars) => [ByOwner]_(FL!lvars)
  <2> SUFFICES ASSUME LInv, FL!LNext PROVE ByOwner
    OBVIOUS
  <2>1. CASE UNCHANGED Entries
    BY <2>1
  <2>2. ASSUME NEW h \in Handlers, FL!Add(h) \/ FL!TakeOff(h) PROVE ByOwner
    <3>1. /\ Requests[h].state = "asked" /\ Requests[h].file \in FileIds
      BY <2>2 DEF FL!Add, FL!TakeOff, FL!IsUpload, FL!IsDelete, LInv, FL!LTypeOK, FL!Asking,
         FL!NoRequest
    <3>2. /\ Entries'[Requests[h].file].owner = Requests[h].user
          /\ \A g \in FileIds : g # Requests[h].file => Entries'[g] = Entries[g]
      <4>1. CASE FL!Add(h)
        BY <3>1, <4>1 DEF FL!Add, LInv, FL!LTypeOK
      <4>2. CASE FL!TakeOff(h)
        BY <3>1, <4>2 DEF FL!TakeOff, LInv, FL!LTypeOK
      <4> QED BY <2>2, <4>1, <4>2
    <3> QED BY <3>1, <3>2
  <2> QED BY <2>1, <2>2 DEF FL!LNext, FL!Ask, FL!Write, FL!Finish, FL!Fail, FL!CutOff, FL!Lose
<1> QED BY <1>1, LInvInit, LInvStep, PTL DEF FL!LSpec, FL!LOwnersOnly

\* So every answer of the file store is true, through faults, crashes and the
\* requests that follow it.
THEOREM AnswersAreTrue == Spec => []AnswersHold
<1>1. Spec => FL!LSpec
  BY FilesImplementLibrary DEF ImplementsLibrary
<1>2. Spec => []FL!LAnswersHold
  BY <1>1, LibraryAnswersHold, PTL
<1> QED BY <1>2 DEF AnswersHold
=============================================================================
