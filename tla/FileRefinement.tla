--------------------------- MODULE FileRefinement ---------------------------
(***************************************************************************)
(* FileStore implements FileLibrary: whatever replicas, mutexes,           *)
(* transactions, faults and crashes do, each upload and each delete looks  *)
(* like one change of the list of files.                                   *)
(***************************************************************************)
EXTENDS FileStore

EntryOf(f) == CASE files[f].status = "unused" -> [state |-> "none"]
                [] files[f].status = "stored" -> [state |-> "listed", owner |-> files[f].owner]
                [] files[f].status = "gone"   -> [state |-> "gone", owner |-> files[f].owner]

\* A request has had its effect when the row was inserted or the deletion committed.
HasActed(h) == \/ req[h].pc = "remove"
               \/ req[h].pc = "cleanup" /\ files[req[h].file].status # "unused"

StateOf(h) == IF req[h].pc \in Done THEN req[h].pc
              ELSE IF HasActed(h) THEN "done" ELSE "asked"

RequestOf(h) == IF req[h].pc = "idle" THEN [state |-> "none"]
                ELSE [state |-> StateOf(h), op |-> req[h].op, user |-> req[h].user,
                      file |-> req[h].file]

Entries == [f \in FileIds |-> EntryOf(f)]
Requests == [h \in Handlers |-> RequestOf(h)]

FL == INSTANCE FileLibrary WITH entry <- Entries, content <- disk, request <- Requests

\* Every behaviour of the file store is one the abstract specification allows.
ImplementsLibrary == FL!LSpec

\* An upload that was answered 201 has, or had until a delete, its row in its
\* user's name; a delete that was answered 204 has removed row and file.
AnswersHold == FL!LAnswersHold
=============================================================================
