---------------------------- MODULE FileLibrary ----------------------------
(***************************************************************************)
(* What the file API promises its clients, without transactions, locks,    *)
(* replicas or the order of disk and table: a file comes by one upload and *)
(* goes by one delete of its owner, each at one moment while the request   *)
(* is under way, and an answer "ok" says that it happened.  A request that *)
(* fails or is cut off may have had its effect or not.                     *)
(***************************************************************************)
CONSTANTS Users, FileIds, Handlers

VARIABLES entry,          \* what the list of files says of each one
          content,        \* what storage has of it
          request         \* the request of each connection

lvars == <<entry, content, request>>

NoEntry == [state |-> "none"]
Entry == [state : {"listed", "gone"}, owner : Users]

Open == {"asked", "done"}       \* under way: before and after its effect
Answers == {"ok", "failed"}
NoRequest == [state |-> "none"]
Asking == [state : Open \cup Answers, op : {"upload", "delete"}, user : Users, file : FileIds]

LTypeOK == /\ entry \in [FileIds -> Entry \cup {NoEntry}]
           /\ content \in [FileIds -> {"none", "partial", "whole", "lost"}]
           /\ request \in [Handlers -> Asking \cup {NoRequest}]

LInit == /\ entry = [f \in FileIds |-> NoEntry]
         /\ content = [f \in FileIds |-> "none"]
         /\ request = [h \in Handlers |-> NoRequest]

IsUpload(h, state) == request[h].state = state /\ request[h].op = "upload"
IsDelete(h, state) == request[h].state = state /\ request[h].op = "delete"

Turn(h, state) == request' = [request EXCEPT ![h] = [@ EXCEPT !.state = state]]
Fill(f, value) == content' = [content EXCEPT ![f] = value]

-----------------------------------------------------------------------------
\* An upload gets an id of its own; a delete names any.
Ask(h, op, u, f) ==
  /\ request[h].state \notin Open
  /\ op = "upload" => /\ entry[f] = NoEntry /\ content[f] = "none"
                      /\ \A k \in Handlers : request[k].state \in Open => request[k].file # f
  /\ request' = [request EXCEPT ![h] = [state |-> "asked", op |-> op, user |-> u, file |-> f]]
  /\ UNCHANGED <<entry, content>>

\* An upload stores its content.
Write(h) == /\ IsUpload(h, "asked")
            /\ entry[request[h].file] = NoEntry
            /\ Fill(request[h].file, "whole")
            /\ UNCHANGED <<entry, request>>

\* It lists the file, whose content has been stored, perhaps without learning that it did.
Add(h) ==
  LET f == request[h].file IN
  /\ IsUpload(h, "asked")
  /\ entry[f] = NoEntry /\ content[f] \in {"whole", "lost"}
  /\ entry' = [entry EXCEPT ![f] = [state |-> "listed", owner |-> request[h].user]]
  /\ \E s \in {"done", "ok"} : Turn(h, s)
  /\ UNCHANGED content

\* A delete takes its user's file off the list, perhaps without learning that it did.
TakeOff(h) ==
  LET f == request[h].file IN
  /\ IsDelete(h, "asked")
  /\ entry[f] = [state |-> "listed", owner |-> request[h].user]
  /\ entry' = [entry EXCEPT ![f].state = "gone"]
  /\ \E s \in {"done", "failed"} : Turn(h, s)
  /\ UNCHANGED content

\* It is done when nothing of the content is left either.
Finish(h) ==
  LET f == request[h].file IN
  /\ IsDelete(h, "done")
  /\ Turn(h, "ok")
  /\ \/ content[f] \in {"partial", "whole"} /\ Fill(f, "none")
     \/ content[f] \in {"none", "lost"} /\ UNCHANGED content
  /\ UNCHANGED entry

\* A request fails; an upload may leave a part of its content, or clean up.
Fail(h) ==
  LET f == request[h].file IN
  /\ request[h].state \in Open
  /\ Turn(h, "failed")
  /\ \/ UNCHANGED content
     \/ IsUpload(h, "asked") /\ Fill(f, "partial")
     \/ request[h].op = "upload" /\ Fill(f, "none")
  /\ UNCHANGED entry

\* Requests are cut off, uploads in the middle of their content.
CutOff(lost) ==
  /\ \A h \in lost : request[h].state \in Open
  /\ request' = [h \in Handlers |-> IF h \in lost THEN NoRequest ELSE request[h]]
  /\ \E half \in SUBSET {request[h].file : h \in {k \in lost : IsUpload(k, "asked")}} :
       content' = [f \in FileIds |-> IF f \in half THEN "partial" ELSE content[f]]
  /\ UNCHANGED entry

\* A user's container removes the content of a file.
Lose(f) == /\ content[f] = "whole"
           /\ Fill(f, "lost")
           /\ UNCHANGED <<entry, request>>

LNext == \/ \E h \in Handlers, op \in {"upload", "delete"}, u \in Users, f \in FileIds :
              Ask(h, op, u, f)
         \/ \E h \in Handlers : Write(h) \/ Add(h) \/ TakeOff(h) \/ Finish(h) \/ Fail(h)
         \/ \E lost \in SUBSET Handlers : CutOff(lost)
         \/ \E f \in FileIds : Lose(f)

LSpec == LInit /\ [][LNext]_lvars

-----------------------------------------------------------------------------
\* The promises, which follow from LSpec.

\* Who is told "ok" has had the effect, in the list and in storage.
LAnswersHold ==
  \A h \in Handlers :
    request[h].state = "ok" =>
      LET f == request[h].file IN
      IF request[h].op = "upload" THEN entry[f].state # "none" /\ entry[f].owner = request[h].user
      ELSE entry[f].state = "gone" /\ content[f] \notin {"partial", "whole"}

\* A file is listed, and taken off the list, by a request of its owner under way.
LOwnersOnly ==
  [][\A f \in FileIds :
       entry'[f] # entry[f] =>
         \E h \in Handlers : /\ request[h].state = "asked" /\ request[h].file = f
                             /\ request[h].user = entry'[f].owner]_lvars
=============================================================================
