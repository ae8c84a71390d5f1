------------------------------ MODULE Snapshot ------------------------------
(***************************************************************************)
(* The JSONP endpoints of cmd/api/internal/handler/jsonp.go for one file   *)
(* of the snapshot directory: a request fetches the document from the RPC  *)
(* service and publishes it with writeSnapshot, which writes a temporary   *)
(* file and renames it.  All requests use the same temporary name.         *)
(*                                                                         *)
(* The file system is POSIX: a name refers to a file, an open file stays   *)
(* open when its name changes, and each descriptor writes from offset 0.   *)
(* A file is a sequence of the versions its bytes come from; document v is *)
(* Length[v] times v.                                                      *)
(***************************************************************************)
EXTENDS Naturals, Sequences

CONSTANTS Requests,    \* the handlers in progress
          Versions,    \* the documents the RPC service answers with over time
          Length,      \* how long each document is
          Flat,        \* whether the endpoint uses serveJSONPFlat
          MaxFiles     \* bound on the files created

ASSUME SnapshotAssumption ==
    /\ Versions \subseteq Nat \ {0}
    /\ Length \in [Versions \cup {0} -> Nat \ {0}]
    /\ Flat \in BOOLEAN
    /\ MaxFiles \in Nat

\* Document 0 is the "[]" that serveJSONPFlat puts in place of an empty result.
Documents == Versions \cup {0}
Whole(v) == [i \in 1..Length[v] |-> v]

VARIABLES content,       \* the files, in the order of their creation
          tmp, full,     \* the file that each name refers to, 0 for none
          current,       \* the document in the RPC service
          step, doc, fd, \* the requests: their step, their document, their open file
          shared         \* history: two requests have been writing at the same time

snapshotVars == <<content, tmp, full, current, step, doc, fd, shared>>

SnapshotInit ==
    /\ content = << >>
    /\ tmp = 0
    /\ full = 0
    /\ current \in Versions
    /\ step = [q \in Requests |-> "idle"]
    /\ doc = [q \in Requests |-> 0]
    /\ fd = [q \in Requests |-> 0]
    /\ shared = FALSE

End(q) ==
    /\ step' = [step EXCEPT ![q] = "idle"]
    /\ doc' = [doc EXCEPT ![q] = 0]
    /\ fd' = [fd EXCEPT ![q] = 0]

\* What the endpoint makes of the answer: nothing is written when the call
\* fails, nor by serveJSONP when the answer has an error code.
Published == {current} \cup (IF Flat THEN {0} ELSE {})

Fetch(q, v) ==
    /\ step[q] = "idle"
    /\ v \in Published
    /\ step' = [step EXCEPT ![q] = "open"]
    /\ doc' = [doc EXCEPT ![q] = v]
    /\ UNCHANGED <<content, tmp, full, current, fd>>

\* Mutant: the snapshot is written in place.
Open_InPlace(q) ==
    /\ step[q] = "open"
    /\ step' = [step EXCEPT ![q] = "write"]
    /\ IF full # 0
       THEN /\ content' = [content EXCEPT ![full] = << >>]
            /\ fd' = [fd EXCEPT ![q] = full]
            /\ UNCHANGED tmp
       ELSE /\ Len(content) < MaxFiles
            /\ content' = Append(content, << >>)
            /\ tmp' = Len(content) + 1
            /\ fd' = [fd EXCEPT ![q] = Len(content) + 1]
    /\ UNCHANGED <<full, current, doc>>

\* os.WriteFile opens the temporary name: a file that exists is truncated ...
Open(q) ==
    /\ step[q] = "open"
    /\ step' = [step EXCEPT ![q] = "write"]
    /\ IF tmp # 0
       THEN /\ content' = [content EXCEPT ![tmp] = << >>]
            /\ fd' = [fd EXCEPT ![q] = tmp]
            /\ UNCHANGED tmp
       ELSE /\ Len(content) < MaxFiles
            /\ content' = Append(content, << >>)
            /\ tmp' = Len(content) + 1
            /\ fd' = [fd EXCEPT ![q] = Len(content) + 1]
    /\ UNCHANGED <<full, current, doc>>

\* Writing document v at offset 0 of a file.
Over(old, v) == Whole(v) \o SubSeq(old, Length[v] + 1, Len(old))

\* ... and the document is written, in one or more calls (the first part of
\* it, then the whole), unless the disk is full.
Write(q, part) ==
    /\ step[q] = "write"
    /\ IF part
       THEN /\ content' = [content EXCEPT ![fd[q]] = <<doc[q]>> \o SubSeq(@, 2, Len(@))]
            /\ UNCHANGED step
       ELSE /\ content' = [content EXCEPT ![fd[q]] = Over(@, doc[q])]
            /\ step' = [step EXCEPT ![q] = "rename"]
    /\ UNCHANGED <<tmp, full, current, doc, fd>>

WriteFails(q) ==
    /\ step[q] = "write"
    /\ End(q)
    /\ UNCHANGED <<content, tmp, full, current>>

\* os.Rename; its error, when the name is gone, is ignored.
Rename(q) ==
    /\ step[q] = "rename"
    /\ full' = IF tmp # 0 THEN tmp ELSE full
    /\ tmp' = 0
    /\ End(q)
    /\ UNCHANGED <<content, current>>

\* The data change.
Update(v) ==
    /\ v # current
    /\ current' = v
    /\ UNCHANGED <<content, tmp, full, step, doc, fd>>

\* The HTTP service stops and starts again.
Restart ==
    /\ step' = [q \in Requests |-> "idle"]
    /\ doc' = [q \in Requests |-> 0]
    /\ fd' = [q \in Requests |-> 0]
    /\ UNCHANGED <<content, tmp, full, current>>

Writing == {q \in Requests : step[q] \in {"write", "rename"}}

SnapshotNext ==
    \/ \E q \in Requests, v \in Documents : Fetch(q, v) /\ UNCHANGED shared
    \/ \E q \in Requests : Open(q) /\ shared' = (shared \/ Writing \ {q} # {})
    \/ \E q \in Requests : (WriteFails(q) \/ Rename(q)) /\ UNCHANGED shared
    \/ \E q \in Requests, part \in BOOLEAN : Write(q, part) /\ UNCHANGED shared
    \/ \E v \in Versions : Update(v) /\ UNCHANGED shared
    \/ Restart /\ UNCHANGED shared

SnapshotSpec == SnapshotInit /\ [][SnapshotNext]_snapshotVars

-----------------------------------------------------------------------------
(* Properties                                                              *)

\* The published snapshot is one whole document, whenever it is read and
\* wherever the service was stopped (writeSnapshot writes "atomically").
SnapshotWhole == full # 0 => \E v \in Documents : content[full] = Whole(v)

\* What does hold: the snapshot is whole, over full disks, short writes,
\* leftover temporary files and restarts at every step, as long as no two
\* requests have been between the open and the rename at the same time.
SnapshotWholeAlone == ~ shared => SnapshotWhole
=============================================================================
