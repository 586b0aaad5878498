------------------------------ MODULE FileStream ------------------------------
(***************************************************************************)
(* One stream of files: the generator FileSender.read_chunks on the        *)
(* sender's machine, the chunks under way, and FileReceiver on the         *)
(* receiver's, which writes them to the save folder.                       *)
(*                                                                         *)
(* What is sent is a sequence of entries: folders, symbolic links and      *)
(* files, folders before what is in them.  A file is read in blocks until  *)
(* a block is short, so its last chunk may be empty.  The disk is a node   *)
(* per path; a node that is locked has a mode that lets its owner neither  *)
(* write to it nor search it.  The receiver knows a new entry by its path. *)
(* What the same selection has left when it was sent before is removed, as *)
(* far as it can be: nothing is taken out of a locked folder, and rm_any   *)
(* passes over that.                                                       *)
(*                                                                         *)
(* Progress is counted in idle callbacks of the main loop, one per chunk;  *)
(* the one that reaches the total sets FINISHED by itself, if the last     *)
(* report was two seconds ago.                                             *)
(*                                                                         *)
(* A definition whose comment begins with (slip) is a plausible mistake in *)
(* the definition that follows it; no action uses it.                      *)
(***************************************************************************)
EXTENDS Integers, Sequences, SequencesExt

CONSTANTS
    Trees,          \* what may be sent: sequences of entries
    BlockSize,      \* bytes in a block
    Window,         \* bound: chunks under way
    PreservePerms,  \* permissions are preserved
    Faults          \* what may go wrong

Fault == {"stop", "read", "write", "cancel", "loss", "compress", "decompress"}

\* above: the folders that its path leads through
Entry == [path : STRING, top : STRING, above : SUBSET STRING,
          type : {"folder", "link", "file"}, size : Nat, locked : BOOLEAN]

\* A folder comes before what is in it, which has the top of the folder.
ASSUME TreesAssumption ==
    \A t \in Trees :
        /\ t \in Seq(Entry) /\ t # <<>>
        /\ \A i \in DOMAIN t :
              /\ t[i].above = {} => t[i].top = t[i].path
              /\ \A p \in t[i].above :
                    \E j \in 1 .. i - 1 : /\ t[j].path = p
                                          /\ t[j].type = "folder"
                                          /\ t[j].top = t[i].top
\* What is selected is listed with all that is in it before what is selected next; a top
\* that is selected twice has its path twice.
ASSUME TopsAssumption ==
    \A t \in Trees :
        (\A i, j \in DOMAIN t : t[i].path = t[j].path => i = j) =>
            \A i, j, k \in DOMAIN t :
                i < j /\ j < k /\ t[i].top = t[k].top => t[j].top = t[i].top
ASSUME StreamAssumption ==
    /\ BlockSize \in Nat \ {0}
    /\ Window \in Nat \ {0}
    /\ PreservePerms \in BOOLEAN
    /\ Faults \subseteq Fault

NoEntry == 0

Path == UNION {{t[i].path : i \in DOMAIN t} : t \in Trees}

VARIABLES
    files,      \* resolved_files
    exact,      \* total_size is the number of the bytes that will be sent
    file,       \* the entry the generator is at
    block,      \* chunks it has sent of it
    gen,        \* the generator
    evt,        \* its cancellable is set
    pipe,       \* chunks under way
    call,       \* the call
    rcv,        \* start_transfer_op
    current,    \* the entry of current_path, or NoEntry
    remaining,  \* remaining_count
    perms,      \* folder_permission_change_list
    disk,       \* the save folder
    status,     \* the status of the ReceiveOp
    due,        \* update_progress callbacks that wait
    counted,    \* chunks they have counted
    faulty,     \* history: a fault has happened
    early,      \* history: a progress callback has set FINISHED
    left        \* history: clean_existing_files has left something there

settled == <<files, exact, left>>
sender == <<file, block, gen, evt>>
receiver == <<rcv, current, remaining, perms, disk>>
progress == <<due, counted, early>>
vars == <<settled, sender, pipe, call, receiver, status, progress, faulty>>

-----------------------------------------------------------------------------
\* Bytes of the k-th chunk of entry i
Length(i, k) ==
    IF k <= files[i].size \div BlockSize THEN BlockSize
                                         ELSE files[i].size % BlockSize

Chunks(i) ==
    IF files[i].type = "file" THEN files[i].size \div BlockSize + 1 ELSE 1

\* Chunks that hold bytes
Full(i) ==
    IF files[i].type # "file" THEN 0
    ELSE IF files[i].size % BlockSize = 0 THEN Chunks(i) - 1 ELSE Chunks(i)

\* Those of the first n entries
FullUpTo[n \in 0 .. Len(files)] == IF n = 0 THEN 0 ELSE FullUpTo[n - 1] + Full(n)

Total == FullUpTo[Len(files)]

\* top_dir_basenames
Tops == {files[i].top : i \in DOMAIN files}

Absent == [kind |-> "absent", data |-> <<>>, locked |-> FALSE]

Node(i, data) == [kind |-> files[i].type, data |-> data, locked |-> FALSE]

\* From an earlier transfer, which kept the modes or did not
Old(i, modes) ==
    [kind |-> files[i].type,
     data |-> IF files[i].type = "folder" THEN <<>> ELSE << <<NoEntry, 1>> >>,
     locked |-> modes /\ files[i].type # "link" /\ files[i].locked]

\* Entries that a disk can have had
Earlier(old) ==
    /\ \A i, j \in old : files[i].path = files[j].path => i = j
    /\ \A i \in old : \A p \in files[i].above :
          \E j \in old : files[j].path = p /\ files[j].type = "folder"

Before(old, modes) ==
    [p \in Path |-> IF \E i \in old : files[i].path = p
                      THEN Old(CHOOSE i \in old : files[i].path = p, modes)
                      ELSE Absent]

\* What the file is made of
Content(i) == [k \in 1 .. Full(i) |-> <<i, k>>]

TypeOK ==
    /\ files \in Trees
    /\ exact \in BOOLEAN
    /\ file \in 1 .. Len(files) + 1
    /\ block \in Nat
    /\ gen \in {"running", "done", "gave_up", "dropped"}
    /\ evt \in BOOLEAN
    /\ Len(pipe) <= Window
    /\ \A n \in DOMAIN pipe : /\ pipe[n].entry \in DOMAIN files
                              /\ pipe[n].number \in 1 .. Chunks(pipe[n].entry)
    /\ call \in {"up", "cancelled", "broken"}
    /\ rcv \in {"cleaning", "receiving", "closing", "counting", "ended"}
    /\ current \in {NoEntry} \cup DOMAIN files
    /\ remaining \in 0 .. Len(files)
    /\ perms \in Seq(DOMAIN files)
    /\ DOMAIN disk = Path
    /\ \A p \in Path : /\ disk[p].kind \in {"absent", "folder", "link", "file"}
                       /\ disk[p].locked \in BOOLEAN
    /\ status \in {"TRANSFERRING", "FINISHED", "FINISHED_WARNING", "FAILED",
                   "STOPPED"}
    /\ due \in Nat
    /\ counted \in 0 .. Total
    /\ faulty \in BOOLEAN
    /\ early \in BOOLEAN
    /\ left \in BOOLEAN

\* Any part of the selection may be there: from an earlier transfer of it, when it had
\* less in it, or what could not be removed since.  Folders and links have a size of
\* their own, which is never sent.
Init ==
    /\ files \in Trees
    /\ exact \in BOOLEAN
    /\ exact => \A i \in DOMAIN files : files[i].type = "file"
    /\ file = 1
    /\ block = 0
    /\ gen = "running"
    /\ evt = FALSE
    /\ pipe = <<>>
    /\ call = "up"
    /\ rcv = "cleaning"
    /\ current = NoEntry
    /\ remaining = Len(files)
    /\ perms = <<>>
    /\ \E old \in SUBSET DOMAIN files, modes \in BOOLEAN :
          Earlier(old) /\ disk = Before(old, modes)
    /\ status = "TRANSFERRING"
    /\ due = 0
    /\ counted = 0
    /\ faulty = FALSE
    /\ early = FALSE
    /\ left = FALSE

-----------------------------------------------------------------------------
(***************************************************************************)
(* FileSender.read_chunks.  The cancellable is looked at before every      *)
(* entry and before every block.                                           *)
(***************************************************************************)
SendChunk ==
    /\ gen = "running"
    /\ call = "up"
    /\ ~evt
    /\ file <= Len(files)
    /\ Len(pipe) < Window
    /\ pipe' = Append(pipe, [entry |-> file, number |-> block + 1])
    /\ IF block + 1 = Chunks(file)
         THEN file' = file + 1 /\ block' = 0
         ELSE block' = block + 1 /\ UNCHANGED file
    /\ UNCHANGED <<settled, gen, evt, call, receiver, status, progress, faulty>>

EndGenerator(g) ==
    /\ gen = "running"
    /\ gen' = g
    /\ UNCHANGED <<settled, file, block, evt, pipe, call, receiver, status, progress>>

\* (slip) no end for a sender that was stopped when all was sent
AllSentUnlessStopped ==
    /\ file = Len(files) + 1
    /\ ~evt
    /\ EndGenerator("done")
    /\ UNCHANGED faulty

AllSent ==
    /\ file = Len(files) + 1
    /\ EndGenerator("done")
    /\ UNCHANGED faulty

\* It returns, as if all had been sent.
SendStopped ==
    /\ evt
    /\ file <= Len(files)
    /\ EndGenerator("gave_up")
    /\ UNCHANGED faulty

ReadError ==
    /\ "read" \in Faults
    /\ file <= Len(files)
    /\ files[file].type = "file"
    /\ faulty' = TRUE
    /\ EndGenerator("gave_up")

\* gRPC drops the generator of a call that has ended.
GeneratorDropped ==
    /\ call # "up" \/ rcv = "ended"
    /\ EndGenerator("dropped")
    /\ UNCHANGED faulty

\* ChunkCompressor: the call is aborted with DATA_LOSS.  Chunks without bytes are
\* sent as they are.
CompressionFails ==
    /\ "compress" \in Faults
    /\ gen = "running"
    /\ call = "up"
    /\ ~evt
    /\ file <= Len(files)
    /\ block + 1 <= Full(file)
    /\ gen' = "dropped"
    /\ call' = "broken"
    /\ faulty' = TRUE
    /\ UNCHANGED <<settled, file, block, evt, pipe, receiver, status, progress>>

Generator == SendChunk \/ AllSent \/ SendStopped \/ GeneratorDropped

-----------------------------------------------------------------------------
(***************************************************************************)
(* FileReceiver.                                                           *)
(***************************************************************************)

\* The folders that a path leads through
Above(p) == UNION {files[i].above : i \in {j \in DOMAIN files : files[j].path = p}}

\* Nothing is taken out of it, and nothing comes into it.
Shut(d, p) == d[p].kind = "folder" /\ d[p].locked

IsIn(p, tops) == \E i \in DOMAIN files : files[i].path = p /\ files[i].top \in tops

There(d, top) == {p \in Path : d[p].kind # "absent" /\ IsIn(p, {top})}

\* rmtree raises at folder q: it has come to all of a folder's entries or to none,
\* except for the folders that q is in, and takes nothing out of q.
StopsAt(d, top, kept, q) ==
    /\ Shut(d, q)
    /\ \E p \in There(d, top) : q \in Above(p)
    /\ Above(q) \subseteq kept
    /\ \A p \in There(d, top) :
          \A o \in Above(p) : IF o = q THEN p \in kept
                              ELSE o \notin Above(q) => (p \in kept <=> o \in kept)

\* What is left of a toplevel after rm_any, which passes over every error.
Stays(d, top, kept) ==
    /\ kept \subseteq There(d, top)
    /\ \A p \in There(d, top) \ kept : \A o \in Above(p) : ~Shut(d, o)
    /\ kept = {} \/ \E q \in kept : StopsAt(d, top, kept, q)

Removed(d, tops, kept) ==
    [p \in Path |-> IF IsIn(p, tops) /\ p \notin kept THEN Absent ELSE d[p]]

CleanExistingFiles ==
    /\ rcv = "cleaning"
    /\ rcv' = "receiving"
    /\ \E kept \in SUBSET UNION {There(disk, top) : top \in Tops} :
          /\ \A top \in Tops : Stays(disk, top, kept \cap There(disk, top))
          /\ disk' = Removed(disk, Tops, kept)
          /\ left' = (kept # {})
    /\ UNCHANGED <<files, exact, sender, pipe, call, current, remaining, perms, status,
                   progress, faulty>>

\* os.chmod: no path leads through a locked folder.
Chmod(d, i) ==
    IF \E p \in files[i].above : d[p].locked
      THEN d
      ELSE [d EXCEPT ![files[i].path].locked = files[i].locked]

\* close_current_file.  The modes of folders are kept for the end.
IsCurrent(type) == current # NoEntry /\ files[current].type = type

ClosedDisk ==
    IF PreservePerms /\ IsCurrent("file") THEN Chmod(disk, current) ELSE disk

ClosedPerms ==
    IF PreservePerms /\ IsCurrent("folder") THEN Append(perms, current) ELSE perms

\* (slip) the call without an entry counts, too
ClosedRemainingAlways == remaining - 1

ClosedRemaining == remaining - (IF current = NoEntry THEN 0 ELSE 1)

\* clean_current_top_dir_file: what may be there then
Cleaned(d, i) ==
    IF i = NoEntry THEN {d}
    ELSE LET top == files[i].top
         IN  {Removed(d, {top}, kept) :
                kept \in {k \in SUBSET There(d, top) : Stays(d, top, k)}}

\* report_receive_error
ReportReceiveError(d, i) ==
    /\ disk' \in Cleaned(d, i)
    /\ status' = "FAILED"
    /\ rcv' = "ended"

\* makedirs, the replacing of a link, and the creation of a file, which fails if
\* the path exists
CanPlace(d, i, append) ==
    /\ \A p \in files[i].above : d[p].kind = "folder" /\ ~Shut(d, p)
    /\ LET there == d[files[i].path].kind
       IN  CASE files[i].type = "folder" -> there \in {"absent", "folder"}
             [] files[i].type = "link"   -> there # "folder"
             [] files[i].type = "file"   -> there = "absent" \/ append

Placed(d, i, k) ==
    LET p == files[i].path
    IN  CASE files[i].type = "folder" ->
                 IF d[p].kind = "folder" THEN d ELSE [d EXCEPT ![p] = Node(i, <<>>)]
          [] files[i].type = "link" -> [d EXCEPT ![p] = Node(i, <<>>)]
          [] files[i].type = "file" ->
                 [d EXCEPT ![p] = Node(i, IF Length(i, k) > 0
                                            THEN Append(d[p].data, <<i, k>>)
                                            ELSE d[p].data)]

\* A cancelled call yields no more chunks; a broken one may, before it raises.
Receives == rcv = "receiving" /\ call # "cancelled" /\ pipe # <<>>

\* A chunk of the path before goes on with its entry, whatever it is a chunk of.
Same(i) == current # NoEntry /\ files[current].path = files[i].path

ReceiveData ==
    LET i == Head(pipe).entry
        k == Head(pipe).number
        d == IF Same(i) THEN disk ELSE ClosedDisk
        n == IF Same(i) THEN remaining ELSE ClosedRemaining
    IN  /\ Receives
        /\ pipe' = Tail(pipe)
        /\ current' = IF Same(i) THEN current ELSE i
        /\ perms' = IF Same(i) THEN perms ELSE ClosedPerms
        /\ remaining' = n
        /\ IF n > 0 /\ CanPlace(d, i, Same(i) /\ IsCurrent("file"))
             THEN /\ disk' = Placed(d, i, k)
                  /\ due' = due + (IF k <= Full(i) THEN 1 ELSE 0)
                  /\ UNCHANGED <<rcv, status>>
             ELSE /\ ReportReceiveError(d, i)
                  /\ UNCHANGED due
        /\ UNCHANGED <<settled, sender, call, counted, early, faulty>>

\* No space is left, or the like.
WriteError ==
    LET i == Head(pipe).entry
    IN  /\ "write" \in Faults
        /\ Receives
        /\ faulty' = TRUE
        /\ pipe' = Tail(pipe)
        /\ current' = IF Same(i) THEN current ELSE i
        /\ perms' = IF Same(i) THEN perms ELSE ClosedPerms
        /\ remaining' = IF Same(i) THEN remaining ELSE ClosedRemaining
        /\ ReportReceiveError(IF Same(i) THEN disk ELSE ClosedDisk, i)
        /\ UNCHANGED <<settled, sender, call, progress>>

\* StreamReponseWrapper: the iterator raises before receive_data gets the chunk.
DecompressionFails ==
    /\ "decompress" \in Faults
    /\ Receives
    /\ Head(pipe).number <= Full(Head(pipe).entry)
    /\ faulty' = TRUE
    /\ pipe' = Tail(pipe)
    /\ ReportReceiveError(disk, current)
    /\ UNCHANGED <<settled, sender, call, current, remaining, perms, progress>>

\* receive_finished
ReceiveFinished ==
    /\ rcv = "receiving"
    /\ call = "up"
    /\ pipe = <<>>
    /\ gen \in {"done", "gave_up"}
    /\ rcv' = "closing"
    /\ disk' = ClosedDisk
    /\ perms' = ClosedPerms
    /\ remaining' = ClosedRemaining
    /\ current' = NoEntry
    /\ UNCHANGED <<settled, sender, pipe, call, status, progress, faulty>>

\* (slip) parents before their children
ApplyTopDown ==
    /\ rcv = "closing"
    /\ perms # <<>>
    /\ disk' = Chmod(disk, Head(perms))
    /\ perms' = Tail(perms)
    /\ UNCHANGED <<settled, sender, pipe, call, rcv, current, remaining, status, progress,
                   faulty>>

\* One turn of apply_folder_permissions, which takes the last of the list; a mode that
\* cannot be set is passed over.
ApplyFolderPermissions ==
    /\ rcv = "closing"
    /\ perms # <<>>
    /\ disk' = Chmod(disk, Last(perms))
    /\ perms' = Front(perms)
    /\ UNCHANGED <<settled, sender, pipe, call, rcv, current, remaining, status, progress,
                   faulty>>

\* progress_tracker.finished() says FINISHED before the entries are counted.
PermissionsApplied ==
    /\ rcv = "closing"
    /\ perms = <<>>
    /\ rcv' = "counting"
    /\ status' = "FINISHED"
    /\ UNCHANGED <<settled, sender, pipe, call, current, remaining, perms, disk, progress,
                   faulty>>

\* What comes of the count
TransferFinished ==
    /\ rcv = "counting"
    /\ rcv' = "ended"
    /\ status' = IF remaining > 0 THEN "FINISHED_WARNING" ELSE "FINISHED"
    /\ UNCHANGED <<settled, sender, pipe, call, current, remaining, perms, disk, progress,
                   faulty>>

\* (slip) what has been written stays
ReceiveAborted ==
    /\ rcv = "receiving"
    /\ call # "up"
    /\ rcv' = "ended"
    /\ status' = IF call = "broken" THEN "FAILED" ELSE status
    /\ UNCHANGED <<settled, sender, pipe, call, current, remaining, perms, disk,
                   progress, faulty>>

\* The iterator raises; nothing is reported of a call that was cancelled.
ReceiveFailed ==
    /\ rcv = "receiving"
    /\ call # "up"
    /\ rcv' = "ended"
    /\ disk' \in Cleaned(disk, current)
    /\ status' = IF call = "broken" THEN "FAILED" ELSE status
    /\ UNCHANGED <<settled, sender, pipe, call, current, remaining, perms, progress,
                   faulty>>

Receiver ==
    \/ CleanExistingFiles \/ ReceiveData \/ ReceiveFailed
    \/ ReceiveFinished \/ ApplyFolderPermissions \/ PermissionsApplied
    \/ TransferFinished

\* (slip) the callback stays in the main loop
UpdateProgressAgain ==
    /\ due > 0
    /\ counted' = counted + 1
    /\ UNCHANGED <<settled, sender, pipe, call, receiver, status, due, early, faulty>>

\* update_progress, in the main loop
UpdateProgress ==
    /\ due > 0
    /\ due' = due - 1
    /\ counted' = counted + 1
    /\ \/ UNCHANGED <<status, early>>
       \/ /\ exact
          /\ counted' = Total
          /\ status' = "FINISHED"
          /\ early' = TRUE
    /\ UNCHANGED <<settled, sender, pipe, call, receiver, faulty>>

-----------------------------------------------------------------------------
(***************************************************************************)
(* What comes from outside.                                                *)
(***************************************************************************)
StopSender ==
    /\ "stop" \in Faults
    /\ ~evt
    /\ evt' = TRUE
    /\ faulty' = TRUE
    /\ UNCHANGED <<settled, file, block, gen, pipe, call, receiver, status, progress>>

\* A stop of the receiver, or one of the sender that has reached it.  A call that has
\* come to its end (file_iterator is None) is not cancelled.
CancelCall ==
    /\ "cancel" \in Faults
    /\ call = "up"
    /\ rcv # "ended"
    /\ call' = IF rcv \in {"closing", "counting"} THEN call ELSE "cancelled"
    /\ status' = "STOPPED"
    /\ faulty' = TRUE
    /\ UNCHANGED <<settled, sender, pipe, receiver, progress>>

LoseCall ==
    /\ "loss" \in Faults
    /\ call = "up"
    /\ rcv \in {"cleaning", "receiving"}
    /\ call' = "broken"
    /\ faulty' = TRUE
    /\ UNCHANGED <<settled, sender, pipe, receiver, status, progress>>

Next ==
    \/ Generator \/ ReadError \/ CompressionFails
    \/ Receiver \/ WriteError \/ DecompressionFails
    \/ UpdateProgress
    \/ StopSender \/ CancelCall \/ LoseCall

Spec == Init /\ [][Next]_vars

(***************************************************************************)
(* gRPC iterates the generator and delivers what it yields, the thread of  *)
(* the receiver goes on, and the main loop runs its callbacks.             *)
(***************************************************************************)
Fairness == WF_vars(Generator) /\ WF_vars(Receiver) /\ WF_vars(UpdateProgress)

FairSpec == Spec /\ Fairness

-----------------------------------------------------------------------------
(***************************************************************************)
(* Properties.                                                             *)
(***************************************************************************)
IsCopy(i) ==
    /\ disk[files[i].path].kind = files[i].type
    /\ disk[files[i].path].data = Content(i)

Unique == \A i, j \in DOMAIN files : files[i].path = files[j].path => i = j

\* A link of the same path comes later: it takes the place of whatever is no folder.
Replaced(i) ==
    \E j \in DOMAIN files :
        j > i /\ files[j].path = files[i].path /\ files[j].type = "link"

Alone(i) == \A j \in DOMAIN files : files[j].path = files[i].path => j = i

\* So are the folders it is in.
AllAlone(i) ==
    /\ Alone(i)
    /\ \A j \in DOMAIN files : files[j].path \in files[i].above => Alone(j)

\* FINISHED, if the receiver's thread has let it stand after it had counted and the
\* sender has sent all, means that every entry is on the disk, complete, with its own
\* bytes only and with its mode. If two entries have one path there is no FINISHED,
\* unless both are folders, which become one, or the later one is a link. In a folder
\* that became one of two a mode may be missing: the later of its modes is set first,
\* and may bar the way. It holds whatever rm_any had to leave in its place.
\* (FileReceiver.clean_existing_files, receive_data, close_current_file,
\* apply_folder_permissions, make_symbolic_link)
FinishedIsCopy ==
    (rcv = "ended" /\ status = "FINISHED" /\ ~early /\ gen # "gave_up") =>
        \A i \in DOMAIN files :
            /\ IsCopy(i) \/ Replaced(i)
            /\ (PreservePerms /\ files[i].type # "link" /\ AllAlone(i)) =>
                  disk[files[i].path].locked = files[i].locked

\* Every toplevel is there with all that is in it, or is not there at all.
NoParts ==
    \A i, j \in DOMAIN files :
        files[i].top = files[j].top =>
            (IsCopy(i) \/ disk[files[i].path] = Absent)
              /\ (IsCopy(i) <=> IsCopy(j))

\* A stream that is refused, cancelled or lost leaves no part of a file or folder
\* behind, whichever chunk came last, unless there was a part of an earlier one that
\* could not be removed when it began.  (report_receive_error,
\* clean_current_top_dir_file, clean_existing_files, rm_any)
FailureLeavesNoParts ==
    (Unique /\ ~left /\ rcv = "ended" /\ status \in {"FAILED", "STOPPED"}) => NoParts

\* Two things only keep a stream of entries with different paths from being finished:
\* a fault, and what an earlier transfer has left in a folder that lets nothing be
\* removed.  The latter fails the stream, without any fault, each time; nothing else
\* that was there does, no mode that was restored too early and no miscounted entry.
\* (FileReceiver.rm_any, receive_data, close_current_file)
UndisturbedFinishes ==
    (Unique /\ rcv = "ended" /\ ~faulty) =>
        status = IF left THEN "FAILED" ELSE "FINISHED"

\* Both ends come to an end, whatever goes wrong, though each waits for the other:
\* the generator for room, the receiver for chunks.  (read_chunks,
\* start_transfer_op)
StreamEnds == <>(rcv = "ended" /\ gen # "running")
=============================================================================
