--------------------------- MODULE FileStreamProofs ---------------------------
(***************************************************************************)
(* Proofs about FileStream, for any trees, block size, window and faults:  *)
(* a stream that fails leaves no parts, nothing but a fault keeps it from  *)
(* being finished, what is finished is a copy, and no more progress is     *)
(* counted than there is.                                                  *)
(*                                                                         *)
(* All rest on one relation between what the sender has sent and what the  *)
(* receiver has taken.  The chunks under way follow each other, and what   *)
(* comes after them is where the generator is (InOrder).  So there is a    *)
(* chunk that the receiver gets next.  If paths differ the disk holds what *)
(* comes before it and nothing else (Written); if they do not, the count   *)
(* of the entries that remain tells so (CopyInv).                          *)
(***************************************************************************)
EXTENDS FileStream, WellFoundedInduction, TLAPS

\* Chunks as the generator yields them, and the chunk after one
Chunk == [entry : DOMAIN files, number : Nat \ {0}]

Follows(i, k, j, l) ==
    IF k = Chunks(i) THEN j = i + 1 /\ l = 1 ELSE j = i /\ l = k + 1

\* The chunk that the receiver gets next
NextEntry == IF pipe = <<>> THEN file ELSE pipe[1].entry

NextNumber == IF pipe = <<>> THEN block + 1 ELSE pipe[1].number

Place == [kind : {"absent", "folder", "link", "file"}, data : Seq(Nat \X Nat),
          locked : BOOLEAN]

Disk == [Path -> Place]

Types ==
    /\ files \in Trees
    /\ file \in 1 .. Len(files) + 1
    /\ block \in Nat
    /\ pipe \in Seq(Chunk)
    /\ current \in {NoEntry} \cup DOMAIN files
    /\ perms \in Seq(DOMAIN files)
    /\ rcv # "ended" => disk \in Disk

\* The chunks under way, and where the generator is
InOrder ==
    /\ IF file = Len(files) + 1 THEN block = 0 ELSE block + 1 <= Chunks(file)
    /\ \A n \in 1 .. Len(pipe) : pipe[n].number <= Chunks(pipe[n].entry)
    /\ \A n \in 1 .. Len(pipe) - 1 :
          Follows(pipe[n].entry, pipe[n].number, pipe[n + 1].entry, pipe[n + 1].number)
    /\ pipe # <<>> =>
          Follows(pipe[Len(pipe)].entry, pipe[Len(pipe)].number, file, block + 1)

\* The first n chunks of entry i
Start(i, n) == [m \in 1 .. n |-> <<i, m>>]

CopyOn(d, j) ==
    /\ d[files[j].path].kind = files[j].type
    /\ d[files[j].path].data = Content(j)

CopiesBefore(d, i) == \A j \in DOMAIN files : j < i => CopyOn(d, j)

NothingAfter(d, c) == \A j \in DOMAIN files : j > c => d[files[j].path] = Absent

FoldersOpen(d) ==
    \A j \in DOMAIN files : files[j].type = "folder" => ~d[files[j].path].locked

\* What is on d before the k-th chunk of entry i, when c was the last entry.
Begun(d, c, i, k) ==
    /\ CopiesBefore(d, i)
    /\ NothingAfter(d, c)
    /\ FoldersOpen(d)
    /\ IF k = 1 THEN c = i - 1
                ELSE /\ c = i
                     /\ files[i].type = "file"
                     /\ d[files[i].path].kind = "file"
                     /\ d[files[i].path].data = Start(i, k - 1)

\* Paths differ, and nothing was in the way when the stream began.
Fresh == Unique /\ ~left

Left(c) == Len(files) - (IF c = NoEntry THEN 0 ELSE c - 1)

Written ==
    /\ rcv = "cleaning" => NextEntry = 1 /\ NextNumber = 1 /\ current = NoEntry
    /\ Fresh /\ rcv \in {"cleaning", "receiving"} => remaining = Left(current)
    /\ Fresh /\ rcv = "receiving" => Begun(disk, current, NextEntry, NextNumber)

\* Without a fault the call and the generator go on to their end.
Undisturbed ==
    /\ gen = "done" => file = Len(files) + 1
    /\ ~faulty => call = "up" /\ ~evt /\ gen # "gave_up"
    /\ Fresh /\ rcv \in {"closing", "counting"} /\ ~faulty => remaining = 0
    /\ UndisturbedFinishes

\* The last entry of which a chunk was taken, or NoEntry
Taken == IF NextNumber = 1 THEN NextEntry - 1 ELSE NextEntry

\* A folder that entry j is in lets nothing come into it.
Barred(d, j) == \E o \in files[j].above : Shut(d, o)

\* What was left bars an entry that is still to come, and so the end of the stream.
Barring ==
    /\ left \in BOOLEAN
    /\ exact => \A i \in DOMAIN files : files[i].type = "file"
    /\ rcv = "cleaning" => left = FALSE
    /\ left = TRUE => \E i \in DOMAIN files : files[i].type = "folder"
    /\ rcv = "receiving" /\ IsCurrent("file") =>
          disk[files[current].path].kind \in {"file", "link"}
    /\ rcv = "receiving" /\ left = TRUE =>
          \E j \in DOMAIN files : Taken < j /\ Barred(disk, j)
    /\ rcv \in {"closing", "counting"} /\ left = TRUE => gen = "gave_up"

Inv == Types /\ InOrder /\ Written /\ Barring /\ Undisturbed /\ FailureLeavesNoParts

-----------------------------------------------------------------------------
(***************************************************************************)
(* Entries and chunks.                                                     *)
(***************************************************************************)
LEMMA EntryFacts ==
    ASSUME Types
    PROVE  /\ DOMAIN files = 1 .. Len(files) /\ Len(files) \in Nat /\ Len(files) > 0
           /\ \A i \in DOMAIN files :
                 /\ files[i] \in Entry
                 /\ files[i].path \in Path
                 /\ \A p \in files[i].above :
                       \E j \in DOMAIN files : /\ j < i
                                               /\ files[j].path = p
                                               /\ files[j].type = "folder"
  <1>1. files \in Trees /\ files \in Seq(Entry) /\ files # <<>>
    BY TreesAssumption DEF Types
  <1>2. DOMAIN files = 1 .. Len(files) /\ Len(files) \in Nat /\ Len(files) > 0
    BY <1>1
  <1>3. ASSUME NEW i \in DOMAIN files
        PROVE  files[i] \in Entry /\ files[i].path \in Path
    BY <1>1, <1>3 DEF Path
  <1>4. ASSUME NEW i \in DOMAIN files, NEW p \in files[i].above
        PROVE  \E j \in DOMAIN files : /\ j < i
                                       /\ files[j].path = p
                                       /\ files[j].type = "folder"
    <2>1. PICK j \in 1 .. i - 1 : /\ files[j].path = p
                                  /\ files[j].type = "folder"
      BY <1>1, <1>4, TreesAssumption
    <2> QED
      BY <1>2, <2>1
  <1> QED
    BY <1>2, <1>3, <1>4

\* A file's last chunk alone may be without bytes.
LEMMA ChunkFacts ==
    ASSUME Types, NEW i \in DOMAIN files
    PROVE  /\ Chunks(i) \in Nat /\ Chunks(i) > 0 /\ Full(i) \in Nat
           /\ Full(i) = Chunks(i) \/ Full(i) = Chunks(i) - 1
           /\ files[i].type # "file" => Chunks(i) = 1 /\ Full(i) = 0
           /\ files[i].type = "file" =>
                 \A k \in 1 .. Chunks(i) : Length(i, k) > 0 <=> k <= Full(i)
  <1> DEFINE q == files[i].size \div BlockSize
             r == files[i].size % BlockSize
  <1>1. files[i].size \in Nat
    BY EntryFacts DEF Entry
  <1>2. q \in Nat /\ r \in Nat
    BY <1>1, StreamAssumption
  <1> HIDE DEF q, r
  <1>3. CASE files[i].type # "file"
    BY <1>3 DEF Chunks, Full
  <1>4. CASE files[i].type = "file"
    <2>1. Chunks(i) = q + 1 /\ Full(i) = IF r = 0 THEN q ELSE q + 1
      BY <1>2, <1>4 DEF Chunks, Full, q, r
    <2>2. \A k \in 1 .. q + 1 : Length(i, k) = IF k <= q THEN BlockSize ELSE r
      BY DEF Length, q, r
    <2> QED
      BY <1>2, <1>4, <2>1, <2>2, StreamAssumption
  <1> QED
    BY <1>3, <1>4

\* Where the receiver is in what is sent
LEMMA NextFacts ==
    ASSUME Types, InOrder
    PROVE  /\ NextEntry \in 1 .. Len(files) + 1
           /\ NextNumber \in Nat /\ NextNumber > 0
           /\ IF NextEntry = Len(files) + 1 THEN NextNumber = 1
                                            ELSE NextNumber <= Chunks(NextEntry)
           /\ pipe # <<>> => NextEntry \in DOMAIN files
  <1>1. DOMAIN files = 1 .. Len(files) /\ Len(files) \in Nat
    BY EntryFacts
  <1>2. CASE pipe = <<>>
    BY <1>1, <1>2 DEF NextEntry, NextNumber, Types, InOrder
  <1>3. CASE pipe # <<>>
    <2>1. pipe[1] \in Chunk /\ 1 \in 1 .. Len(pipe)
      BY <1>3 DEF Types
    <2>2. /\ pipe[1].entry \in 1 .. Len(files)
          /\ pipe[1].number \in Nat /\ pipe[1].number > 0
      BY <1>1, <2>1 DEF Chunk
    <2>3. pipe[1].number <= Chunks(pipe[1].entry)
      BY <2>1 DEF InOrder
    <2> QED
      BY <1>1, <1>3, <2>2, <2>3 DEF NextEntry, NextNumber
  <1> QED
    BY <1>2, <1>3

\* The generator's next chunk
LEMMA SendOrder ==
    ASSUME Types, InOrder, SendChunk
    PROVE  /\ Types' /\ InOrder'
           /\ NextEntry' = NextEntry /\ NextNumber' = NextNumber
  <1>1. /\ file <= Len(files)
        /\ pipe' = Append(pipe, [entry |-> file, number |-> block + 1])
        /\ IF block + 1 = Chunks(file)
             THEN file' = file + 1 /\ block' = 0
             ELSE block' = block + 1 /\ file' = file
        /\ UNCHANGED <<files, current, perms, disk, rcv>>
    BY DEF SendChunk, settled, receiver
  <1>2. DOMAIN files = 1 .. Len(files) /\ Len(files) \in Nat
    BY EntryFacts
  <1>3. file \in DOMAIN files /\ file \in Nat /\ block \in Nat /\ pipe \in Seq(Chunk)
    BY <1>1, <1>2 DEF Types
  <1>4. Chunks(file) \in Nat /\ block + 1 <= Chunks(file)
    <2>1. file # Len(files) + 1
      BY <1>1, <1>2, <1>3
    <2> QED
      BY <1>3, <2>1, ChunkFacts DEF InOrder
  <1>5. [entry |-> file, number |-> block + 1] \in Chunk
    BY <1>3 DEF Chunk
  <1>6. /\ Len(pipe) \in Nat /\ Len(pipe') = Len(pipe) + 1
        /\ \A n \in 1 .. Len(pipe) : pipe'[n] = pipe[n]
        /\ pipe'[Len(pipe) + 1] = [entry |-> file, number |-> block + 1]
        /\ pipe' \in Seq(Chunk) /\ pipe' # <<>>
    BY <1>1, <1>3, <1>5
  <1>7. Follows(file, block + 1, file', block' + 1)
    BY <1>1, <1>3 DEF Follows
  <1>8. file' \in 1 .. Len(files) + 1 /\ block' \in Nat
    BY <1>1, <1>2, <1>3
  <1>9. Types'
    BY <1>1, <1>6, <1>8 DEF Types, Chunk, Disk, Place
  <1>10. IF file' = Len(files) + 1 THEN block' = 0 ELSE block' + 1 <= Chunks(file')
    <2>1. CASE block + 1 = Chunks(file)
      <3>1. file' # Len(files) + 1 => file' \in DOMAIN files
        BY <1>2, <1>8
      <3>2. file' # Len(files) + 1 => Chunks(file') \in Nat /\ Chunks(file') > 0
        BY <3>1, ChunkFacts
      <3> QED
        BY <1>1, <2>1, <3>2
    <2>2. CASE block + 1 # Chunks(file)
      BY <1>1, <1>2, <1>3, <1>4, <2>2
    <2> QED
      BY <2>1, <2>2
  <1>11. \A j : Chunks(j)' = Chunks(j)
    BY <1>1 DEF Chunks
  <1>12. \A i, k, j, l : Follows(i, k, j, l)' <=> Follows(i, k, j, l)
    BY <1>11 DEF Follows
  <1>13. \A n \in 1 .. Len(pipe') : pipe'[n].number <= Chunks(pipe'[n].entry)
    BY <1>4, <1>6 DEF InOrder
  <1>14. ASSUME NEW n \in 1 .. Len(pipe') - 1
         PROVE  Follows(pipe'[n].entry, pipe'[n].number,
                        pipe'[n + 1].entry, pipe'[n + 1].number)
    <2>1. CASE n \in 1 .. Len(pipe) - 1
      BY <1>6, <2>1 DEF InOrder
    <2>2. CASE n = Len(pipe)
      <3>1. pipe # <<>> /\ n \in 1 .. Len(pipe)
        BY <1>6, <2>2
      <3>2. Follows(pipe[n].entry, pipe[n].number, file, block + 1)
        BY <2>2, <3>1 DEF InOrder
      <3> QED
        BY <1>6, <2>2, <3>1, <3>2
    <2> QED
      BY <1>6, <2>1, <2>2
  <1>15. InOrder'
    BY <1>1, <1>6, <1>7, <1>10, <1>11, <1>12, <1>13, <1>14 DEF InOrder
  <1>16. NextEntry' = NextEntry /\ NextNumber' = NextNumber
    BY <1>6 DEF NextEntry, NextNumber
  <1> QED
    BY <1>9, <1>15, <1>16

\* The receiver takes a chunk, and the one that follows it is next.
LEMMA TakeOrder ==
    ASSUME Types, InOrder, pipe # <<>>, pipe' = Tail(pipe), UNCHANGED <<files, file, block>>
    PROVE  /\ pipe' \in Seq(Chunk) /\ InOrder'
           /\ Follows(NextEntry, NextNumber, NextEntry', NextNumber')
  <1>1. pipe \in Seq(Chunk)
    BY DEF Types
  <1>2. /\ Len(pipe) \in Nat /\ 1 \in 1 .. Len(pipe)
        /\ pipe' \in Seq(Chunk) /\ Len(pipe') = Len(pipe) - 1
        /\ \A n \in 1 .. Len(pipe') : pipe'[n] = pipe[n + 1]
    BY <1>1
  <1>3. \A j : Chunks(j)' = Chunks(j)
    BY DEF Chunks
  <1>4. \A i, k, j, l : Follows(i, k, j, l)' <=> Follows(i, k, j, l)
    BY <1>3 DEF Follows
  <1>5. \A n \in 1 .. Len(pipe') : pipe'[n].number <= Chunks(pipe'[n].entry)
    BY <1>2 DEF InOrder
  <1>6. ASSUME NEW n \in 1 .. Len(pipe') - 1
        PROVE  Follows(pipe'[n].entry, pipe'[n].number,
                       pipe'[n + 1].entry, pipe'[n + 1].number)
    <2>1. n + 1 \in 1 .. Len(pipe) - 1
      BY <1>2
    <2>2. Follows(pipe[n + 1].entry, pipe[n + 1].number,
                  pipe[(n + 1) + 1].entry, pipe[(n + 1) + 1].number)
      BY <2>1 DEF InOrder
    <2>3. pipe'[n] = pipe[n + 1] /\ pipe'[n + 1] = pipe[(n + 1) + 1]
      BY <1>2
    <2> QED
      BY <2>2, <2>3
  <1>7. CASE pipe' = <<>>
    <2>1. Len(pipe) = 1
      <3>1. Len(<<>>) = 0
        OBVIOUS
      <3>2. Len(pipe') = 0
        BY <1>7, <3>1
      <3> QED
        BY <1>2, <3>2
    <2>2. Follows(pipe[1].entry, pipe[1].number, file, block + 1)
      BY <2>1 DEF InOrder
    <2>3. Follows(NextEntry, NextNumber, NextEntry', NextNumber')
      BY <1>7, <2>2 DEF NextEntry, NextNumber
    <2>4. InOrder'
      BY <1>3, <1>4, <1>5, <1>6, <1>7 DEF InOrder
    <2> QED
      BY <1>2, <2>3, <2>4
  <1>8. CASE pipe' # <<>>
    <2>1. Len(pipe') > 0 /\ Len(pipe') \in Nat
      BY <1>2, <1>8
    <2>2. pipe'[1] = pipe[2] /\ 1 \in 1 .. Len(pipe) - 1
      BY <1>2, <2>1
    <2>3. Follows(pipe[1].entry, pipe[1].number, pipe[1 + 1].entry, pipe[1 + 1].number)
      BY <2>2 DEF InOrder
    <2>4. Follows(NextEntry, NextNumber, NextEntry', NextNumber')
      BY <1>8, <2>2, <2>3 DEF NextEntry, NextNumber
    <2>5. pipe'[Len(pipe')] = pipe[Len(pipe)]
      BY <1>2, <2>1
    <2>6. InOrder'
      BY <1>3, <1>4, <1>5, <1>6, <2>5 DEF InOrder
    <2> QED
      BY <1>2, <2>4, <2>6
  <1> QED
    BY <1>7, <1>8

-----------------------------------------------------------------------------
(***************************************************************************)
(* The disk.                                                               *)
(***************************************************************************)

LEMMA PlaceFacts ==
    /\ Absent \in Place
    /\ \A i : files[i].type \in {"folder", "link", "file"} =>
          \A data \in Seq(Nat \X Nat) : Node(i, data) \in Place
    /\ \A a \in Place, b \in BOOLEAN :
          /\ [a EXCEPT !.locked = b] \in Place
          /\ [a EXCEPT !.locked = b].kind = a.kind
          /\ [a EXCEPT !.locked = b].data = a.data
          /\ [a EXCEPT !.locked = b].locked = b
  <1>1. Absent \in Place
    <2>1. <<>> \in Seq(Nat \X Nat)
      OBVIOUS
    <2> QED
      BY <2>1 DEF Absent, Place
  <1>2. ASSUME NEW i, files[i].type \in {"folder", "link", "file"},
               NEW data \in Seq(Nat \X Nat)
        PROVE  Node(i, data) \in Place
    BY <1>2 DEF Node, Place
  <1>3. ASSUME NEW a \in Place, NEW b \in BOOLEAN
        PROVE  /\ [a EXCEPT !.locked = b] \in Place
               /\ [a EXCEPT !.locked = b].kind = a.kind
               /\ [a EXCEPT !.locked = b].data = a.data
               /\ [a EXCEPT !.locked = b].locked = b
    BY <1>3 DEF Place
  <1> QED
    BY <1>1, <1>2, <1>3

\* A mode changes nothing but the lock of its path.
LEMMA ChmodFacts ==
    ASSUME Types, NEW d \in Disk, NEW i \in DOMAIN files
    PROVE  /\ Chmod(d, i) \in Disk
           /\ \A p \in Path : /\ Chmod(d, i)[p].kind = d[p].kind
                              /\ Chmod(d, i)[p].data = d[p].data
                              /\ p # files[i].path => Chmod(d, i)[p] = d[p]
  <1>1. files[i].path \in Path /\ files[i].locked \in BOOLEAN
    BY EntryFacts DEF Entry
  <1>2. CASE Chmod(d, i) = d
    BY <1>2
  <1>3. CASE Chmod(d, i) = [d EXCEPT ![files[i].path].locked = files[i].locked]
    <2>1. d[files[i].path] \in Place
      BY <1>1 DEF Disk
    <2>2. [d[files[i].path] EXCEPT !.locked = files[i].locked] \in Place
      BY <1>1, <2>1, PlaceFacts
    <2>3. Chmod(d, i)
            = [d EXCEPT ![files[i].path]
                 = [d[files[i].path] EXCEPT !.locked = files[i].locked]]
      BY <1>3
    <2>4. /\ [d[files[i].path] EXCEPT !.locked = files[i].locked].kind
               = d[files[i].path].kind
          /\ [d[files[i].path] EXCEPT !.locked = files[i].locked].data
               = d[files[i].path].data
      BY <1>1, <2>1, PlaceFacts
    <2> QED
      BY <1>1, <2>2, <2>3, <2>4 DEF Disk
  <1> QED
    BY <1>2, <1>3 DEF Chmod

\* A toplevel is removed, but for what is kept.
LEMMA RemovedFacts ==
    ASSUME Types, NEW d \in Disk, NEW tops, NEW kept
    PROVE  /\ Removed(d, tops, kept) \in Disk
           /\ \A p \in kept \cap Path : Removed(d, tops, kept)[p] = d[p]
           /\ \A j \in DOMAIN files :
                 files[j].top \in tops /\ files[j].path \notin kept =>
                    Removed(d, tops, kept)[files[j].path] = Absent
           /\ Unique => \A j \in DOMAIN files :
                 files[j].top \notin tops =>
                    Removed(d, tops, kept)[files[j].path] = d[files[j].path]
  <1>1. Absent \in Place
    BY PlaceFacts
  <1>2. Removed(d, tops, kept) \in Disk
    BY <1>1 DEF Removed, Disk
  <1>3. \A j \in DOMAIN files : files[j].path \in Path
    BY EntryFacts
  <1>4. \A j \in DOMAIN files :
            files[j].top \in tops /\ files[j].path \notin kept =>
                Removed(d, tops, kept)[files[j].path] = Absent
    BY <1>3 DEF Removed, IsIn
  <1>5. ASSUME Unique, NEW j \in DOMAIN files, files[j].top \notin tops
        PROVE  Removed(d, tops, kept)[files[j].path] = d[files[j].path]
    <2>1. ~IsIn(files[j].path, tops)
      BY <1>5 DEF Unique, IsIn
    <2> QED
      BY <1>3, <2>1 DEF Removed
  <1>6. \A p \in kept \cap Path : Removed(d, tops, kept)[p] = d[p]
    BY DEF Removed
  <1> QED
    BY <1>2, <1>4, <1>5, <1>6

\* What is left of a toplevel has a folder in it that lets nothing be taken out, with
\* something in it.
LEMMA StaysFacts ==
    ASSUME Types, NEW d \in Disk, NEW top, NEW kept, Stays(d, top, kept), kept # {}
    PROVE  \E j \in DOMAIN files, q \in kept : q \in files[j].above /\ Shut(d, q)
  <1>1. PICK q \in kept : StopsAt(d, top, kept, q)
    BY DEF Stays
  <1>2. PICK p \in There(d, top) : q \in Above(p)
    BY <1>1 DEF StopsAt
  <1>3. \E j \in DOMAIN files : q \in files[j].above
    BY <1>2 DEF Above
  <1> QED
    BY <1>1, <1>3 DEF StopsAt

\* As long as every folder is open a toplevel is removed with all that is in it.
LEMMA NothingStays ==
    ASSUME Types, NEW d \in Disk, FoldersOpen(d), NEW top, NEW kept, Stays(d, top, kept)
    PROVE  kept = {}
  <1> SUFFICES ASSUME kept # {} PROVE FALSE
    OBVIOUS
  <1>1. PICK j \in DOMAIN files, q \in kept : q \in files[j].above /\ Shut(d, q)
    BY StaysFacts
  <1>2. \E i \in DOMAIN files : files[i].path = q /\ files[i].type = "folder"
    BY <1>1, EntryFacts
  <1> QED
    BY <1>1, <1>2, Zenon DEF FoldersOpen, Shut

\* What is placed is placed on the path of its entry.
LEMMA PlacedFacts ==
    ASSUME Types, NEW d \in Disk, NEW i \in DOMAIN files, NEW k \in Nat
    PROVE  /\ Placed(d, i, k) \in Disk
           /\ \A p \in Path : p # files[i].path => Placed(d, i, k)[p] = d[p]
  <1>1. /\ files[i].path \in Path
        /\ files[i].type \in {"folder", "link", "file"}
    BY EntryFacts DEF Entry
  <1>2. i \in Nat
    BY EntryFacts
  <1>3. d[files[i].path].data \in Seq(Nat \X Nat)
    BY <1>1 DEF Disk, Place
  <1>4. \A data \in Seq(Nat \X Nat) :
            Node(i, data) \in Place
    BY <1>1, PlaceFacts
  <1>5. PICK data \in Seq(Nat \X Nat) :
            \/ Placed(d, i, k) = d
            \/ Placed(d, i, k) = [d EXCEPT ![files[i].path] = Node(i, data)]
    <2>1. CASE files[i].type # "file"
      <3>1. <<>> \in Seq(Nat \X Nat)
        OBVIOUS
      <3>2. Placed(d, i, k) = d \/ Placed(d, i, k) = [d EXCEPT ![files[i].path] = Node(i, <<>>)]
        BY <1>1, <2>1 DEF Placed
      <3> QED
        BY <3>1, <3>2
    <2>2. CASE files[i].type = "file"
      <3> DEFINE e == IF Length(i, k) > 0 THEN Append(d[files[i].path].data, <<i, k>>)
                                          ELSE d[files[i].path].data
      <3>1. e \in Seq(Nat \X Nat)
        BY <1>2, <1>3
      <3>2. Placed(d, i, k) = [d EXCEPT ![files[i].path] = Node(i, e)]
        BY <2>2 DEF Placed
      <3> HIDE DEF e
      <3> QED
        BY <3>1, <3>2
    <2> QED
      BY <2>1, <2>2
  <1> QED
    BY <1>1, <1>4, <1>5 DEF Disk

-----------------------------------------------------------------------------
(***************************************************************************)
(* A chunk that is the next one is placed, and what is on the disk then is *)
(* what comes before the one that follows it.                              *)
(***************************************************************************)

LEMMA StartFacts ==
    ASSUME NEW i \in Nat
    PROVE  /\ Start(i, 0) = <<>>
           /\ \A n \in Nat : /\ Start(i, n) \in Seq(Nat \X Nat)
                             /\ Append(Start(i, n), <<i, n + 1>>) = Start(i, n + 1)
  <1>1. Start(i, 0) = <<>>
    BY DEF Start
  <1>2. ASSUME NEW n \in Nat
        PROVE  /\ Start(i, n) \in Seq(Nat \X Nat)
               /\ Append(Start(i, n), <<i, n + 1>>) = Start(i, n + 1)
    <2>1. Start(i, n) \in [1 .. n -> Nat \X Nat]
      BY DEF Start
    <2>2. Start(i, n) \in Seq(Nat \X Nat) /\ Len(Start(i, n)) = n
      BY <2>1
    <2>3. <<i, n + 1>> \in Nat \X Nat
      OBVIOUS
    <2> DEFINE a == Append(Start(i, n), <<i, n + 1>>)
    <2>4. /\ a \in Seq(Nat \X Nat) /\ Len(a) = n + 1
          /\ \A m \in 1 .. n : a[m] = Start(i, n)[m]
          /\ a[n + 1] = <<i, n + 1>>
      BY <2>2, <2>3
    <2> HIDE DEF a
    <2>5. Start(i, n + 1) \in [1 .. n + 1 -> Nat \X Nat]
      BY DEF Start
    <2>6. Start(i, n + 1) \in Seq(Nat \X Nat) /\ Len(Start(i, n + 1)) = n + 1
      BY <2>5
    <2>7. \A m \in 1 .. n + 1 : a[m] = Start(i, n + 1)[m]
      BY <2>4 DEF Start
    <2>8. a = Start(i, n + 1)
      BY <2>4, <2>6, <2>7
    <2> QED
      BY <2>2, <2>8 DEF a
  <1> QED
    BY <1>1, <1>2

\* The chunk goes on with its entry, or begins it after the entry before.
LEMMA SameFacts ==
    ASSUME Types, Unique, NEW i \in DOMAIN files, NEW k \in Nat, Begun(disk, current, i, k)
    PROVE  /\ Same(i) <=> k # 1
           /\ current <= i /\ i <= current + 1
  <1>1. DOMAIN files = 1 .. Len(files) /\ Len(files) \in Nat
    BY EntryFacts
  <1>2. k # 1 => current = i
    BY DEF Begun
  <1>3. k = 1 => current = i - 1
    BY DEF Begun
  <1>4. current # NoEntry => current \in DOMAIN files
    BY DEF Types
  <1>5. k = 1 => ~Same(i)
    <2> SUFFICES ASSUME k = 1, Same(i) PROVE FALSE
      OBVIOUS
    <2>1. current = i - 1 /\ current \in DOMAIN files /\ files[current].path = files[i].path
      BY <1>3, <1>4 DEF Same
    <2>2. current = i
      BY <2>1 DEF Unique
    <2> QED
      BY <1>1, <2>1, <2>2
  <1>6. k # 1 => Same(i)
    BY <1>1, <1>2 DEF Same, NoEntry
  <1> QED
    BY <1>1, <1>2, <1>3, <1>5, <1>6

\* The disk as it is when the chunk is placed
Ready(i) == IF Same(i) THEN disk ELSE ClosedDisk

\* The mode of the file that is closed disturbs nothing.
LEMMA ReadyFacts ==
    ASSUME Types, Unique, rcv # "ended", NEW i \in DOMAIN files, NEW k \in Nat,
           Begun(disk, current, i, k)
    PROVE  Ready(i) \in Disk /\ Begun(Ready(i), current, i, k)
  <1>1. disk \in Disk
    BY DEF Types
  <1>2. CASE Ready(i) = disk
    BY <1>1, <1>2
  <1>3. CASE Ready(i) # disk
    <2>1. /\ ~Same(i) /\ current \in DOMAIN files /\ files[current].type = "file"
          /\ Ready(i) = Chmod(disk, current)
      BY <1>3 DEF Ready, ClosedDisk, IsCurrent, Types
    <2>2. /\ Ready(i) \in Disk
          /\ \A p \in Path : /\ Ready(i)[p].kind = disk[p].kind
                             /\ Ready(i)[p].data = disk[p].data
                             /\ p # files[current].path => Ready(i)[p] = disk[p]
      BY <1>1, <2>1, ChmodFacts
    <2>3. \A j \in DOMAIN files : files[j].path \in Path
      BY EntryFacts
    <2>4. CopiesBefore(Ready(i), i)
      BY <2>2, <2>3 DEF Begun, CopiesBefore, CopyOn
    <2>5. \A j \in DOMAIN files : j > current => j # current
      BY <2>1, EntryFacts
    <2>6. NothingAfter(Ready(i), current)
      <3> SUFFICES ASSUME NEW j \in DOMAIN files, j > current
                   PROVE  Ready(i)[files[j].path] = Absent
        BY DEF NothingAfter
      <3>1. files[j].path # files[current].path
        BY <2>1, <2>5 DEF Unique
      <3> QED
        BY <2>2, <2>3, <3>1 DEF Begun, NothingAfter
    <2>7. FoldersOpen(Ready(i))
      <3> SUFFICES ASSUME NEW j \in DOMAIN files, files[j].type = "folder"
                   PROVE  ~Ready(i)[files[j].path].locked
        BY DEF FoldersOpen
      <3>1. files[j].path # files[current].path
        BY <2>1 DEF Unique
      <3>2. Ready(i)[files[j].path] = disk[files[j].path]
        BY <2>2, <2>3, <3>1
      <3> QED
        BY <3>2, Zenon DEF Begun, FoldersOpen
    <2>8. k = 1
      BY <2>1, SameFacts
    <2> QED
      BY <2>2, <2>4, <2>6, <2>7, <2>8 DEF Begun
  <1> QED
    BY <1>2, <1>3

\* There is room for the chunk: its folder is there and open, and what it opens is new.
LEMMA RoomFacts ==
    ASSUME Types, Unique, rcv # "ended", NEW i \in DOMAIN files, NEW k \in Nat,
           Begun(disk, current, i, k)
    PROVE  CanPlace(Ready(i), i, Same(i) /\ IsCurrent("file"))
  <1> DEFINE d == Ready(i)
  <1>1. Begun(d, current, i, k)
    BY ReadyFacts
  <1> HIDE DEF d
  <1>2. ASSUME NEW p \in files[i].above
        PROVE  d[p].kind = "folder" /\ ~Shut(d, p)
    <2>1. PICK j \in DOMAIN files : /\ j < i
                                    /\ files[j].path = p
                                    /\ files[j].type = "folder"
      BY <1>2, EntryFacts
    <2>2. d[files[j].path].kind = "folder"
      BY <1>1, <2>1 DEF Begun, CopiesBefore, CopyOn
    <2>3. ~d[files[j].path].locked
      BY <1>1, <2>1, Zenon DEF Begun, FoldersOpen
    <2> QED
      BY <2>1, <2>2, <2>3, Zenon DEF Shut
  <1>3. files[i].type \in {"folder", "link", "file"}
    BY EntryFacts DEF Entry
  <1>4. CASE k = 1
    <2>1. i > current
      BY <1>1, <1>4, EntryFacts DEF Begun
    <2>2. d[files[i].path].kind = "absent"
      BY <1>1, <2>1 DEF Begun, NothingAfter, Absent
    <2> QED
      BY <1>2, <1>3, <2>2 DEF CanPlace, d
  <1>5. CASE k # 1
    <2>1. files[i].type = "file" /\ current = i
      BY <1>1, <1>5 DEF Begun
    <2>2. Same(i) /\ IsCurrent("file")
      <3>1. Same(i)
        BY <1>5, SameFacts
      <3> QED
        BY <2>1, <3>1 DEF Same, IsCurrent
    <2> QED
      BY <1>2, <2>1, <2>2 DEF CanPlace, d
  <1> QED
    BY <1>4, <1>5

\* What a chunk without bytes, or one with some, makes of its entry
LEMMA ChunkPlaced ==
    ASSUME Types, NEW d \in Disk, NEW i \in DOMAIN files, NEW k \in 1 .. Chunks(i),
           IF k = 1 THEN d[files[i].path] = Absent
                    ELSE /\ files[i].type = "file"
                         /\ d[files[i].path].data = Start(i, k - 1)
    PROVE  /\ Placed(d, i, k)[files[i].path].kind = files[i].type
           /\ ~Placed(d, i, k)[files[i].path].locked
           /\ Placed(d, i, k)[files[i].path].data
                = Start(i, IF k <= Full(i) THEN k ELSE k - 1)
  <1> DEFINE p == files[i].path
  <1>1. p \in Path /\ i \in Nat /\ files[i].type \in {"folder", "link", "file"}
    BY EntryFacts DEF Entry
  <1>2. Chunks(i) \in Nat /\ k \in Nat /\ k > 0
    BY ChunkFacts
  <1>3. k - 1 \in Nat
    BY <1>2
  <1>4. CASE files[i].type # "file"
    <2>1. k = 1 /\ Full(i) = 0
      BY <1>2, <1>4, ChunkFacts
    <2>2. d[p] = Absent
      BY <2>1
    <2>3. Placed(d, i, k) = [d EXCEPT ![p] = Node(i, <<>>)]
      <3>1. d[p].kind # "folder"
        BY <2>2 DEF Absent
      <3> QED
        BY <1>1, <1>4, <3>1 DEF Placed
    <2>4. Placed(d, i, k)[p] = Node(i, <<>>)
      BY <1>1, <2>3 DEF Disk
    <2>5. Start(i, IF k <= Full(i) THEN k ELSE k - 1) = <<>>
      BY <1>1, <2>1, StartFacts
    <2> QED
      BY <2>4, <2>5 DEF Node
  <1>5. CASE files[i].type = "file"
    <2>1. d[p].data = Start(i, k - 1)
      <3>1. CASE k = 1
        <4>1. d[p].data = <<>>
          BY <3>1 DEF Absent
        <4> QED
          BY <1>1, <3>1, <4>1, StartFacts
      <3>2. CASE k # 1
        BY <3>2
      <3> QED
        BY <3>1, <3>2
    <2>2. Length(i, k) > 0 <=> k <= Full(i)
      BY <1>5, ChunkFacts
    <2> DEFINE e == IF Length(i, k) > 0 THEN Append(d[p].data, <<i, k>>) ELSE d[p].data
    <2>3. e = Start(i, IF k <= Full(i) THEN k ELSE k - 1)
      <3>1. Append(Start(i, k - 1), <<i, (k - 1) + 1>>) = Start(i, (k - 1) + 1)
        BY <1>1, <1>3, StartFacts
      <3>2. (k - 1) + 1 = k
        BY <1>2
      <3> QED
        BY <2>1, <2>2, <3>1, <3>2
    <2>4. Placed(d, i, k) = [d EXCEPT ![p] = Node(i, e)]
      BY <1>5 DEF Placed
    <2> HIDE DEF e
    <2>5. Placed(d, i, k)[p] = Node(i, e)
      BY <1>1, <2>4 DEF Disk
    <2> QED
      BY <2>3, <2>5 DEF Node
  <1> QED
    BY <1>4, <1>5

LEMMA PlacedBegun ==
    ASSUME Types, Unique, rcv # "ended",
           NEW i \in DOMAIN files, NEW k \in 1 .. Chunks(i), Begun(disk, current, i, k),
           NEW j, NEW l, Follows(i, k, j, l)
    PROVE  /\ Placed(Ready(i), i, k) \in Disk
           /\ Begun(Placed(Ready(i), i, k), i, j, l)
  <1> DEFINE d == Ready(i)
             e == Placed(d, i, k)
             p == files[i].path
  <1>1. DOMAIN files = 1 .. Len(files) /\ Len(files) \in Nat
    BY EntryFacts
  <1>2. Chunks(i) \in Nat /\ k \in Nat /\ k > 0 /\ i \in Nat
    BY <1>1, ChunkFacts
  <1>3. d \in Disk /\ Begun(d, current, i, k) /\ current <= i
    BY <1>2, ReadyFacts, SameFacts
  <1>4. e \in Disk /\ \A q \in Path : q # p => e[q] = d[q]
    BY <1>2, <1>3, PlacedFacts
  <1>5. /\ e[p].kind = files[i].type
        /\ ~e[p].locked
        /\ e[p].data = Start(i, IF k <= Full(i) THEN k ELSE k - 1)
    <2>1. IF k = 1 THEN d[p] = Absent
                   ELSE files[i].type = "file" /\ d[p].data = Start(i, k - 1)
      <3>1. k = 1 => i > current
        BY <1>1, <1>3 DEF Begun
      <3> QED
        BY <1>3, <3>1 DEF Begun, NothingAfter
    <2> QED
      BY <1>3, <2>1, ChunkPlaced
  <1> HIDE DEF d, e
  <1>6. ASSUME NEW n \in DOMAIN files, n # i
        PROVE  e[files[n].path] = d[files[n].path]
    <2>1. files[n].path # p
      BY <1>6 DEF Unique
    <2> QED
      BY <1>4, <2>1, EntryFacts
  <1>7. ASSUME NEW n \in DOMAIN files, n < i
        PROVE  CopyOn(e, n)
    <2>1. n # i
      BY <1>1, <1>2, <1>7
    <2> QED
      BY <1>3, <1>6, <1>7, <2>1 DEF Begun, CopiesBefore, CopyOn
  <1>8. NothingAfter(e, i)
    <2> SUFFICES ASSUME NEW n \in DOMAIN files, n > i
                 PROVE  e[files[n].path] = Absent
      BY DEF NothingAfter
    <2>1. n # i /\ n > current
      BY <1>1, <1>3 DEF Types, NoEntry
    <2> QED
      BY <1>3, <1>6, <2>1 DEF Begun, NothingAfter
  <1>9. FoldersOpen(e)
    <2> SUFFICES ASSUME NEW n \in DOMAIN files, files[n].type = "folder"
                 PROVE  ~e[files[n].path].locked
      BY DEF FoldersOpen
    <2>1. CASE n = i
      BY <1>5, <2>1, Zenon
    <2>2. CASE n # i
      <3>1. e[files[n].path] = d[files[n].path]
        BY <1>6, <2>2
      <3> QED
        BY <1>3, <3>1, Zenon DEF Begun, FoldersOpen
    <2> QED
      BY <2>1, <2>2
  <1>10. CASE k = Chunks(i)
    <2>1. j = i + 1 /\ l = 1
      BY <1>10 DEF Follows
    <2>2. CopyOn(e, i)
      <3>1. (IF k <= Full(i) THEN k ELSE k - 1) = Full(i)
        BY <1>2, <1>10, ChunkFacts
      <3>2. e[p].data = Start(i, Full(i))
        BY <1>5, <3>1
      <3> QED
        BY <1>5, <3>2 DEF CopyOn, Content, Start
    <2>3. \A n \in DOMAIN files : n < i + 1 => n < i \/ n = i
      BY <1>1, <1>2
    <2>4. CopiesBefore(e, j)
      BY <1>7, <2>1, <2>2, <2>3 DEF CopiesBefore
    <2>5. i = j - 1
      BY <1>2, <2>1
    <2> QED
      BY <1>4, <1>8, <1>9, <2>1, <2>4, <2>5 DEF Begun, d, e
  <1>11. CASE k # Chunks(i)
    <2>1. j = i /\ l = k + 1 /\ l # 1 /\ l - 1 = k
      BY <1>2, <1>11 DEF Follows
    <2>2. files[i].type = "file" /\ k <= Full(i)
      BY <1>2, <1>11, ChunkFacts
    <2>3. e[p].kind = "file" /\ e[p].data = Start(i, k)
      BY <1>5, <2>2
    <2>4. CopiesBefore(e, j)
      BY <1>7, <2>1 DEF CopiesBefore
    <2> QED
      BY <1>4, <1>8, <1>9, <2>1, <2>2, <2>3, <2>4 DEF Begun, d, e
  <1> QED
    BY <1>10, <1>11

-----------------------------------------------------------------------------
(***************************************************************************)
(* What is removed when a stream fails.                                    *)
(***************************************************************************)

\* If what comes before entry e is complete and nothing is there of what comes after,
\* no part is left when the toplevel of e has been removed.
LEMMA CleanedParts ==
    ASSUME Types, Unique, NEW d \in Disk, NEW e \in {NoEntry} \cup DOMAIN files,
           CopiesBefore(d, e), NothingAfter(d, e), FoldersOpen(d), NEW c \in Cleaned(d, e),
           NEW i \in DOMAIN files, NEW j \in DOMAIN files, files[i].top = files[j].top
    PROVE  /\ CopyOn(c, i) \/ c[files[i].path] = Absent
           /\ CopyOn(c, i) <=> CopyOn(c, j)
  <1>1. DOMAIN files = 1 .. Len(files) /\ Len(files) \in Nat
    BY EntryFacts
  <1>2. \A n \in DOMAIN files : files[n].type # "absent"
    BY EntryFacts DEF Entry
  <1>3. \A n \in DOMAIN files : c[files[n].path] = Absent => ~CopyOn(c, n)
    BY <1>2 DEF Absent, CopyOn
  <1>4. CASE e = NoEntry
    <2>1. \A n \in DOMAIN files : c[files[n].path] = Absent
      BY <1>1, <1>4 DEF Cleaned, NothingAfter, NoEntry
    <2> QED
      BY <1>3, <2>1
  <1>5. CASE e # NoEntry
    <2>1. e \in DOMAIN files /\ c = Removed(d, {files[e].top}, {})
      <3>1. PICK kept : c = Removed(d, {files[e].top}, kept) /\ Stays(d, files[e].top, kept)
        BY <1>5 DEF Cleaned
      <3> QED
        BY <1>5, <3>1, NothingStays
    <2>2. CASE files[i].top = files[e].top
      <3>1. c[files[i].path] = Absent /\ c[files[j].path] = Absent
        <4>1. \A n \in DOMAIN files : files[n].top = files[e].top =>
                  Removed(d, {files[e].top}, {})[files[n].path] = Absent
          BY RemovedFacts
        <4>2. files[j].top = files[e].top
          BY <2>2
        <4> QED
          BY <2>1, <2>2, <4>1, <4>2
      <3>2. ~CopyOn(c, i) /\ ~CopyOn(c, j)
        BY <1>3, <3>1
      <3> QED
        BY <3>1, <3>2
    <2>3. CASE files[i].top # files[e].top
      <3>1. c[files[i].path] = d[files[i].path] /\ c[files[j].path] = d[files[j].path]
        BY <2>1, <2>3, RemovedFacts
      <3>2. i # e /\ j # e
        BY <2>3
      <3>3. i < e => CopyOn(c, i)
        BY <3>1 DEF CopiesBefore, CopyOn
      <3>4. j < e => CopyOn(c, j)
        BY <3>1 DEF CopiesBefore, CopyOn
      <3>5. i > e => c[files[i].path] = Absent
        BY <3>1 DEF NothingAfter
      <3>6. j > e => c[files[j].path] = Absent
        BY <3>1 DEF NothingAfter
      <3>7. (i < e \/ i > e) /\ (j < e \/ j > e)
        BY <1>1, <2>1, <3>2
      <3>8. ~(i < e /\ e < j) /\ ~(j < e /\ e < i)
        BY <2>1, <2>3, TopsAssumption DEF Types, Unique
      <3>9. (i < e /\ j < e) \/ (i > e /\ j > e)
        BY <1>1, <2>1, <3>7, <3>8
      <3>10. CopyOn(c, i) \/ c[files[i].path] = Absent
        BY <3>3, <3>5, <3>7
      <3>11. CopyOn(c, i) <=> CopyOn(c, j)
        <4>1. CASE i < e /\ j < e
          BY <3>3, <3>4, <4>1
        <4>2. CASE i > e /\ j > e
          BY <1>3, <3>5, <3>6, <4>2
        <4> QED
          BY <3>9, <4>1, <4>2
      <3> QED
        BY <3>10, <3>11
    <2> QED
      BY <2>2, <2>3
  <1> QED
    BY <1>4, <1>5

\* So no part is left, whether the entry is the one of the chunk or the last one before.
LEMMA CleanedNoParts ==
    ASSUME Types, Unique, NEW d \in Disk, NEW i, NEW k, NEW e \in {NoEntry} \cup DOMAIN files,
           i \in 1 .. Len(files) + 1,
           Begun(d, current, i, k), e = i \/ e = current,
           disk' \in Cleaned(d, e), files' = files
    PROVE  NoParts'
  <1>1. DOMAIN files = 1 .. Len(files) /\ Len(files) \in Nat
    BY EntryFacts
  <1>2. current \in Nat /\ e \in Nat /\ i \in Nat
    BY <1>1 DEF Types, NoEntry
  <1>3. current <= i /\ i <= current + 1
    BY <1>2 DEF Begun
  <1>4. CopiesBefore(d, e)
    BY <1>1, <1>2, <1>3 DEF Begun, CopiesBefore
  <1>5. NothingAfter(d, e)
    BY <1>1, <1>2, <1>3 DEF Begun, NothingAfter
  <1>6. \A n \in DOMAIN files : IsCopy(n)' <=> CopyOn(disk', n)
    <2>1. \A n : Content(n)' = Content(n)
      BY DEF Content, Full, Chunks
    <2> QED
      BY <2>1 DEF IsCopy, CopyOn
  <1> SUFFICES ASSUME NEW n \in DOMAIN files, NEW m \in DOMAIN files,
                      files[n].top = files[m].top
               PROVE  /\ IsCopy(n)' \/ disk'[files[n].path] = Absent
                      /\ IsCopy(n)' <=> IsCopy(m)'
    BY DEF NoParts, Absent
  <1>7. /\ CopyOn(disk', n) \/ disk'[files[n].path] = Absent
        /\ CopyOn(disk', n) <=> CopyOn(disk', m)
    BY <1>4, <1>5, CleanedParts DEF Begun
  <1> QED
    BY <1>6, <1>7

-----------------------------------------------------------------------------
(***************************************************************************)
(* The invariant, step by step.                                            *)
(***************************************************************************)

\* A step that neither sends nor takes a chunk and leaves the receiver alone
LEMMA Aside ==
    ASSUME Types, InOrder, Written, UNCHANGED <<files, left, file, block, pipe, receiver>>
    PROVE  Types' /\ InOrder' /\ Written'
  <1>1. UNCHANGED <<rcv, current, remaining, perms, disk>>
    BY DEF receiver
  <1>2. Types'
    BY <1>1 DEF Types, Chunk, Disk, Place, Path
  <1>3. \A i : Chunks(i)' = Chunks(i) /\ Full(i)' = Full(i)
    BY DEF Chunks, Full
  <1>4. InOrder'
    BY <1>3 DEF InOrder, Follows
  <1>5. NextEntry' = NextEntry /\ NextNumber' = NextNumber
    BY DEF NextEntry, NextNumber
  <1>6. Written'
    BY <1>1, <1>5 DEF Written, Begun, CopiesBefore, NothingAfter, FoldersOpen, CopyOn,
       Content, Full, Chunks, Left, Unique, Start, Fresh
  <1> QED
    BY <1>2, <1>4, <1>6

LEMMA WrittenAfter ==
    ASSUME files' = files, rcv' = "receiving",
           Fresh' => remaining' = Left(current'),
           Fresh' => Begun(disk', current', NextEntry', NextNumber')
    PROVE  Written'
  BY DEF Written, Begun, CopiesBefore, NothingAfter, FoldersOpen, CopyOn, Content, Full,
     Chunks, Left, Unique, Start, Fresh

LEMMA WrittenAtEnd ==
    ASSUME files' = files, rcv' \in {"closing", "counting", "ended"}
    PROVE  Written'
  BY DEF Written

\* Where a chunk is taken: what is true of it, and of the order after it
LEMMA TakenFacts ==
    ASSUME Types, InOrder, Written, Receives, pipe' = Tail(pipe),
           UNCHANGED <<files, file, block>>
    PROVE  /\ rcv = "receiving" /\ pipe # <<>>
           /\ NextEntry = Head(pipe).entry /\ NextNumber = Head(pipe).number
           /\ NextEntry \in DOMAIN files /\ NextEntry \in Nat
           /\ NextNumber \in Nat /\ NextNumber \in 1 .. Chunks(NextEntry)
           /\ pipe' \in Seq(Chunk) /\ InOrder'
           /\ Follows(NextEntry, NextNumber, NextEntry', NextNumber')
           /\ Ready(NextEntry) \in Disk
           /\ Fresh => Begun(disk, current, NextEntry, NextNumber)
  <1>1. rcv = "receiving" /\ pipe # <<>>
    BY DEF Receives
  <1>2. pipe[1] = Head(pipe)
    BY <1>1 DEF Types
  <1>3. NextEntry = Head(pipe).entry /\ NextNumber = Head(pipe).number
    BY <1>1, <1>2 DEF NextEntry, NextNumber
  <1>4. /\ NextEntry \in DOMAIN files /\ NextEntry \in Nat
        /\ NextNumber \in Nat /\ NextNumber > 0 /\ NextNumber <= Chunks(NextEntry)
    <2>1. DOMAIN files = 1 .. Len(files) /\ Len(files) \in Nat
      BY EntryFacts
    <2>2. NextEntry \in DOMAIN files /\ NextNumber \in Nat /\ NextNumber > 0
      BY <1>1, NextFacts
    <2>3. NextEntry # Len(files) + 1
      BY <2>1, <2>2
    <2> QED
      BY <2>1, <2>2, <2>3, NextFacts
  <1>5. NextNumber \in 1 .. Chunks(NextEntry)
    BY <1>4, ChunkFacts
  <1>6. /\ pipe' \in Seq(Chunk) /\ InOrder'
        /\ Follows(NextEntry, NextNumber, NextEntry', NextNumber')
    BY <1>1, TakeOrder
  <1>7. Ready(NextEntry) \in Disk
    <2>1. disk \in Disk
      BY <1>1 DEF Types
    <2>2. CASE Ready(NextEntry) = disk
      BY <2>1, <2>2
    <2>3. CASE Ready(NextEntry) # disk
      <3>1. current \in DOMAIN files /\ Ready(NextEntry) = Chmod(disk, current)
        BY <2>3 DEF Ready, ClosedDisk, IsCurrent, Types
      <3> QED
        BY <2>1, <3>1, ChmodFacts
    <2> QED
      BY <2>2, <2>3
  <1>8. Fresh => Begun(disk, current, NextEntry, NextNumber)
    BY <1>1 DEF Written
  <1> QED
    BY <1>1, <1>3, <1>4, <1>5, <1>6, <1>7, <1>8

\* The entries that are left, counted when the chunk has been looked at
LEMMA CountFacts ==
    ASSUME Types, Unique, NEW i \in DOMAIN files, NEW k \in Nat,
           Begun(disk, current, i, k), remaining = Left(current)
    PROVE  LET n == IF Same(i) THEN remaining ELSE ClosedRemaining
           IN  n = Left(i) /\ n > 0
  <1>1. DOMAIN files = 1 .. Len(files) /\ Len(files) \in Nat
    BY EntryFacts
  <1>2. Same(i) <=> k # 1
    BY SameFacts
  <1>3. i \in Nat /\ i > 0 /\ i <= Len(files) /\ Left(i) = Len(files) - (i - 1)
    <2>1. i \in Nat /\ i > 0 /\ i <= Len(files)
      BY <1>1
    <2>2. i # NoEntry
      BY <2>1 DEF NoEntry
    <2> QED
      BY <2>1, <2>2 DEF Left
  <1>4. Left(i) > 0
    BY <1>1, <1>3
  <1>5. CASE k = 1
    <2>1. current = i - 1 /\ ~Same(i)
      BY <1>2, <1>5 DEF Begun
    <2>2. CASE i = 1
      <3>1. current = NoEntry
        BY <2>1, <2>2 DEF NoEntry
      <3>2. remaining = Len(files) - 0 /\ ClosedRemaining = remaining - 0
        BY <3>1 DEF ClosedRemaining, Left
      <3> QED
        BY <1>1, <1>3, <1>4, <2>1, <2>2, <3>2
    <2>3. CASE i # 1
      <3>1. current # NoEntry
        BY <1>3, <2>1, <2>3 DEF NoEntry
      <3>2. /\ remaining = Len(files) - (current - 1)
            /\ ClosedRemaining = remaining - 1
        BY <3>1 DEF ClosedRemaining, Left
      <3>3. ClosedRemaining = Left(i)
        BY <1>1, <1>3, <2>1, <3>2
      <3> QED
        BY <1>4, <2>1, <3>3
    <2> QED
      BY <2>2, <2>3
  <1>6. CASE k # 1
    <2>1. current = i /\ Same(i)
      BY <1>2, <1>6 DEF Begun
    <2> QED
      BY <1>4, <2>1
  <1> QED
    BY <1>5, <1>6

LEMMA CurrentAfter ==
    ASSUME Types, NEW i \in DOMAIN files
    PROVE  /\ (IF Same(i) THEN current ELSE i) \in DOMAIN files
           /\ Unique => (IF Same(i) THEN current ELSE i) = i
  <1>1. current # NoEntry => current \in DOMAIN files
    BY DEF Types
  <1> QED
    BY <1>1 DEF Same, Unique

LEMMA ClosedFacts ==
    ASSUME Types
    PROVE  /\ ClosedPerms \in Seq(DOMAIN files)
           /\ disk \in Disk => ClosedDisk \in Disk
  <1>1. current # NoEntry => current \in DOMAIN files
    BY DEF Types
  <1>2. perms \in Seq(DOMAIN files)
    BY DEF Types
  <1>3. ClosedPerms \in Seq(DOMAIN files)
    <2>1. CASE ClosedPerms = perms
      BY <1>2, <2>1
    <2>2. CASE ClosedPerms = Append(perms, current) /\ current # NoEntry
      BY <1>1, <1>2, <2>2
    <2> QED
      BY <2>1, <2>2, Zenon DEF ClosedPerms, IsCurrent
  <1>4. disk \in Disk => ClosedDisk \in Disk
    BY <1>1, ChmodFacts DEF ClosedDisk, IsCurrent
  <1> QED
    BY <1>3, <1>4

\* Without a refusal the chunk is placed; with different paths there is no refusal.
LEMMA ReceiveDataKeeps ==
    ASSUME Inv, ReceiveData
    PROVE  Types' /\ InOrder' /\ Written' /\ (Fresh => rcv' = "receiving")
  <1> DEFINE i == NextEntry
             k == NextNumber
             n == IF Same(i) THEN remaining ELSE ClosedRemaining
  <1>1. /\ Receives
        /\ pipe' = Tail(pipe)
        /\ UNCHANGED <<files, left, file, block>>
    BY DEF ReceiveData, settled, sender
  <1>0. Fresh' <=> Fresh
    BY <1>1 DEF Fresh, Unique
  <1>2. /\ rcv = "receiving" /\ pipe # <<>>
        /\ i = Head(pipe).entry /\ k = Head(pipe).number
        /\ i \in DOMAIN files /\ i \in Nat
        /\ k \in Nat /\ k \in 1 .. Chunks(i)
        /\ pipe' \in Seq(Chunk) /\ InOrder'
        /\ Follows(i, k, NextEntry', NextNumber')
        /\ Ready(i) \in Disk
        /\ Fresh => Begun(disk, current, i, k)
    BY <1>1, TakenFacts DEF Inv
  <1> HIDE DEF i, k
  <1>3. /\ current' = IF Same(i) THEN current ELSE i
        /\ perms' = IF Same(i) THEN perms ELSE ClosedPerms
        /\ remaining' = n
        /\ IF n > 0 /\ CanPlace(Ready(i), i, Same(i) /\ IsCurrent("file"))
             THEN disk' = Placed(Ready(i), i, k) /\ rcv' = rcv
             ELSE rcv' = "ended"
    BY <1>2 DEF ReceiveData, ReportReceiveError, Ready
  <1>4. current' \in DOMAIN files /\ (Fresh => current' = i)
    BY <1>2, <1>3, CurrentAfter DEF Inv, Fresh
  <1>5. rcv' # "ended" => disk' \in Disk
    BY <1>2, <1>3, PlacedFacts DEF Inv
  <1>6. Types'
    <2>1. perms' \in Seq(DOMAIN files)
      BY <1>3, ClosedFacts DEF Inv, Types
    <2> QED
      BY <1>1, <1>2, <1>4, <1>5, <2>1 DEF Inv, Types, Chunk, Disk, Place, Path
  <1>7. Fresh => n = Left(i) /\ n > 0
    BY <1>2, CountFacts DEF Inv, Written, Fresh
  <1>8. Fresh => CanPlace(Ready(i), i, Same(i) /\ IsCurrent("file"))
    BY <1>2, RoomFacts DEF Inv, Fresh
  <1>9. Fresh => /\ rcv' = "receiving"
                  /\ disk' = Placed(Ready(i), i, k)
                  /\ remaining' = Left(current')
    BY <1>2, <1>3, <1>4, <1>7, <1>8
  <1>10. Fresh => Begun(disk', current', NextEntry', NextNumber')
    <2> SUFFICES ASSUME Fresh PROVE Begun(disk', current', NextEntry', NextNumber')
      OBVIOUS
    <2>1. Begun(Placed(Ready(i), i, k), i, NextEntry', NextNumber')
      BY <1>2, PlacedBegun DEF Inv, Fresh
    <2> QED
      BY <1>4, <1>9, <2>1
  <1>11. Written'
    <2>1. rcv' = "receiving" \/ rcv' = "ended"
      BY <1>2, <1>3
    <2> QED
      BY <1>0, <1>1, <1>9, <1>10, <2>1, WrittenAfter, WrittenAtEnd
  <1> QED
    BY <1>2, <1>6, <1>9, <1>11

LEMMA SendChunkKeeps ==
    ASSUME Inv, SendChunk
    PROVE  Types' /\ InOrder' /\ Written'
  <1>1. /\ Types' /\ InOrder'
        /\ NextEntry' = NextEntry /\ NextNumber' = NextNumber
    BY SendOrder DEF Inv
  <1>2. UNCHANGED <<files, left, rcv, current, remaining, disk>>
    BY DEF SendChunk, settled, receiver
  <1>3. Written'
    BY <1>1, <1>2 DEF Inv, Written, Begun, CopiesBefore, NothingAfter, FoldersOpen, CopyOn,
       Content, Full, Chunks, Left, Unique, Start, Fresh
  <1> QED
    BY <1>1, <1>3

LEMMA CleanExistingFilesKeeps ==
    ASSUME Inv, CleanExistingFiles
    PROVE  Types' /\ InOrder' /\ Written'
  <1>1. /\ rcv = "cleaning" /\ rcv' = "receiving"
        /\ UNCHANGED <<files, file, block, pipe, current, remaining, perms>>
    BY DEF CleanExistingFiles, sender
  <1>2. PICK kept : disk' = Removed(disk, Tops, kept) /\ left' = (kept # {})
    BY DEF CleanExistingFiles
  <1>3. disk \in Disk /\ NextEntry = 1 /\ NextNumber = 1 /\ current = NoEntry
    BY <1>1 DEF Inv, Types, Written
  <1>4. disk' \in Disk
    BY <1>2, <1>3, RemovedFacts DEF Inv
  <1>5. Types'
    BY <1>1, <1>4 DEF Inv, Types, Chunk, Disk, Place, Path
  <1>6. InOrder'
    BY <1>1 DEF Inv, InOrder, Follows, Chunks
  <1>7. NextEntry' = 1 /\ NextNumber' = 1
    BY <1>1, <1>3 DEF NextEntry, NextNumber
  <1>8. DOMAIN files = 1 .. Len(files) /\ Len(files) \in Nat
    BY EntryFacts DEF Inv
  <1>9. ASSUME Fresh'
        PROVE  Begun(disk', current', NextEntry', NextNumber') /\ remaining' = Left(current')
    <2>1. kept = {}
      BY <1>2, <1>9 DEF Fresh
    <2>2. \A j \in DOMAIN files : disk'[files[j].path] = Absent
      BY <1>2, <1>3, <2>1, RemovedFacts DEF Tops, Inv
    <2>3. CopiesBefore(disk', 1)
      BY <1>8 DEF CopiesBefore
    <2>4. NothingAfter(disk', NoEntry)
      BY <2>2 DEF NothingAfter
    <2>5. FoldersOpen(disk')
      <3>1. ~Absent.locked
        BY Zenon DEF Absent
      <3> QED
        BY <2>2, <3>1, Zenon DEF FoldersOpen
    <2>6. NoEntry = 1 - 1
      BY DEF NoEntry
    <2>7. Begun(disk', current', NextEntry', NextNumber')
      BY <1>1, <1>3, <1>7, <2>3, <2>4, <2>5, <2>6 DEF Begun
    <2>8. Fresh
      <3>1. Unique /\ left = FALSE
        BY <1>1, <1>9 DEF Fresh, Unique, Inv, Barring
      <3> QED
        BY <3>1 DEF Fresh
    <2> QED
      BY <1>1, <2>7, <2>8 DEF Inv, Written
  <1>10. Written'
    BY <1>1, <1>9, WrittenAfter
  <1> QED
    BY <1>5, <1>6, <1>10

\* The receiver's thread comes to its end, with a chunk or without.
LEMMA EndKeeps ==
    ASSUME Types, InOrder, UNCHANGED <<files, file, block>>,
           rcv' \in {"closing", "counting", "ended"}, rcv' # "ended" => disk' \in Disk,
           current' \in {NoEntry} \cup DOMAIN files, perms' \in Seq(DOMAIN files),
           \/ pipe' = pipe
           \/ pipe # <<>> /\ pipe' = Tail(pipe)
    PROVE  Types' /\ InOrder' /\ Written'
  <1>1. pipe' \in Seq(Chunk) /\ InOrder'
    <2>1. CASE pipe' = pipe
      BY <2>1 DEF Types, InOrder, Follows, Chunks
    <2>2. CASE pipe # <<>> /\ pipe' = Tail(pipe)
      BY <2>2, TakeOrder
    <2> QED
      BY <2>1, <2>2
  <1>2. Types'
    BY <1>1 DEF Types, Chunk, Disk, Place, Path
  <1> QED
    BY <1>1, <1>2, WrittenAtEnd

\* The steps that end a stream of which all was taken
LEMMA EndingKeeps ==
    ASSUME Inv,
           \/ ReceiveFinished \/ ApplyFolderPermissions
           \/ PermissionsApplied \/ TransferFinished
    PROVE  Types' /\ InOrder' /\ Written' /\ FailureLeavesNoParts'
  <1>1. /\ Types /\ InOrder
        /\ current \in {NoEntry} \cup DOMAIN files /\ perms \in Seq(DOMAIN files)
    BY DEF Inv, Types
  <1>2. /\ rcv # "ended" /\ rcv' \in {"closing", "counting", "ended"}
        /\ UNCHANGED <<files, file, block, pipe>>
        /\ current' = current \/ current' = NoEntry
        /\ rcv' = "ended" => status' \in {"FINISHED", "FINISHED_WARNING"}
    <2>1. CASE ReceiveFinished
      <3>1. /\ rcv = "receiving" /\ rcv' = "closing" /\ current' = NoEntry
            /\ UNCHANGED <<files, file, block, pipe>>
        BY <2>1, Zenon DEF ReceiveFinished, settled, sender
      <3> QED
        BY <3>1
    <2>2. CASE ApplyFolderPermissions
      BY <2>2 DEF ApplyFolderPermissions, settled, sender
    <2>3. CASE TransferFinished
      BY <2>3 DEF TransferFinished, settled, sender
    <2>4. CASE PermissionsApplied
      BY <2>4 DEF PermissionsApplied, settled, sender
    <2> QED
      BY <2>1, <2>2, <2>3, <2>4
  <1>3. disk \in Disk
    BY <1>1, <1>2 DEF Types
  <1>4. disk' \in Disk /\ perms' \in Seq(DOMAIN files)
    <2>1. CASE ReceiveFinished
      <3>1. disk' = ClosedDisk /\ perms' = ClosedPerms
        BY <2>1, Zenon DEF ReceiveFinished
      <3> QED
        BY <1>1, <1>3, <3>1, ClosedFacts
    <2>2. CASE ApplyFolderPermissions
      <3>1. /\ perms # <<>> /\ disk' = Chmod(disk, Last(perms)) /\ perms' = Front(perms)
        BY <2>2 DEF ApplyFolderPermissions
      <3>2. Last(perms) \in DOMAIN files /\ Front(perms) \in Seq(DOMAIN files)
        BY <1>1, <3>1 DEF Last, Front
      <3> QED
        BY <1>1, <1>3, <3>1, <3>2, ChmodFacts
    <2>3. CASE TransferFinished
      BY <1>1, <1>3, <2>3 DEF TransferFinished
    <2>4. CASE PermissionsApplied
      BY <1>1, <1>3, <2>4 DEF PermissionsApplied
    <2> QED
      BY <2>1, <2>2, <2>3, <2>4
  <1>5. Types' /\ InOrder' /\ Written'
    BY <1>1, <1>2, <1>4, EndKeeps
  <1>6. FailureLeavesNoParts'
    BY <1>2 DEF FailureLeavesNoParts
  <1> QED
    BY <1>5, <1>6

-----------------------------------------------------------------------------
(***************************************************************************)
(* No parts.                                                               *)
(***************************************************************************)

\* Once the receiver's thread has ended the disk stays, and the status can only
\* become FINISHED.
LEMMA PartsAside ==
    ASSUME FailureLeavesNoParts, UNCHANGED <<files, left, disk, rcv>>,
           rcv # "ended" \/ status' = status \/ status' = "FINISHED"
    PROVE  FailureLeavesNoParts'
  BY DEF FailureLeavesNoParts, NoParts, IsCopy, Content, Full, Chunks, Unique, Absent

\* The disk is cleaned from the chunk that was refused, or from the last entry.
LEMMA WriteErrorParts ==
    ASSUME Inv, WriteError
    PROVE  FailureLeavesNoParts'
  <1> SUFFICES ASSUME Fresh PROVE NoParts'
    BY DEF FailureLeavesNoParts, Unique, Fresh, WriteError, settled
  <1> DEFINE i == NextEntry
  <1>1. /\ Receives
        /\ pipe' = Tail(pipe)
        /\ UNCHANGED <<files, file, block>>
    BY DEF WriteError, settled, sender
  <1>2. /\ rcv = "receiving" /\ pipe # <<>>
        /\ i = Head(pipe).entry /\ i \in DOMAIN files
        /\ NextNumber \in Nat
        /\ Ready(i) \in Disk
        /\ Begun(disk, current, i, NextNumber)
    BY <1>1, TakenFacts DEF Inv
  <1> HIDE DEF i
  <1>3. disk' \in Cleaned(Ready(i), i)
    BY <1>2 DEF WriteError, ReportReceiveError, Ready
  <1>4. Begun(Ready(i), current, i, NextNumber)
    BY <1>2, ReadyFacts DEF Inv, Fresh
  <1>5. i \in 1 .. Len(files) + 1
    BY <1>2, EntryFacts DEF Inv
  <1> QED
    BY <1>1, <1>2, <1>3, <1>4, <1>5, CleanedNoParts DEF Inv, Fresh

LEMMA CurrentParts ==
    ASSUME Inv, Fresh, rcv = "receiving", disk' \in Cleaned(disk, current), files' = files
    PROVE  NoParts'
  <1>1. disk \in Disk /\ current \in {NoEntry} \cup DOMAIN files
    BY DEF Inv, Types
  <1>2. Begun(disk, current, NextEntry, NextNumber)
    BY DEF Inv, Written
  <1>3. NextEntry \in 1 .. Len(files) + 1
    BY NextFacts DEF Inv
  <1> QED
    BY <1>1, <1>2, <1>3, CleanedNoParts DEF Inv, Fresh

LEMMA DecompressionFailsParts ==
    ASSUME Inv, DecompressionFails
    PROVE  FailureLeavesNoParts'
  <1> SUFFICES ASSUME Fresh PROVE NoParts'
    BY DEF FailureLeavesNoParts, Unique, Fresh, DecompressionFails, settled
  <1>1. rcv = "receiving" /\ disk' \in Cleaned(disk, current) /\ files' = files
    BY DEF DecompressionFails, ReportReceiveError, Receives, settled
  <1> QED
    BY <1>1, CurrentParts

LEMMA ReceiveFailedParts ==
    ASSUME Inv, ReceiveFailed
    PROVE  FailureLeavesNoParts'
  <1> SUFFICES ASSUME Fresh PROVE NoParts'
    BY DEF FailureLeavesNoParts, Unique, Fresh, ReceiveFailed, settled
  <1>1. rcv = "receiving" /\ disk' \in Cleaned(disk, current) /\ files' = files
    BY DEF ReceiveFailed, settled
  <1> QED
    BY <1>1, CurrentParts

-----------------------------------------------------------------------------
(***************************************************************************)
(* What was left.                                                          *)
(***************************************************************************)

\* A step that changes nothing of what is barred
LEMMA BarringAside ==
    ASSUME Inv, UNCHANGED <<files, exact, left>>,
           rcv = "ended" => rcv' = "ended",
           gen = "gave_up" => gen' = "gave_up",
           \/ /\ UNCHANGED <<rcv, current, disk>>
              /\ Taken' = Taken
           \/ rcv \in {"closing", "counting"} /\ rcv' \in {"closing", "counting", "ended"}
           \/ rcv' = "ended"
    PROVE  Barring'
  <1>1. Barring
    BY DEF Inv
  <1>2. CASE rcv' = "ended"
    BY <1>1, <1>2, Zenon DEF Barring
  <1>3. CASE rcv \in {"closing", "counting"} /\ rcv' \in {"closing", "counting"}
    <2>1. left = TRUE => gen' = "gave_up"
      BY <1>1, <1>3 DEF Barring
    <2>2. rcv' # "cleaning" /\ rcv' # "receiving"
      BY <1>3
    <2> QED
      BY <1>1, <2>1, <2>2, Zenon DEF Barring
  <1>4. CASE UNCHANGED <<rcv, current, disk>> /\ Taken' = Taken
    <2>1. \A j : Barred(disk, j)' <=> Barred(disk, j)
      BY <1>4 DEF Barred, Shut
    <2>2. IsCurrent("file")' <=> IsCurrent("file")
      BY <1>4 DEF IsCurrent
    <2> QED
      BY <1>1, <1>4, <2>1, <2>2, Zenon DEF Barring
  <1> QED
    BY <1>2, <1>3, <1>4

\* Something that was left is in a folder that lets nothing come into it.
LEMMA BarringCleans ==
    ASSUME Inv, CleanExistingFiles
    PROVE  Barring'
  <1>1. /\ rcv = "cleaning" /\ rcv' = "receiving"
        /\ UNCHANGED <<files, exact, file, block, pipe, current>>
    BY DEF CleanExistingFiles, sender
  <1>2. PICK kept \in SUBSET UNION {There(disk, top) : top \in Tops} :
          /\ \A top \in Tops : Stays(disk, top, kept \cap There(disk, top))
          /\ disk' = Removed(disk, Tops, kept)
          /\ left' = (kept # {})
    BY DEF CleanExistingFiles
  <1>3. /\ disk \in Disk /\ NextEntry = 1 /\ NextNumber = 1 /\ current = NoEntry
    BY <1>1 DEF Inv, Types, Written
  <1>4. Taken' = 0
    BY <1>1, <1>3 DEF NextEntry, NextNumber, Taken
  <1>5. DOMAIN files = 1 .. Len(files) /\ Len(files) \in Nat
    BY EntryFacts DEF Inv
  <1>6. ASSUME kept # {}
        PROVE  \E j \in DOMAIN files : Taken' < j /\ Barred(disk', j)
    <2>1. PICK top \in Tops : kept \cap There(disk, top) # {}
      BY <1>2, <1>6
    <2>2. PICK j \in DOMAIN files, q \in kept \cap There(disk, top) :
              q \in files[j].above /\ Shut(disk, q)
      BY <1>2, <1>3, <2>1, StaysFacts DEF Inv
    <2>3. q \in kept \cap Path
      BY <2>2 DEF There
    <2>4. disk'[q] = disk[q]
      BY <1>2, <1>3, <2>3, RemovedFacts DEF Inv
    <2>5. Shut(disk', q)
      BY <2>2, <2>4 DEF Shut
    <2> QED
      BY <1>4, <1>5, <2>2, <2>5 DEF Barred
  <1>7. kept # {} => \E i \in DOMAIN files : files[i].type = "folder"
    <2> SUFFICES ASSUME kept # {} PROVE \E i \in DOMAIN files : files[i].type = "folder"
      OBVIOUS
    <2>1. \E j \in DOMAIN files : Barred(disk', j)
      BY <1>6
    <2> QED
      BY <2>1, EntryFacts DEF Barred, Inv
  <1>8. \A j : Barred(disk, j)' <=> Barred(disk', j)
    BY <1>1 DEF Barred, Shut
  <1>9. left' \in BOOLEAN
    BY <1>2
  <1>10. ~IsCurrent("file")'
    BY <1>1, <1>3 DEF IsCurrent
  <1>11. rcv' # "cleaning" /\ rcv' \notin {"closing", "counting"}
    BY <1>1
  <1>12. exact => \A i \in DOMAIN files : files[i].type = "file"
    BY Zenon DEF Inv, Barring
  <1> QED
    BY <1>1, <1>2, <1>6, <1>7, <1>8, <1>9, <1>10, <1>11, <1>12, Zenon DEF Barring

\* The chunk that was taken is one of entry i.
LEMMA TakenAfter ==
    ASSUME Types, NEW i \in DOMAIN files, NEW k \in 1 .. Chunks(i),
           Follows(i, k, NextEntry', NextNumber')
    PROVE  /\ Taken' = i
           /\ NextNumber' = 1 <=> k = Chunks(i)
           /\ k # Chunks(i) => NextNumber' = k + 1
  <1>1. i \in Nat /\ k \in Nat /\ k > 0 /\ Chunks(i) \in Nat
    BY EntryFacts, ChunkFacts
  <1>2. CASE k = Chunks(i)
    BY <1>1, <1>2 DEF Follows, Taken
  <1>3. CASE k # Chunks(i)
    BY <1>1, <1>3 DEF Follows, Taken
  <1> QED
    BY <1>2, <1>3

\* A chunk that is placed is of no entry that is barred, opens none of what is shut, and
\* makes a file or a link of what was one.
LEMMA BarringReceives ==
    ASSUME Inv, ReceiveData
    PROVE  Barring'
  <1> DEFINE i == NextEntry
             k == NextNumber
             d == Ready(i)
  <1>1. /\ Receives
        /\ pipe' = Tail(pipe)
        /\ UNCHANGED <<files, exact, left, file, block, gen>>
    BY DEF ReceiveData, settled, sender
  <1>2. /\ rcv = "receiving" /\ pipe # <<>>
        /\ i = Head(pipe).entry /\ k = Head(pipe).number
        /\ i \in DOMAIN files /\ i \in Nat
        /\ k \in Nat /\ k \in 1 .. Chunks(i)
        /\ Follows(i, k, NextEntry', NextNumber')
        /\ d \in Disk
    BY <1>1, TakenFacts DEF Inv
  <1>3. Taken = IF k = 1 THEN i - 1 ELSE i
    BY DEF Taken
  <1>4. DOMAIN files = 1 .. Len(files) /\ Len(files) \in Nat
    BY EntryFacts DEF Inv
  <1>5. Taken' = i
    BY <1>2, TakenAfter DEF Inv
  <1>6. files[i].path \in Path /\ files[i].type \in {"folder", "link", "file"}
    BY <1>2, EntryFacts DEF Inv, Entry
  <1>7. IsCurrent("file") => /\ disk[files[current].path].kind \in {"file", "link"}
                             /\ current \in DOMAIN files
    BY <1>2 DEF Inv, Barring, Types, IsCurrent
  <1>8. \A p \in Path : disk[p].kind = "folder" => d[p] = disk[p]
    <2> SUFFICES ASSUME NEW p \in Path, disk[p].kind = "folder" PROVE d[p] = disk[p]
      OBVIOUS
    <2>1. CASE d = disk
      BY <2>1
    <2>2. CASE d # disk
      <3>1. IsCurrent("file") /\ d = Chmod(disk, current)
        BY <2>2 DEF Ready, ClosedDisk
      <3>2. p # files[current].path
        BY <1>7, <3>1
      <3>3. disk \in Disk
        BY <1>2 DEF Inv, Types
      <3> QED
        BY <1>7, <3>1, <3>2, <3>3, ChmodFacts DEF Inv
    <2> QED
      BY <2>1, <2>2
  <1>9. Same(i) => d = disk
    BY DEF Ready
  <1>10. CASE rcv' = "ended"
    BY <1>1, <1>10, BarringAside, <1>2
  <1>11. CASE rcv' # "ended"
    <2> HIDE DEF i, k, d
    <2>1. /\ current' = IF Same(i) THEN current ELSE i
          /\ CanPlace(d, i, Same(i) /\ IsCurrent("file"))
          /\ disk' = Placed(d, i, k)
          /\ rcv' = rcv
      BY <1>2, <1>11 DEF ReceiveData, ReportReceiveError, Ready, d
    <2>2. \A p \in Path : p # files[i].path => disk'[p] = d[p]
      BY <1>2, <2>1, PlacedFacts DEF Inv
    <2>3. Same(i) /\ IsCurrent("file") => d[files[i].path].kind \in {"file", "link"}
      BY <1>7, <1>9 DEF Same
    <2>4. files[i].type = "folder" => d[files[i].path].kind \in {"absent", "folder"}
      BY <2>1 DEF CanPlace
    <2>5. d[files[i].path].kind = "folder" => disk'[files[i].path] = d[files[i].path]
      <3>1. CASE files[i].type = "folder"
        BY <2>1, <3>1 DEF Placed
      <3>2. CASE files[i].type = "link"
        BY <2>1, <3>2 DEF CanPlace
      <3>3. CASE files[i].type = "file"
        <4>1. d[files[i].path].kind = "absent" \/ (Same(i) /\ IsCurrent("file"))
          BY <2>1, <3>3 DEF CanPlace
        <4> QED
          BY <2>3, <4>1
      <3> QED
        BY <1>6, <3>1, <3>2, <3>3
    <2>6. \A p \in Path : Shut(disk, p) => Shut(disk', p)
      <3> SUFFICES ASSUME NEW p \in Path, Shut(disk, p) PROVE Shut(disk', p)
        OBVIOUS
      <3>1. disk[p].kind = "folder"
        BY DEF Shut
      <3>2. d[p] = disk[p]
        BY <1>8, <3>1
      <3>3. disk'[p] = d[p]
        BY <2>2, <2>5, <3>1, <3>2
      <3>4. disk'[p] = disk[p]
        BY <3>2, <3>3
      <3> QED
        BY <3>4 DEF Shut
    <2>7. \A p \in files[i].above : ~Shut(disk, p)
      <3> SUFFICES ASSUME NEW p \in files[i].above, Shut(disk, p) PROVE FALSE
        OBVIOUS
      <3>1. p \in Path
        BY <1>2, EntryFacts DEF Inv
      <3>2. d[p] = disk[p]
        BY <1>8, <3>1 DEF Shut
      <3>3. Shut(d, p)
        BY <3>2 DEF Shut
      <3> QED
        BY <2>1, <3>3, Zenon DEF CanPlace
    <2>8. left = TRUE => \E j \in DOMAIN files : i < j /\ Barred(disk', j)
      <3> SUFFICES ASSUME left = TRUE
                   PROVE  \E j \in DOMAIN files : i < j /\ Barred(disk', j)
        OBVIOUS
      <3>1. PICK j \in DOMAIN files : Taken < j /\ Barred(disk, j)
        BY <1>2 DEF Inv, Barring
      <3>2. PICK o \in files[j].above : Shut(disk, o)
        BY <3>1 DEF Barred
      <3>3. o \in Path
        BY <3>2, EntryFacts DEF Inv
      <3>4. Barred(disk', j)
        BY <2>6, <3>2, <3>3 DEF Barred
      <3>5. j # i
        BY <2>7, <3>2
      <3> QED
        BY <1>2, <1>3, <1>4, <3>1, <3>4, <3>5
    <2>9. IsCurrent("file")' => disk'[files[current'].path].kind \in {"file", "link"}
      <3> SUFFICES ASSUME IsCurrent("file")'
                   PROVE  disk'[files[current'].path].kind \in {"file", "link"}
        OBVIOUS
      <3>1. files[current'].path = files[i].path
        BY <2>1 DEF Same
      <3>2. files[i].type \in {"link", "file"}
        <4>1. CASE Same(i)
          <5>1. IsCurrent("file")
            BY <1>1, <2>1, <4>1 DEF IsCurrent
          <5> QED
            BY <1>6, <2>3, <2>4, <4>1, <5>1
        <4>2. CASE ~Same(i)
          BY <1>1, <2>1, <4>2 DEF IsCurrent
        <4> QED
          BY <4>1, <4>2
      <3>3. disk'[files[i].path].kind = files[i].type
        <4>1. CASE files[i].type = "link"
          BY <1>2, <1>6, <2>1, <4>1 DEF Placed, Node, Disk
        <4>2. CASE files[i].type = "file"
          BY <1>2, <1>6, <2>1, <4>2 DEF Placed, Node, Disk
        <4> QED
          BY <3>2, <4>1, <4>2
      <3> QED
        BY <3>1, <3>2, <3>3
    <2>10. \A j : Barred(disk, j)' <=> Barred(disk', j)
      BY <1>1 DEF Barred, Shut
    <2>11. Taken' = i
      BY <1>5 DEF i
    <2>12. rcv' # "cleaning" /\ rcv' \notin {"closing", "counting"}
      BY <1>2, <2>1
    <2>13. Barring
      BY DEF Inv
    <2> QED
      BY <1>1, <2>8, <2>9, <2>10, <2>11, <2>12, <2>13, Zenon DEF Barring
  <1> QED
    BY <1>10, <1>11

\* When all that was sent has been taken, the sender has not sent all.
LEMMA BarringFinishes ==
    ASSUME Inv, ReceiveFinished
    PROVE  Barring'
  <1>1. /\ rcv = "receiving" /\ rcv' = "closing" /\ pipe = <<>>
        /\ UNCHANGED <<files, exact, left, gen>>
    BY Zenon DEF ReceiveFinished, settled, sender
  <1>2. gen = "done" \/ gen = "gave_up"
    BY Zenon DEF ReceiveFinished
  <1>3. DOMAIN files = 1 .. Len(files) /\ Len(files) \in Nat
    BY EntryFacts DEF Inv
  <1>4. ASSUME left = TRUE, gen = "done"
        PROVE  FALSE
    <2>1. file = Len(files) + 1 /\ block = 0
      BY <1>4 DEF Inv, Undisturbed, InOrder
    <2>2. Taken = Len(files)
      BY <1>1, <1>3, <2>1 DEF Taken, NextEntry, NextNumber
    <2>3. \E j \in DOMAIN files : Taken < j
      BY <1>1, <1>4 DEF Inv, Barring
    <2> QED
      BY <1>3, <2>2, <2>3
  <1>5. left = TRUE => gen' = "gave_up"
    BY <1>1, <1>2, <1>4
  <1>6. rcv' # "cleaning" /\ rcv' # "receiving"
    BY <1>1
  <1>7. Barring
    BY DEF Inv
  <1> QED
    BY <1>1, <1>5, <1>6, <1>7, Zenon DEF Barring

-----------------------------------------------------------------------------
(***************************************************************************)
(* Without a fault.                                                        *)
(***************************************************************************)

\* When all was sent and taken, the last entry is the current one.
LEMMA ReceiveFinishedCount ==
    ASSUME Inv, ReceiveFinished, Fresh, gen = "done"
    PROVE  remaining' = 0
  <1>1. rcv = "receiving" /\ pipe = <<>> /\ remaining' = ClosedRemaining
    BY DEF ReceiveFinished
  <1>2. DOMAIN files = 1 .. Len(files) /\ Len(files) \in Nat /\ Len(files) > 0
    BY EntryFacts DEF Inv
  <1>3. file = Len(files) + 1
    BY DEF Inv, Undisturbed
  <1>4. NextEntry = Len(files) + 1 /\ NextNumber = 1
    <2>1. block = 0
      BY <1>3 DEF Inv, InOrder
    <2> QED
      BY <1>1, <1>3, <2>1 DEF NextEntry, NextNumber
  <1>5. current = NextEntry - 1
    BY <1>1, <1>4 DEF Inv, Written, Begun
  <1>6. current = Len(files)
    BY <1>2, <1>4, <1>5
  <1>7. current # NoEntry
    BY <1>2, <1>6 DEF NoEntry
  <1>8. remaining = Len(files) - (current - 1) /\ ClosedRemaining = remaining - 1
    BY <1>1, <1>7 DEF Inv, Written, Left, ClosedRemaining
  <1>9. ClosedRemaining = 0
    BY <1>2, <1>6, <1>8
  <1> QED
    BY <1>1, <1>9

\* What a step of the sender or of the call does to the three of them
LEMMA SentAfter ==
    ASSUME Undisturbed, UNCHANGED <<files, left, rcv, remaining>>,
           rcv = "ended" => status' = status,
           gen' = "done" => file' = Len(files) + 1,
           ~faulty' => ~faulty /\ call' = "up" /\ ~evt' /\ gen' # "gave_up"
    PROVE  Undisturbed'
  BY Zenon DEF Undisturbed, UndisturbedFinishes, Unique, Fresh

LEMMA UndisturbedSender ==
    ASSUME Undisturbed,
           \/ Generator \/ ReadError \/ CompressionFails
           \/ StopSender \/ CancelCall \/ LoseCall
    PROVE  Undisturbed'
  <1>1. ~faulty => call = "up" /\ ~evt /\ gen # "gave_up"
    BY Zenon DEF Undisturbed
  <1>2. gen = "done" => file = Len(files) + 1
    BY Zenon DEF Undisturbed
  <1>3. CASE SendChunk
    <2>1. /\ gen = "running" /\ UNCHANGED <<files, left, remaining, rcv, status, gen, call, evt, faulty>>
      BY <1>3 DEF SendChunk, settled, receiver
    <2>2. gen' # "done"
      BY <2>1, Zenon
    <2> QED
      BY <1>1, <2>1, <2>2, SentAfter, Zenon
  <1>4. CASE AllSent
    <2>1. /\ file = Len(files) + 1 /\ gen' = "done"
          /\ UNCHANGED <<files, left, remaining, rcv, status, file, call, evt, faulty>>
      BY <1>4 DEF AllSent, EndGenerator, settled, receiver
    <2>2. gen' # "gave_up"
      BY <2>1
    <2> QED
      BY <1>1, <2>1, <2>2, SentAfter, Zenon
  <1>5. CASE SendStopped
    <2>1. /\ evt /\ gen' = "gave_up"
          /\ UNCHANGED <<files, left, remaining, rcv, status, faulty>>
      BY <1>5, Zenon DEF SendStopped, EndGenerator, settled, receiver
    <2>2. gen' # "done"
      BY <2>1, Zenon
    <2> QED
      BY <1>1, <2>1, <2>2, SentAfter, Zenon
  <1>6. CASE GeneratorDropped
    <2>1. /\ gen' = "dropped"
          /\ UNCHANGED <<files, left, remaining, rcv, status, call, evt, faulty>>
      BY <1>6 DEF GeneratorDropped, EndGenerator, settled, receiver
    <2>2. gen' # "done" /\ gen' # "gave_up"
      BY <2>1
    <2> QED
      BY <1>1, <2>1, <2>2, SentAfter, Zenon
  <1>7. CASE ReadError
    <2>1. gen' = "gave_up" /\ faulty' = TRUE /\ UNCHANGED <<files, left, remaining, rcv, status>>
      BY <1>7, Zenon DEF ReadError, EndGenerator, settled, receiver
    <2>2. gen' # "done"
      BY <2>1, Zenon
    <2> QED
      BY <2>1, <2>2, SentAfter, Zenon
  <1>8. CASE CompressionFails
    <2>1. gen' = "dropped" /\ faulty' = TRUE /\ UNCHANGED <<files, left, remaining, rcv, status>>
      BY <1>8 DEF CompressionFails, settled, receiver
    <2>2. gen' # "done"
      BY <2>1, Zenon
    <2> QED
      BY <2>1, <2>2, SentAfter, Zenon
  <1>9. CASE StopSender
    <2>1. faulty' = TRUE /\ UNCHANGED <<files, left, remaining, rcv, status, gen, file>>
      BY <1>9 DEF StopSender, settled, receiver
    <2> QED
      BY <1>2, <2>1, SentAfter, Zenon
  <1>10. CASE CancelCall
    <2>1. rcv # "ended" /\ faulty' = TRUE /\ UNCHANGED <<files, left, remaining, rcv, gen, file>>
      BY <1>10 DEF CancelCall, settled, sender, receiver
    <2> QED
      BY <1>2, <2>1, SentAfter, Zenon
  <1>11. CASE LoseCall
    <2>1. faulty' = TRUE /\ UNCHANGED <<files, left, remaining, rcv, status, gen, file>>
      BY <1>11 DEF LoseCall, settled, sender, receiver
    <2> QED
      BY <1>2, <2>1, SentAfter, Zenon
  <1> QED
    BY <1>3, <1>4, <1>5, <1>6, <1>7, <1>8, <1>9, <1>10, <1>11 DEF Generator

\* A step of the receiver: of the three, only the status is at stake.
LEMMA ReceivedAfter ==
    ASSUME Undisturbed, UNCHANGED <<files, left, file, gen, evt, call>>, faulty' = faulty,
           (Fresh /\ rcv' \in {"closing", "counting"} /\ ~faulty) => remaining' = 0,
           (Unique /\ rcv' = "ended" /\ ~faulty) =>
               status' = IF left THEN "FAILED" ELSE "FINISHED"
    PROVE  Undisturbed'
  BY Zenon DEF Undisturbed, UndisturbedFinishes, Unique, Fresh

LEMMA FaultAfter ==
    ASSUME Undisturbed, UNCHANGED <<files, file, gen>>, faulty' = TRUE
    PROVE  Undisturbed'
  BY Zenon DEF Undisturbed, UndisturbedFinishes

LEMMA UndisturbedReceiver ==
    ASSUME Inv, Receiver \/ WriteError \/ DecompressionFails \/ UpdateProgress
    PROVE  Undisturbed'
  <1>1. Undisturbed
    BY DEF Inv
  <1>2. CASE CleanExistingFiles
    <2>1. /\ rcv' = "receiving" /\ UNCHANGED <<files, file, gen, evt, call, faulty>>
      BY <1>2 DEF CleanExistingFiles, sender
    <2>2. rcv' # "ended" /\ rcv' \notin {"closing", "counting"}
      BY <2>1
    <2> QED
      BY <1>1, <2>1, <2>2, Zenon DEF Undisturbed, UndisturbedFinishes
  <1>3. CASE ReceiveData
    <2>1. Fresh => rcv' = "receiving"
      BY <1>3, ReceiveDataKeeps
    <2>2. /\ rcv = "receiving"
          /\ rcv' = rcv \/ (rcv' = "ended" /\ status' = "FAILED")
          /\ UNCHANGED <<files, left, file, gen, evt, call, faulty>>
      BY <1>3 DEF ReceiveData, Receives, ReportReceiveError, settled, sender
    <2>3. rcv' \notin {"closing", "counting"}
      BY <2>2
    <2>4. ASSUME Unique, rcv' = "ended"
          PROVE  status' = IF left THEN "FAILED" ELSE "FINISHED"
      <3>1. ~Fresh
        BY <2>1, <2>4
      <3>2. left
        BY <2>4, <3>1, Zenon DEF Fresh
      <3>3. status' = "FAILED"
        BY <2>2, <2>4
      <3> QED
        BY <3>2, <3>3, Zenon
    <2> QED
      BY <1>1, <2>2, <2>3, <2>4, ReceivedAfter, Zenon
  <1>4. CASE ReceiveFinished
    <2>1. gen \in {"done", "gave_up"} /\ UNCHANGED <<files, left, file, gen, evt, call, faulty>>
      BY <1>4, Zenon DEF ReceiveFinished, settled, sender
    <2>2. ~faulty => gen # "gave_up"
      BY <1>1, Zenon DEF Undisturbed
    <2>3. gen = "done" \/ gen = "gave_up"
      BY <2>1, Zenon
    <2>4. Fresh /\ gen = "done" => remaining' = 0
      BY <1>4, ReceiveFinishedCount
    <2>5. rcv' = "closing"
      BY <1>4, Zenon DEF ReceiveFinished
    <2>6. rcv' # "ended"
      BY <2>5
    <2> QED
      BY <1>1, <2>1, <2>2, <2>3, <2>4, <2>6, ReceivedAfter, Zenon
  <1>9. CASE ApplyFolderPermissions \/ PermissionsApplied
    <2>1. /\ rcv = "closing" /\ rcv' \in {"closing", "counting"}
          /\ UNCHANGED <<files, left, file, gen, evt, call, faulty, remaining>>
      BY <1>9 DEF ApplyFolderPermissions, PermissionsApplied, settled, sender
    <2>2. rcv' # "ended" /\ rcv \in {"closing", "counting"}
      BY <2>1
    <2>3. Fresh /\ rcv \in {"closing", "counting"} /\ ~faulty => remaining = 0
      BY <1>1, Zenon DEF Undisturbed
    <2> QED
      BY <1>1, <2>1, <2>2, <2>3, ReceivedAfter, Zenon
  <1>10. CASE TransferFinished
    <2>1. /\ rcv = "counting" /\ rcv' = "ended"
          /\ status' = IF remaining > 0 THEN "FINISHED_WARNING" ELSE "FINISHED"
          /\ UNCHANGED <<files, left, file, gen, evt, call, faulty, remaining>>
      BY <1>10 DEF TransferFinished, settled, sender
    <2>2. rcv' \notin {"closing", "counting"} /\ rcv \in {"closing", "counting"}
      BY <2>1
    <2>3. Fresh /\ ~faulty => remaining = 0
      BY <1>1, <2>2, Zenon DEF Undisturbed
    <2>4. remaining = 0 => status' = "FINISHED"
      BY <2>1
    <2>5. left = TRUE => gen = "gave_up"
      BY <2>1 DEF Inv, Barring
    <2>6. left \in BOOLEAN /\ (~faulty => gen # "gave_up")
      BY <1>1, Zenon DEF Undisturbed, Inv, Barring
    <2>7. ~faulty => ~left
      BY <2>5, <2>6, Zenon
    <2> QED
      BY <1>1, <2>1, <2>2, <2>3, <2>4, <2>7, ReceivedAfter, Zenon DEF Fresh
  <1>5. CASE ReceiveFailed
    <2>1. call # "up" /\ UNCHANGED <<files, left, file, gen, evt, call, faulty>>
      BY <1>5 DEF ReceiveFailed, settled, sender
    <2>2. ~faulty => call = "up"
      BY <1>1, Zenon DEF Undisturbed
    <2> QED
      BY <1>1, <2>1, <2>2, ReceivedAfter, Zenon
  <1>6. CASE WriteError
    <2>1. faulty' = TRUE /\ UNCHANGED <<files, file, gen>>
      BY <1>6 DEF WriteError, settled, sender
    <2> QED
      BY <1>1, <2>1, FaultAfter
  <1>7. CASE DecompressionFails
    <2>1. faulty' = TRUE /\ UNCHANGED <<files, file, gen>>
      BY <1>7 DEF DecompressionFails, settled, sender
    <2> QED
      BY <1>1, <2>1, FaultAfter
  <1>8. CASE UpdateProgress
    <2>1. /\ status' = status \/ (exact /\ status' = "FINISHED")
          /\ UNCHANGED <<files, left, file, gen, evt, call, rcv, remaining, faulty>>
      BY <1>8, Zenon DEF UpdateProgress, settled, sender, receiver
    <2>2. (Unique /\ rcv = "ended" /\ ~faulty) =>
              status = IF left THEN "FAILED" ELSE "FINISHED"
      BY <1>1, Zenon DEF Undisturbed, UndisturbedFinishes
    <2>3. Fresh /\ rcv \in {"closing", "counting"} /\ ~faulty => remaining = 0
      BY <1>1, Zenon DEF Undisturbed
    <2>4. left \in BOOLEAN /\ (exact => left # TRUE)
      <3>1. left \in BOOLEAN
        BY DEF Inv, Barring
      <3>2. exact => \A n \in DOMAIN files : files[n].type = "file"
        BY Zenon DEF Inv, Barring
      <3>3. left = TRUE => \E n \in DOMAIN files : files[n].type = "folder"
        BY DEF Inv, Barring
      <3>4. (\A n \in DOMAIN files : files[n].type = "file") => left # TRUE
        BY <3>3
      <3> QED
        BY <3>1, <3>2, <3>4, Zenon
    <2>5. exact => ~left
      BY <2>4, Zenon
    <2> QED
      BY <1>1, <2>1, <2>2, <2>3, <2>5, ReceivedAfter, Zenon
  <1> QED
    BY <1>2, <1>3, <1>4, <1>5, <1>6, <1>7, <1>8, <1>9, <1>10 DEF Receiver

-----------------------------------------------------------------------------
LEMMA InvInit == Init => Inv
  <1> SUFFICES ASSUME Init PROVE Inv
    OBVIOUS
  <1>1. /\ files \in Trees /\ file = 1 /\ block = 0 /\ pipe = <<>> /\ current = NoEntry
        /\ rcv = "cleaning" /\ remaining = Len(files) /\ gen = "running" /\ perms = <<>>
        /\ call = "up" /\ evt = FALSE
    BY DEF Init
  <1>2. files \in Seq(Entry) /\ files # <<>>
    BY <1>1, TreesAssumption
  <1>3. DOMAIN files = 1 .. Len(files) /\ Len(files) \in Nat /\ Len(files) > 0
    BY <1>2
  <1>4. disk \in Disk
    <2>1. PICK old \in SUBSET DOMAIN files, modes \in BOOLEAN : disk = Before(old, modes)
      BY Zenon DEF Init
    <2>2. \A i \in DOMAIN files : Old(i, modes) \in Place
      <3> SUFFICES ASSUME NEW i \in DOMAIN files PROVE Old(i, modes) \in Place
        OBVIOUS
      <3>1. files[i].type \in {"folder", "link", "file"}
        <4>1. files[i] \in Entry
          BY <1>2
        <4> QED
          BY <4>1 DEF Entry
      <3>2. << <<NoEntry, 1>> >> \in Seq(Nat \X Nat)
        <4>1. <<NoEntry, 1>> \in Nat \X Nat
          BY DEF NoEntry
        <4> QED
          BY <4>1
      <3>3. <<>> \in Seq(Nat \X Nat)
        OBVIOUS
      <3>4. Old(i, modes).data \in Seq(Nat \X Nat)
        BY <3>2, <3>3 DEF Old
      <3>5. Old(i, modes).locked \in BOOLEAN
        BY Zenon DEF Old
      <3> QED
        BY <3>1, <3>4, <3>5 DEF Old, Place
    <2>3. \A p : (\E i \in old : files[i].path = p) =>
                    (CHOOSE i \in old : files[i].path = p) \in old
      OBVIOUS
    <2> QED
      BY <2>1, <2>2, <2>3, PlaceFacts DEF Before, Disk
  <1>5. Types
    BY <1>1, <1>3, <1>4 DEF Types
  <1>6. 1 \in DOMAIN files /\ Chunks(1) \in Nat /\ Chunks(1) > 0
    BY <1>3, <1>5, ChunkFacts
  <1>7. Len(<<>>) = 0
    OBVIOUS
  <1>8. InOrder
    BY <1>1, <1>3, <1>6, <1>7 DEF InOrder
  <1>9. Written
    BY <1>1, <1>3 DEF Written, NextEntry, NextNumber, Left
  <1>10. /\ rcv # "ended" /\ rcv \notin {"closing", "counting"} /\ rcv # "receiving"
         /\ gen # "done" /\ gen # "gave_up"
    BY <1>1
  <1>12. Barring
    <2>1. left = FALSE /\ (exact => \A i \in DOMAIN files : files[i].type = "file")
      BY Zenon DEF Init
    <2>2. left \in BOOLEAN /\ left # TRUE
      BY <2>1
    <2> QED
      BY <1>10, <2>1, <2>2, Zenon DEF Barring
  <1>11. Undisturbed /\ FailureLeavesNoParts
    BY <1>1, <1>10, Zenon DEF Undisturbed, UndisturbedFinishes, FailureLeavesNoParts
  <1> QED
    BY <1>5, <1>8, <1>9, <1>11, <1>12 DEF Inv

LEMMA InvStep ==
    ASSUME Inv, [Next]_vars
    PROVE  Inv'
  <1>1. /\ Types /\ InOrder /\ Written /\ Undisturbed /\ FailureLeavesNoParts
        /\ current \in {NoEntry} \cup DOMAIN files /\ perms \in Seq(DOMAIN files)
    BY DEF Inv, Types
  <1>2. CASE SendChunk
    <2>1. /\ UNCHANGED <<files, exact, left, disk, rcv, status, current, gen>>
      BY <1>2 DEF SendChunk, settled, receiver
    <2>2. FailureLeavesNoParts'
      BY <1>1, <2>1, PartsAside
    <2>3. Undisturbed'
      BY <1>1, <1>2, UndisturbedSender DEF Generator
    <2>4. Taken' = Taken
      BY <1>2, SendOrder DEF Taken, Inv
    <2>5. Barring'
      BY <2>1, <2>4, BarringAside
    <2> QED
      BY <1>2, <2>2, <2>3, <2>5, SendChunkKeeps DEF Inv
  <1>3. CASE \/ AllSent \/ SendStopped \/ GeneratorDropped \/ ReadError \/ CompressionFails
             \/ StopSender \/ CancelCall \/ LoseCall
    <2>1. /\ UNCHANGED <<files, exact, left, file, block, pipe, receiver>>
          /\ rcv # "ended" \/ status' = status
      BY <1>3, Zenon DEF AllSent, SendStopped, GeneratorDropped, EndGenerator, ReadError,
         CompressionFails, StopSender, CancelCall, LoseCall, settled, sender
    <2>2. Types' /\ InOrder' /\ Written'
      BY <1>1, <2>1, Aside
    <2>3. UNCHANGED <<disk, rcv, current>> /\ Taken' = Taken
      BY <2>1 DEF receiver, Taken, NextEntry, NextNumber
    <2>4. FailureLeavesNoParts'
      BY <1>1, <2>1, <2>3, PartsAside
    <2>5. Undisturbed'
      BY <1>1, <1>3, UndisturbedSender DEF Generator
    <2>6. gen = "gave_up" => gen' = "gave_up"
      BY <1>3 DEF AllSent, SendStopped, GeneratorDropped, EndGenerator, ReadError,
         CompressionFails, StopSender, CancelCall, LoseCall, sender
    <2>7. Barring'
      BY <2>1, <2>3, <2>6, BarringAside
    <2> QED
      BY <2>2, <2>4, <2>5, <2>7 DEF Inv
  <1>4. CASE CleanExistingFiles
    <2>1. rcv' = "receiving"
      BY <1>4 DEF CleanExistingFiles
    <2>2. FailureLeavesNoParts'
      BY <2>1 DEF FailureLeavesNoParts
    <2>3. Undisturbed'
      BY <1>4, UndisturbedReceiver DEF Receiver
    <2> QED
      BY <1>4, <2>2, <2>3, CleanExistingFilesKeeps, BarringCleans DEF Inv
  <1>5. CASE ReceiveData
    <2>1. Types' /\ InOrder' /\ Written' /\ (Fresh => rcv' = "receiving")
      BY <1>5, ReceiveDataKeeps
    <2>2. files' = files /\ left' = left
      BY <1>5 DEF ReceiveData, settled
    <2>3. FailureLeavesNoParts'
      BY <2>1, <2>2 DEF FailureLeavesNoParts, Unique, Fresh
    <2>4. Undisturbed'
      BY <1>5, UndisturbedReceiver DEF Receiver
    <2> QED
      BY <1>5, <2>1, <2>3, <2>4, BarringReceives DEF Inv
  <1>6. CASE \/ ReceiveFinished \/ ApplyFolderPermissions \/ PermissionsApplied
             \/ TransferFinished
    <2>1. Undisturbed'
      BY <1>6, UndisturbedReceiver DEF Receiver
    <2>2. ASSUME ReceiveFinished
          PROVE  Barring'
      BY <2>2, BarringFinishes
    <2>3. ASSUME ApplyFolderPermissions \/ PermissionsApplied \/ TransferFinished
          PROVE  Barring'
      <3>1. /\ UNCHANGED <<files, exact, left, gen>>
            /\ rcv \in {"closing", "counting"} /\ rcv' \in {"closing", "counting", "ended"}
        BY <2>3 DEF ApplyFolderPermissions, PermissionsApplied, TransferFinished, settled,
           sender
      <3>2. rcv # "ended"
        BY <3>1
      <3> QED
        BY <3>1, <3>2, BarringAside
    <2>4. Types' /\ InOrder' /\ Written' /\ FailureLeavesNoParts'
      BY <1>6, EndingKeeps
    <2>5. Barring'
      BY <1>6, <2>2, <2>3
    <2> QED
      BY <2>1, <2>4, <2>5 DEF Inv
  <1>7. CASE ReceiveFailed
    <2>1. /\ rcv' = "ended"
          /\ UNCHANGED <<files, exact, left, gen, file, block, pipe, current, perms>>
      BY <1>7 DEF ReceiveFailed, settled, sender
    <2>2. Types' /\ InOrder' /\ Written'
      BY <1>1, <2>1, EndKeeps
    <2>3. Undisturbed'
      BY <1>7, UndisturbedReceiver DEF Receiver
    <2> QED
      BY <1>7, <2>1, <2>2, <2>3, ReceiveFailedParts, BarringAside DEF Inv
  <1>8. CASE WriteError
    <2>1. /\ Receives /\ pipe' = Tail(pipe)
          /\ UNCHANGED <<files, exact, left, gen, file, block>>
          /\ rcv' = "ended"
          /\ current' = IF Same(Head(pipe).entry) THEN current ELSE Head(pipe).entry
          /\ perms' = IF Same(Head(pipe).entry) THEN perms ELSE ClosedPerms
      BY <1>8 DEF WriteError, ReportReceiveError, settled, sender
    <2>2. pipe # <<>> /\ NextEntry = Head(pipe).entry /\ NextEntry \in DOMAIN files
      BY <1>1, <2>1, TakenFacts
    <2>3. current' \in DOMAIN files /\ perms' \in Seq(DOMAIN files)
      BY <1>1, <2>1, <2>2, CurrentAfter, ClosedFacts
    <2>4. Types' /\ InOrder' /\ Written'
      BY <1>1, <2>1, <2>2, <2>3, EndKeeps
    <2>5. Undisturbed'
      BY <1>8, UndisturbedReceiver
    <2> QED
      BY <1>8, <2>1, <2>4, <2>5, WriteErrorParts, BarringAside DEF Inv
  <1>9. CASE DecompressionFails
    <2>1. /\ pipe # <<>> /\ pipe' = Tail(pipe)
          /\ UNCHANGED <<files, exact, left, gen, file, block, current, perms>>
          /\ rcv' = "ended"
      BY <1>9 DEF DecompressionFails, ReportReceiveError, Receives, settled, sender
    <2>2. Types' /\ InOrder' /\ Written'
      BY <1>1, <2>1, EndKeeps
    <2>3. Undisturbed'
      BY <1>9, UndisturbedReceiver
    <2> QED
      BY <1>9, <2>1, <2>2, <2>3, DecompressionFailsParts, BarringAside DEF Inv
  <1>10. CASE UpdateProgress
    <2>1. /\ UNCHANGED <<files, exact, left, gen, file, block, pipe, receiver>>
          /\ status' = status \/ status' = "FINISHED"
      BY <1>10 DEF UpdateProgress, settled, sender
    <2>2. Types' /\ InOrder' /\ Written'
      BY <1>1, <2>1, Aside
    <2>3. UNCHANGED <<disk, rcv, current>> /\ Taken' = Taken
      BY <2>1 DEF receiver, Taken, NextEntry, NextNumber
    <2>4. FailureLeavesNoParts'
      BY <1>1, <2>1, <2>3, PartsAside
    <2>5. Undisturbed'
      BY <1>10, UndisturbedReceiver
    <2> QED
      BY <2>1, <2>2, <2>3, <2>4, <2>5, BarringAside DEF Inv
  <1>11. CASE UNCHANGED vars
    <2>1. /\ UNCHANGED <<files, exact, left, file, block, pipe, receiver>>
          /\ UNCHANGED <<gen, evt, call, status, faulty>>
      BY <1>11 DEF vars, settled, sender
    <2>2. Types' /\ InOrder' /\ Written'
      BY <1>1, <2>1, Aside
    <2>3. UNCHANGED <<disk, rcv, remaining, current>> /\ Taken' = Taken
      BY <2>1 DEF receiver, Taken, NextEntry, NextNumber
    <2>4. FailureLeavesNoParts'
      BY <1>1, <2>1, <2>3, PartsAside
    <2>5. /\ (Fresh /\ rcv \in {"closing", "counting"} /\ ~faulty) => remaining = 0
          /\ (Unique /\ rcv = "ended" /\ ~faulty) =>
                 status = IF left THEN "FAILED" ELSE "FINISHED"
      BY <1>1, Zenon DEF Undisturbed, UndisturbedFinishes
    <2>6. Undisturbed'
      BY <1>1, <2>1, <2>3, <2>5, ReceivedAfter, Zenon
    <2> QED
      BY <2>1, <2>2, <2>3, <2>4, <2>6, BarringAside DEF Inv
  <1> QED
    BY <1>2, <1>3, <1>4, <1>5, <1>6, <1>7, <1>8, <1>9, <1>10, <1>11
    DEF Next, Generator, Receiver

LEMMA InvAlways == Spec => []Inv
  <1>1. Inv /\ [Next]_vars => Inv'
    BY InvStep
  <1> QED
    BY InvInit, <1>1, PTL DEF Spec

\* A stream that is refused, cancelled or lost leaves no part of a file or folder behind:
\* a toplevel is there with all that is in it, or not at all, if all that an earlier
\* transfer had left could be removed when it began. (report_receive_error,
\* clean_current_top_dir_file, clean_existing_files, rm_any)
THEOREM NoPartsLeft == Spec => []FailureLeavesNoParts
  <1>1. Inv => FailureLeavesNoParts
    BY DEF Inv
  <1> QED
    BY InvAlways, <1>1, PTL

\* A stream of entries with different paths that no fault disturbs is finished, whatever
\* could be removed of an earlier transfer: the mode of a folder that may not be written
\* to is restored only when all that is in it is there, and every entry is counted once.
\* If rm_any had to leave anything in its place the stream fails, always: that lies in a
\* folder that lets nothing come into it, and an entry of it is still to come.
\* (FileReceiver.clean_existing_files, rm_any, receive_data, close_current_file,
\* receive_finished)
THEOREM UndisturbedStream == Spec => []UndisturbedFinishes
  <1>1. Inv => UndisturbedFinishes
    BY Zenon DEF Inv, Undisturbed
  <1> QED
    BY InvAlways, <1>1, PTL

-----------------------------------------------------------------------------
(***************************************************************************)
(* What FINISHED says is a copy, also when paths are alike.                *)
(*                                                                         *)
(* The count tells whether the receiver took two entries for one: it is    *)
(* never below the number of the entries that are left, and above it from  *)
(* the first time it happens (Counted).  As long as it has not happened    *)
(* (OneByOne) the disk holds the entries before the one that is current,   *)
(* except for what links have replaced, with the modes of the files, and   *)
(* the list has the folders in their order (Copied).  In the end the modes *)
(* of the folders are set from the last one to the first, so that a folder *)
(* in the list is open while what is in it gets its mode (FolderModes).    *)
(***************************************************************************)

OneByOne == remaining = Left(Taken)

Counted ==
    /\ remaining \in Nat /\ remaining >= Left(Taken)
    /\ current <= Taken
    /\ Taken # NoEntry => current # NoEntry /\ files[current].path = files[Taken].path

ReplacedBy(j, n) ==
    \E m \in DOMAIN files :
        j < m /\ m <= n /\ files[m].path = files[j].path /\ files[m].type = "link"

\* The first n entries are there.
Laid(d, n, j) ==
    /\ CopyOn(d, j) \/ ReplacedBy(j, n)
    /\ d[files[j].path].kind # "absent"
    /\ files[j].type = "folder" => d[files[j].path].kind = "folder"

LaidDown(d, n) == \A j \in DOMAIN files : j <= n => Laid(d, n, j)

\* Only files have data or a mode.
PlainNodes(d) ==
    \A j \in DOMAIN files :
        /\ d[files[j].path].kind \in {"absent", "folder"} => d[files[j].path].data = <<>>
        /\ d[files[j].path].kind # "file" => d[files[j].path].locked = FALSE

\* The files before entry n have their modes.
FileModes(d, n) ==
    \A j \in DOMAIN files :
        PreservePerms /\ j < n /\ files[j].type = "file" /\ Alone(j) =>
            d[files[j].path].locked = files[j].locked

NewPath(i) == \A j \in DOMAIN files : j < i => files[j].path # files[i].path

\* n chunks of entry i are there, and what comes before it.
Partly(d, i, n) ==
    /\ LaidDown(d, i - 1)
    /\ NewPath(i)
    /\ files[i].type = "file"
    /\ d[files[i].path].kind = "file"
    /\ d[files[i].path].data = Start(i, n)

InList(list, j) == \E a \in 1 .. Len(list) : list[a] = j

Ordered(list) ==
    /\ \A a, b \in 1 .. Len(list) : a < b => list[a] < list[b]
    /\ \A a \in 1 .. Len(list) : files[list[a]].type = "folder"

\* The list has the folders before entry n.
Listed(list, n) ==
    /\ Ordered(list)
    /\ \A j \in DOMAIN files : InList(list, j) => j < n
    /\ \A j \in DOMAIN files : j < n /\ files[j].type = "folder" => InList(list, j)

Copied ==
    /\ current = Taken
    /\ IF NextNumber = 1 THEN LaidDown(disk, Taken)
                         ELSE Partly(disk, Taken, NextNumber - 1)
    /\ PlainNodes(disk)
    /\ FileModes(disk, Taken)
    /\ PreservePerms => Listed(perms, Taken)

\* The modes of the folders are still to be set, or set.
FolderModes(d, list) ==
    /\ Ordered(list)
    /\ \A i, j \in DOMAIN files :
          InList(list, i) /\ j < i /\ files[j].type = "folder" => InList(list, j)
    /\ \A j \in DOMAIN files : files[j].type = "folder" /\ Alone(j) =>
          IF InList(list, j) THEN d[files[j].path].locked = FALSE
          ELSE AllAlone(j) => d[files[j].path].locked = files[j].locked

AllThere(d) == \A j \in DOMAIN files : CopyOn(d, j) \/ Replaced(j)

Closing ==
    /\ AllThere(disk)
    /\ FileModes(disk, Len(files) + 1)
    /\ PreservePerms => FolderModes(disk, perms)

Receiving ==
    /\ rcv = "cleaning" => perms = <<>>
    /\ rcv \in {"cleaning", "receiving"} => Counted
    /\ rcv = "receiving" /\ left = FALSE /\ OneByOne => Copied
    /\ rcv \in {"closing", "counting"} => remaining \in Nat
    /\ rcv \in {"closing", "counting"} /\ remaining = 0 /\ gen # "gave_up" => Closing
    /\ rcv = "counting" => perms = <<>>

\* Who has said FINISHED, and how the generator has ended
Telling ==
    /\ rcv \in {"closing", "counting"} => gen # "running"
    /\ rcv \notin {"counting", "ended"} /\ status = "FINISHED" => early

CopyInv == Receiving /\ Telling /\ FinishedIsCopy

\* A node that a chunk opens is absent, is a folder already, or gives way to a link.
LEMMA NodePlaced ==
    ASSUME Types, NEW d \in Disk, PlainNodes(d),
           NEW i \in DOMAIN files, NEW k \in 1 .. Chunks(i), CanPlace(d, i, k # 1),
           k # 1 => /\ files[i].type = "file"
                    /\ d[files[i].path].data = Start(i, k - 1)
    PROVE  /\ Placed(d, i, k)[files[i].path].kind = files[i].type
           /\ Placed(d, i, k)[files[i].path].locked = FALSE
           /\ Placed(d, i, k)[files[i].path].data
                = Start(i, IF k <= Full(i) THEN k ELSE k - 1)
  <1> DEFINE p == files[i].path
             e == Placed(d, i, k)
  <1>1. p \in Path /\ i \in Nat /\ files[i].type \in {"folder", "link", "file"}
    BY EntryFacts DEF Entry
  <1>2. d[p] \in Place
    BY <1>1 DEF Disk
  <1>3. k \in Nat /\ k > 0
    BY ChunkFacts
  <1>4. CASE (k = 1 /\ d[p].kind = "absent") \/ k # 1
    <2>1. k = 1 => d[p] = Absent
      <3>1. d[p].kind = "absent" => d[p].data = <<>> /\ d[p].locked = FALSE
        BY DEF PlainNodes
      <3> QED
        BY <1>2, <1>4, <3>1 DEF Place, Absent
    <2>2. /\ e[p].kind = files[i].type
          /\ ~e[p].locked
          /\ e[p].data = Start(i, IF k <= Full(i) THEN k ELSE k - 1)
      BY <2>1, ChunkPlaced
    <2>3. e[p].locked \in BOOLEAN
      <3>1. e \in Disk
        BY <1>3, PlacedFacts
      <3> QED
        BY <1>1, <3>1 DEF Disk, Place
    <2> HIDE DEF e
    <2>4. e[p].locked = FALSE
      BY <2>2, <2>3, Zenon
    <2> QED
      BY <2>2, <2>4 DEF e
  <1>5. CASE k = 1 /\ d[p].kind # "absent"
    <2>1. files[i].type # "file" /\ Full(i) = 0
      <3>1. files[i].type # "file"
        BY <1>5 DEF CanPlace
      <3> QED
        BY <3>1, ChunkFacts
    <2>2. Start(i, IF k <= Full(i) THEN k ELSE k - 1) = <<>>
      <3>1. (IF k <= Full(i) THEN k ELSE k - 1) = 0
        BY <1>5, <2>1
      <3> QED
        BY <1>1, <3>1, StartFacts
    <2>3. CASE files[i].type = "folder"
      <3>1. d[p].kind = "folder"
        BY <1>5, <2>3 DEF CanPlace
      <3>2. e = d
        BY <2>3, <3>1 DEF Placed
      <3>3. d[p].data = <<>> /\ d[p].locked = FALSE
        BY <3>1 DEF PlainNodes
      <3> HIDE DEF e
      <3> QED
        BY <2>2, <2>3, <3>1, <3>2, <3>3 DEF e
    <2>4. CASE files[i].type = "link"
      <3>1. e = [d EXCEPT ![p] = Node(i, <<>>)]
        BY <2>4 DEF Placed
      <3> HIDE DEF e
      <3>2. e[p] = Node(i, <<>>)
        BY <1>1, <3>1 DEF Disk
      <3> QED
        BY <2>2, <3>2 DEF Node, e
    <2> QED
      BY <1>1, <2>1, <2>3, <2>4
  <1> QED
    BY <1>4, <1>5

\* A chunk that is placed leaves what was there, or goes on with it.
LEMMA ChunkLaid ==
    ASSUME Types, NEW d \in Disk, PlainNodes(d),
           NEW i \in DOMAIN files, NEW k \in 1 .. Chunks(i), CanPlace(d, i, k # 1),
           IF k = 1 THEN LaidDown(d, i - 1) ELSE Partly(d, i, k - 1),
           FileModes(d, i)
    PROVE  LET e == Placed(d, i, k)
           IN  /\ IF k = Chunks(i) THEN LaidDown(e, i) ELSE Partly(e, i, k)
               /\ PlainNodes(e)
               /\ FileModes(e, i)
  <1> DEFINE p == files[i].path
             e == Placed(d, i, k)
  <1>1. DOMAIN files = 1 .. Len(files) /\ Len(files) \in Nat
    BY EntryFacts
  <1>2. Chunks(i) \in Nat /\ k \in Nat /\ k > 0 /\ i \in Nat /\ p \in Path
    BY <1>1, ChunkFacts, EntryFacts
  <1>3. \A q \in Path : q # p => e[q] = d[q]
    BY <1>2, PlacedFacts
  <1>4. /\ e[p].kind = files[i].type
        /\ e[p].locked = FALSE
        /\ e[p].data = Start(i, IF k <= Full(i) THEN k ELSE k - 1)
    BY NodePlaced DEF Partly
  <1>5. files[i].type # "file" => Chunks(i) = 1 /\ Full(i) = 0 /\ k = 1
    BY <1>2, ChunkFacts
  <1>6. d[p].kind = "folder" /\ files[i].type = "folder" => e = d
    BY DEF Placed
  <1>7. /\ files[i].type = "folder" => d[p].kind \in {"absent", "folder"}
        /\ files[i].type = "link" => d[p].kind # "folder"
        /\ files[i].type = "file" /\ k = 1 => d[p].kind = "absent"
    BY DEF CanPlace
  <1>8. \A j \in DOMAIN files : files[j].path \in Path
    BY EntryFacts
  <1>9. LaidDown(d, i - 1)
    BY DEF Partly
  <1> HIDE DEF e
  <1>10. ASSUME NEW j \in DOMAIN files, files[j].path # p
         PROVE  e[files[j].path] = d[files[j].path]
    BY <1>3, <1>8, <1>10
  <1>11. ASSUME NEW j \in DOMAIN files, j < i
         PROVE  Laid(d, i - 1, j)
    BY <1>1, <1>2, <1>9, <1>11 DEF LaidDown
  <1>12. ASSUME NEW j \in DOMAIN files, j < i, files[j].path # p
         PROVE  Laid(e, i - 1, j) /\ Laid(e, i, j)
    <2>1. Laid(e, i - 1, j)
      BY <1>10, <1>11, <1>12 DEF Laid, CopyOn
    <2>2. ReplacedBy(j, i - 1) => ReplacedBy(j, i)
      BY <1>1, <1>2 DEF ReplacedBy
    <2> QED
      BY <2>1, <2>2 DEF Laid
  <1>13. NewPath(i) => LaidDown(e, i - 1)
    BY <1>1, <1>2, <1>12 DEF NewPath, LaidDown
  <1>14. files[i].type = "file" => NewPath(i)
    <2>1. CASE k # 1
      BY <2>1 DEF Partly
    <2>2. CASE k = 1
      <3>1. \A j \in DOMAIN files : j < i => d[files[j].path].kind # "absent"
        BY <1>11 DEF Laid
      <3> QED
        BY <1>7, <2>2, <3>1 DEF NewPath
    <2> QED
      BY <2>1, <2>2
  <1>15. k # Chunks(i) => Partly(e, i, k)
    <2>1. k # Chunks(i) => files[i].type = "file" /\ k <= Full(i)
      BY <1>2, ChunkFacts
    <2> QED
      BY <1>4, <1>13, <1>14, <2>1 DEF Partly
  <1>16. ASSUME k = Chunks(i)
         PROVE  LaidDown(e, i)
    <2>1. CopyOn(e, i)
      <3>1. (IF k <= Full(i) THEN k ELSE k - 1) = Full(i)
        BY <1>2, <1>16, ChunkFacts
      <3>2. e[p].data = Start(i, Full(i))
        BY <1>4, <3>1
      <3> QED
        BY <1>4, <3>2 DEF CopyOn, Content, Start
    <2>2. files[i].type \in {"folder", "link", "file"}
      BY EntryFacts DEF Entry
    <2>3. Laid(e, i, i)
      BY <1>4, <2>1, <2>2 DEF Laid
    <2>4. ASSUME NEW j \in DOMAIN files, j < i, files[j].path = p
          PROVE  Laid(e, i, j)
      <3>1. d[p].kind # "absent"
        BY <1>11, <2>4 DEF Laid
      <3>2. files[i].type # "file"
        BY <1>14, <2>4 DEF NewPath
      <3>3. CASE files[i].type = "folder"
        <4>1. e = d
          BY <1>6, <1>7, <3>1, <3>3
        <4>2. ReplacedBy(j, i - 1) => ReplacedBy(j, i)
          BY <1>1, <1>2 DEF ReplacedBy
        <4> QED
          BY <1>11, <2>4, <4>1, <4>2 DEF Laid
      <3>4. CASE files[i].type = "link"
        <4>1. files[j].type # "folder"
          BY <1>7, <1>11, <2>4, <3>4 DEF Laid
        <4>2. ReplacedBy(j, i)
          BY <1>2, <2>4, <3>4 DEF ReplacedBy
        <4> QED
          BY <1>4, <2>4, <3>4, <4>1, <4>2 DEF Laid
      <3> QED
        BY <2>2, <3>2, <3>3, <3>4
    <2>5. ASSUME NEW j \in DOMAIN files, j <= i
          PROVE  Laid(e, i, j)
      <3>1. j = i \/ j < i
        BY <1>1, <1>2, <2>5
      <3> QED
        BY <1>12, <2>3, <2>4, <3>1
    <2> QED
      BY <2>5 DEF LaidDown
  <1>17. PlainNodes(e)
    <2> SUFFICES ASSUME NEW j \in DOMAIN files
                 PROVE  /\ e[files[j].path].kind \in {"absent", "folder"} =>
                              e[files[j].path].data = <<>>
                        /\ e[files[j].path].kind # "file" =>
                              e[files[j].path].locked = FALSE
      BY DEF PlainNodes
    <2>1. CASE files[j].path # p
      BY <1>10, <2>1 DEF PlainNodes
    <2>2. CASE files[j].path = p
      <3>1. files[i].type \in {"absent", "folder"} => e[p].data = <<>>
        <4>1. files[i].type \in {"absent", "folder"} =>
                 (IF k <= Full(i) THEN k ELSE k - 1) = 0
          BY <1>5
        <4> QED
          BY <1>2, <1>4, <4>1, StartFacts
      <3> QED
        BY <1>4, <2>2, <3>1
    <2> QED
      BY <2>1, <2>2
  <1>18. FileModes(e, i)
    <2> SUFFICES ASSUME NEW j \in DOMAIN files, PreservePerms, j < i,
                        files[j].type = "file", Alone(j)
                 PROVE  e[files[j].path].locked = files[j].locked
      BY DEF FileModes
    <2>1. files[j].path # p
      BY <1>1, <1>2 DEF Alone
    <2> QED
      BY <1>10, <2>1 DEF FileModes
  <1> QED
    BY <1>15, <1>16, <1>17, <1>18 DEF e

\* The entry that is closed gets its mode if it is a file.
LEMMA CloseLaid ==
    ASSUME Types, disk \in Disk, NEW n, current = n, n \in 0 .. Len(files),
           LaidDown(disk, n), PlainNodes(disk), FileModes(disk, n)
    PROVE  /\ LaidDown(ClosedDisk, n)
           /\ PlainNodes(ClosedDisk)
           /\ FileModes(ClosedDisk, n + 1)
  <1>1. DOMAIN files = 1 .. Len(files) /\ Len(files) \in Nat
    BY EntryFacts
  <1>2. \A j \in DOMAIN files : files[j].path \in Path
    BY EntryFacts
  <1>3. CASE ~(PreservePerms /\ IsCurrent("file"))
    <2>1. ClosedDisk = disk
      BY <1>3 DEF ClosedDisk
    <2>2. FileModes(disk, n + 1)
      <3> SUFFICES ASSUME NEW j \in DOMAIN files, PreservePerms, j < n + 1,
                          files[j].type = "file", Alone(j)
                   PROVE  disk[files[j].path].locked = files[j].locked
        BY DEF FileModes
      <3>1. j # n
        BY <1>1, <1>3 DEF IsCurrent, NoEntry
      <3>2. j < n
        BY <1>1, <3>1
      <3> QED
        BY <3>2 DEF FileModes
    <2> QED
      BY <2>1, <2>2
  <1>4. CASE PreservePerms /\ IsCurrent("file")
    <2> DEFINE p == files[n].path
               e == ClosedDisk
    <2>1. n \in DOMAIN files /\ files[n].type = "file" /\ n \in Nat /\ p \in Path
      BY <1>1, <1>2, <1>4 DEF IsCurrent, NoEntry
    <2>2. e = Chmod(disk, n)
      BY <1>4 DEF ClosedDisk
    <2>3. /\ e \in Disk
          /\ \A q \in Path : /\ e[q].kind = disk[q].kind
                             /\ e[q].data = disk[q].data
                             /\ q # p => e[q] = disk[q]
      BY <2>1, <2>2, ChmodFacts
    <2>4. disk[p].kind = "file"
      <3>1. Laid(disk, n, n)
        BY <2>1 DEF LaidDown
      <3>2. ~ReplacedBy(n, n)
        BY <1>1, <2>1 DEF ReplacedBy
      <3> QED
        BY <2>1, <3>1, <3>2 DEF Laid, CopyOn
    <2>5. e[p].locked = files[n].locked
      <3>1. ASSUME NEW q \in files[n].above
            PROVE  ~disk[q].locked
        <4>1. PICK j \in DOMAIN files : j < n /\ files[j].path = q /\ files[j].type = "folder"
          BY <2>1, EntryFacts
        <4>2. Laid(disk, n, j)
          BY <1>1, <2>1, <4>1 DEF LaidDown
        <4>3. disk[q].kind = "folder"
          BY <4>1, <4>2 DEF Laid
        <4>4. disk[q].locked = FALSE
          BY <4>1, <4>3 DEF PlainNodes
        <4> QED
          BY <4>4, Zenon
      <3>2. e = [disk EXCEPT ![p].locked = files[n].locked]
        BY <2>2, <3>1, Zenon DEF Chmod
      <3> HIDE DEF e
      <3>3. disk[p] \in Place /\ files[n].locked \in BOOLEAN
        BY <2>1, EntryFacts DEF Disk, Entry
      <3>4. e[p] = [disk[p] EXCEPT !.locked = files[n].locked]
        BY <2>1, <3>2 DEF Disk
      <3> QED
        BY <3>3, <3>4, PlaceFacts
    <2> HIDE DEF e
    <2>6. LaidDown(e, n)
      BY <1>2, <2>3 DEF LaidDown, Laid, CopyOn
    <2>7. PlainNodes(e)
      <3> SUFFICES ASSUME NEW j \in DOMAIN files
                   PROVE  /\ e[files[j].path].kind \in {"absent", "folder"} =>
                                e[files[j].path].data = <<>>
                          /\ e[files[j].path].kind # "file" =>
                                e[files[j].path].locked = FALSE
        BY DEF PlainNodes
      <3>1. CASE files[j].path = p
        BY <2>1, <2>3, <2>4, <3>1
      <3>2. CASE files[j].path # p
        BY <1>2, <2>3, <3>2 DEF PlainNodes
      <3> QED
        BY <3>1, <3>2
    <2>8. FileModes(e, n + 1)
      <3> SUFFICES ASSUME NEW j \in DOMAIN files, PreservePerms, j < n + 1,
                          files[j].type = "file", Alone(j)
                   PROVE  e[files[j].path].locked = files[j].locked
        BY DEF FileModes
      <3>1. CASE j = n
        BY <2>5, <3>1
      <3>2. CASE j # n
        <4>1. files[j].path # p /\ j < n
          BY <1>1, <2>1, <3>2 DEF Alone
        <4> QED
          BY <1>2, <2>3, <4>1 DEF FileModes
      <3> QED
        BY <3>1, <3>2
    <2> QED
      BY <2>6, <2>7, <2>8 DEF e
  <1> QED
    BY <1>3, <1>4

\* The folder that is closed comes last in the list.
LEMMA CloseListed ==
    ASSUME Types, PreservePerms, NEW n, current = n, n \in 0 .. Len(files), Listed(perms, n)
    PROVE  Listed(ClosedPerms, n + 1)
  <1>1. DOMAIN files = 1 .. Len(files) /\ Len(files) \in Nat /\ perms \in Seq(DOMAIN files)
    BY EntryFacts DEF Types
  <1>2. Len(perms) \in Nat /\ \A a \in 1 .. Len(perms) : perms[a] \in DOMAIN files
    BY <1>1
  <1>3. CASE ~IsCurrent("folder")
    <2>1. ClosedPerms = perms
      BY <1>3 DEF ClosedPerms
    <2>2. \A j \in DOMAIN files : j < n + 1 /\ files[j].type = "folder" => j < n
      BY <1>1, <1>3 DEF IsCurrent, NoEntry
    <2>3. \A j \in DOMAIN files : j < n => j < n + 1
      BY <1>1
    <2> QED
      BY <2>1, <2>2, <2>3 DEF Listed
  <1>4. CASE IsCurrent("folder")
    <2>1. n \in DOMAIN files /\ files[n].type = "folder" /\ n \in Nat
      BY <1>1, <1>4 DEF IsCurrent, NoEntry
    <2> DEFINE l == ClosedPerms
    <2>2. l = Append(perms, n)
      BY <1>4 DEF ClosedPerms
    <2>3. /\ Len(l) = Len(perms) + 1
          /\ \A a \in 1 .. Len(perms) : l[a] = perms[a]
          /\ l[Len(perms) + 1] = n
      BY <1>1, <2>1, <2>2
    <2> HIDE DEF l
    <2>4. \A j : InList(l, j) <=> InList(perms, j) \/ j = n
      <3>1. 1 .. Len(l) = (1 .. Len(perms)) \cup {Len(perms) + 1}
        BY <1>2, <2>3
      <3> QED
        BY <2>3, <3>1 DEF InList
    <2>5. \A a \in 1 .. Len(perms) : perms[a] < n
      BY <1>2 DEF Listed, InList
    <2>6. ASSUME NEW a \in 1 .. Len(l), NEW b \in 1 .. Len(l), a < b
          PROVE  l[a] < l[b]
      <3>1. a \in 1 .. Len(perms) /\ (b \in 1 .. Len(perms) \/ b = Len(perms) + 1)
        BY <1>2, <2>3, <2>6
      <3> QED
        BY <2>3, <2>5, <2>6, <3>1 DEF Listed, Ordered
    <2>7. ASSUME NEW a \in 1 .. Len(l)
          PROVE  files[l[a]].type = "folder"
      <3>1. a \in 1 .. Len(perms) \/ a = Len(perms) + 1
        BY <1>2, <2>3
      <3> QED
        BY <2>1, <2>3, <3>1 DEF Listed, Ordered
    <2>8. Ordered(l)
      BY <2>6, <2>7 DEF Ordered
    <2>9. \A j \in DOMAIN files : InList(l, j) => j < n + 1
      BY <1>1, <2>1, <2>4 DEF Listed
    <2>10. \A j \in DOMAIN files : j < n + 1 /\ files[j].type = "folder" => InList(l, j)
      <3>1. \A j \in DOMAIN files : j < n + 1 => j < n \/ j = n
        BY <1>1, <2>1
      <3> QED
        BY <2>4, <3>1 DEF Listed
    <2> QED
      BY <2>8, <2>9, <2>10 DEF Listed, l
  <1> QED
    BY <1>3, <1>4

\* A chunk that is not the first goes on with its entry. The count stays above what is
\* left; if it is equal, no first chunk was taken for one of the entry before.
LEMMA CountedAfter ==
    ASSUME Types, Counted, NEW i \in DOMAIN files, NEW k \in Nat, NEW n,
           Taken = IF k = 1 THEN i - 1 ELSE i,
           n = (IF Same(i) THEN remaining ELSE ClosedRemaining), n > 0
    PROVE  /\ k # 1 => Same(i)
           /\ (IF Same(i) THEN current ELSE i) \in DOMAIN files
           /\ (IF Same(i) THEN current ELSE i) <= i
           /\ files[IF Same(i) THEN current ELSE i].path = files[i].path
           /\ n \in Nat /\ n >= Left(i)
           /\ n = Left(i) => OneByOne /\ (k = 1 => ~Same(i))
  <1>1. DOMAIN files = 1 .. Len(files) /\ Len(files) \in Nat
    BY EntryFacts
  <1>2. current \in Nat /\ (current # NoEntry => current \in DOMAIN files)
    BY <1>1 DEF Types, NoEntry
  <1>3. i \in Nat /\ i > 0 /\ i # NoEntry /\ Left(i) = Len(files) - (i - 1)
    <2>1. i \in Nat /\ i > 0
      BY <1>1
    <2> QED
      BY <2>1 DEF NoEntry, Left
  <1>4. k # 1 => Same(i)
    BY <1>3 DEF Counted, Same
  <1>5. /\ (IF Same(i) THEN current ELSE i) \in DOMAIN files
        /\ (IF Same(i) THEN current ELSE i) <= i
        /\ files[IF Same(i) THEN current ELSE i].path = files[i].path
    BY <1>1, <1>2, <1>3 DEF Counted, Same
  <1>6. CASE k # 1
    <2>1. n = remaining /\ Taken = i
      BY <1>4, <1>6
    <2>2. n \in Nat /\ n >= Left(i) /\ (n = Left(i) => OneByOne)
      BY <2>1 DEF Counted, OneByOne
    <2> QED
      BY <1>4, <1>5, <1>6, <2>2
  <1>7. CASE k = 1 /\ Same(i)
    <2>1. i - 1 # NoEntry
      BY <1>2, <1>3, <1>7 DEF Counted, Same, NoEntry
    <2>2. Left(Taken) = Len(files) - ((i - 1) - 1)
      BY <1>7, <2>1 DEF Left
    <2> QED
      BY <1>1, <1>3, <1>5, <1>7, <2>2 DEF Counted
  <1>8. CASE k = 1 /\ ~Same(i)
    <2>1. Taken = i - 1 /\ n = ClosedRemaining
      BY <1>8
    <2>2. CASE current = NoEntry
      <3>1. Taken = NoEntry /\ n = remaining
        BY <1>1, <2>1, <2>2 DEF Counted, ClosedRemaining
      <3>2. i = 1 /\ Left(Taken) = Len(files)
        BY <1>1, <1>3, <2>1, <3>1 DEF NoEntry, Left
      <3>3. Left(i) = Left(Taken)
        BY <1>1, <1>3, <3>2
      <3>4. n \in Nat /\ n >= Left(i) /\ (n = Left(i) => OneByOne)
        BY <3>1, <3>3 DEF Counted, OneByOne
      <3> QED
        BY <1>5, <1>8, <3>4
    <2>3. CASE current # NoEntry
      <3>1. i - 1 # NoEntry /\ n = remaining - 1
        BY <1>1, <1>2, <1>3, <2>1, <2>3 DEF Counted, ClosedRemaining, NoEntry
      <3>2. Left(Taken) = Len(files) - ((i - 1) - 1)
        BY <2>1, <3>1 DEF Left
      <3>3. remaining \in Nat /\ remaining >= Left(Taken)
        BY DEF Counted
      <3>4. n \in Nat /\ n >= Left(i)
        BY <1>1, <1>3, <3>1, <3>2, <3>3
      <3>5. n = Left(i) => remaining = Left(Taken)
        BY <1>1, <1>3, <3>1, <3>2, <3>3
      <3> QED
        BY <1>5, <1>8, <3>4, <3>5 DEF OneByOne
    <2> QED
      BY <2>2, <2>3
  <1> QED
    BY <1>4, <1>5, <1>6, <1>7, <1>8

\* What is said of the disk is said of entries that stay.
LEMMA CopiedAfter ==
    ASSUME files' = files, current' = Taken',
           IF NextNumber' = 1 THEN LaidDown(disk', Taken')
                              ELSE Partly(disk', Taken', NextNumber' - 1),
           PlainNodes(disk'), FileModes(disk', Taken'),
           PreservePerms => Listed(perms', Taken')
    PROVE  Copied'
  <1>1. \A j : Content(j)' = Content(j)
    BY DEF Content, Full, Chunks
  <1>2. \A j, n : ReplacedBy(j, n)' <=> ReplacedBy(j, n)
    BY DEF ReplacedBy
  <1>3. \A n : LaidDown(disk, n)' <=>
            \A j \in DOMAIN files : j <= n => Laid(disk', n, j)
    BY <1>1, <1>2 DEF LaidDown, Laid, CopyOn
  <1> QED
    BY <1>3 DEF Copied, LaidDown, Partly, NewPath, Start, PlainNodes, FileModes, Alone,
       Listed, Ordered, InList

LEMMA ClosingAfter ==
    ASSUME files' = files, AllThere(disk'), FileModes(disk', Len(files) + 1),
           PreservePerms => FolderModes(disk', perms')
    PROVE  Closing'
  <1>1. \A j : Content(j)' = Content(j)
    BY DEF Content, Full, Chunks
  <1>2. \A j : Replaced(j)' <=> Replaced(j)
    BY DEF Replaced
  <1>3. AllThere(disk)' <=> AllThere(disk')
    BY <1>1, <1>2 DEF AllThere, CopyOn
  <1>4. FileModes(disk, Len(files) + 1)' <=> FileModes(disk', Len(files) + 1)
    BY DEF FileModes, Alone
  <1>5. FolderModes(disk, perms)' <=> FolderModes(disk', perms')
    BY DEF FolderModes, Ordered, InList, Alone, AllAlone
  <1> QED
    BY <1>3, <1>4, <1>5 DEF Closing

\* If the receiver goes on after a chunk, the count is above what is left, and if it is
\* equal, the disk holds what was taken.
LEMMA ReceiveDataCopies ==
    ASSUME Inv, Receiving, ReceiveData, rcv' # "ended"
    PROVE  Counted' /\ (left = FALSE /\ OneByOne' => Copied')
  <1> DEFINE i == NextEntry
             k == NextNumber
             n == IF Same(i) THEN remaining ELSE ClosedRemaining
             d == Ready(i)
  <1>1. /\ Receives
        /\ pipe' = Tail(pipe)
        /\ UNCHANGED <<files, file, block>>
    BY DEF ReceiveData, settled, sender
  <1>2. /\ rcv = "receiving" /\ pipe # <<>>
        /\ i = Head(pipe).entry /\ k = Head(pipe).number
        /\ i \in DOMAIN files /\ i \in Nat
        /\ k \in Nat /\ k \in 1 .. Chunks(i)
        /\ Follows(i, k, NextEntry', NextNumber')
        /\ d \in Disk
    BY <1>1, TakenFacts DEF Inv
  <1>3. Taken = IF k = 1 THEN i - 1 ELSE i
    BY DEF Taken
  <1> HIDE DEF i, k
  <1>4. /\ current' = IF Same(i) THEN current ELSE i
        /\ perms' = IF Same(i) THEN perms ELSE ClosedPerms
        /\ remaining' = n
        /\ n > 0 /\ CanPlace(d, i, Same(i) /\ IsCurrent("file"))
        /\ disk' = Placed(d, i, k)
    BY <1>2 DEF ReceiveData, ReportReceiveError, Ready
  <1> HIDE DEF d
  <1>5. Types /\ Counted /\ DOMAIN files = 1 .. Len(files) /\ Len(files) \in Nat
    BY <1>2, EntryFacts DEF Inv, Receiving
  <1>6. /\ k # 1 => Same(i)
        /\ current' \in DOMAIN files /\ current' <= i
        /\ files[current'].path = files[i].path
        /\ n \in Nat /\ n >= Left(i)
        /\ n = Left(i) => OneByOne /\ (k = 1 => ~Same(i))
    BY <1>2, <1>3, <1>4, <1>5, CountedAfter
  <1>7. /\ Taken' = i
        /\ NextNumber' = 1 <=> k = Chunks(i)
        /\ k # Chunks(i) => NextNumber' = k + 1
    BY <1>2, <1>5, TakenAfter
  <1>8. Left(Taken)' = Left(i)
    BY <1>1, <1>7 DEF Left
  <1>9. current' # NoEntry
    BY <1>5, <1>6 DEF NoEntry
  <1>10. Counted'
    BY <1>1, <1>4, <1>6, <1>7, <1>8, <1>9 DEF Counted
  <1>11. ASSUME left = FALSE, OneByOne'
         PROVE  Copied'
    <2>1. n = Left(i)
      BY <1>4, <1>8, <1>11 DEF OneByOne
    <2>2. OneByOne /\ (k = 1 <=> ~Same(i))
      BY <1>6, <2>1
    <2>3. Copied
      BY <1>2, <1>11, <2>2 DEF Receiving
    <2>4. current' = i
      BY <1>3, <1>4, <2>2, <2>3 DEF Copied
    <2>5. CanPlace(d, i, k # 1)
      <3>1. k # 1 => IsCurrent("file")
        BY <1>3, <1>5, <2>3, <1>2 DEF Copied, Partly, IsCurrent, NoEntry, k
      <3> QED
        BY <1>4, <2>2, <3>1 DEF CanPlace
    <2>6. disk \in Disk
      BY <1>2, <1>5 DEF Types
    <2>7. /\ PlainNodes(d) /\ FileModes(d, i)
          /\ IF k = 1 THEN LaidDown(d, i - 1) ELSE Partly(d, i, k - 1)
          /\ PreservePerms => Listed(perms', i)
      <3>1. CASE k = 1
        <4>1. d = ClosedDisk /\ perms' = ClosedPerms
          BY <1>4, <2>2, <3>1 DEF d, Ready
        <4>2. /\ current = i - 1 /\ i - 1 \in 0 .. Len(files) /\ (i - 1) + 1 = i
              /\ LaidDown(disk, i - 1) /\ PlainNodes(disk) /\ FileModes(disk, i - 1)
              /\ PreservePerms => Listed(perms, i - 1)
          BY <1>2, <1>3, <1>5, <2>3, <3>1 DEF Copied, k
        <4>3. /\ LaidDown(ClosedDisk, i - 1) /\ PlainNodes(ClosedDisk)
              /\ FileModes(ClosedDisk, (i - 1) + 1)
          BY <1>5, <2>6, <4>2, CloseLaid
        <4>4. PreservePerms => Listed(ClosedPerms, (i - 1) + 1)
          BY <1>5, <4>2, CloseListed
        <4> QED
          BY <3>1, <4>1, <4>2, <4>3, <4>4
      <3>2. CASE k # 1
        <4>1. d = disk /\ perms' = perms
          BY <1>4, <2>2, <3>2 DEF d, Ready
        <4> QED
          BY <1>3, <2>3, <3>2, <4>1 DEF Copied, k
      <3> QED
        BY <3>1, <3>2
    <2>8. /\ IF k = Chunks(i) THEN LaidDown(disk', i) ELSE Partly(disk', i, k)
          /\ PlainNodes(disk')
          /\ FileModes(disk', i)
      BY <1>2, <1>4, <1>5, <2>5, <2>7, ChunkLaid
    <2>9. IF NextNumber' = 1 THEN LaidDown(disk', i)
                             ELSE Partly(disk', i, NextNumber' - 1)
      BY <1>2, <1>7, <2>8
    <2> QED
      BY <1>1, <1>7, <2>4, <2>7, <2>8, <2>9, CopiedAfter
  <1> QED
    BY <1>10, <1>11, Zenon

LEMMA CleanExistingFilesCopies ==
    ASSUME Inv, Receiving, CleanExistingFiles
    PROVE  Receiving'
  <1>1. /\ rcv = "cleaning" /\ rcv' = "receiving"
        /\ UNCHANGED <<files, file, block, pipe, current, remaining, perms>>
    BY DEF CleanExistingFiles, sender
  <1>2. /\ NextEntry = 1 /\ NextNumber = 1 /\ current = NoEntry
        /\ perms = <<>> /\ Counted
    BY <1>1 DEF Inv, Written, Receiving
  <1>3. NextEntry' = 1 /\ NextNumber' = 1
    BY <1>1, <1>2 DEF NextEntry, NextNumber
  <1>4. Taken = 0 /\ Taken' = 0
    BY <1>2, <1>3 DEF Taken
  <1>5. DOMAIN files = 1 .. Len(files) /\ Len(files) \in Nat
    BY EntryFacts DEF Inv
  <1>6. Counted'
    BY <1>1, <1>2, <1>4 DEF Counted, Left, NoEntry
  <1>11. ASSUME left' = FALSE
         PROVE  Copied'
    <2>1. disk' = Removed(disk, Tops, {})
      BY <1>11, Zenon DEF CleanExistingFiles
    <2>2. \A j \in DOMAIN files : disk'[files[j].path] = Absent
      <3> SUFFICES ASSUME NEW j \in DOMAIN files PROVE disk'[files[j].path] = Absent
        OBVIOUS
      <3>1. files[j].path \in Path
        BY EntryFacts DEF Inv
      <3>2. IsIn(files[j].path, Tops)
        BY DEF IsIn, Tops
      <3> QED
        BY <2>1, <3>1, <3>2 DEF Removed
    <2>3. LaidDown(disk', 0) /\ FileModes(disk', 0)
      BY <1>5 DEF LaidDown, FileModes
    <2>4. PlainNodes(disk')
      <3>1. Absent.data = <<>> /\ Absent.locked = FALSE
        BY DEF Absent
      <3> QED
        BY <2>2, <3>1 DEF PlainNodes
    <2>5. Listed(perms', 0)
      <3>1. Len(<<>>) = 0
        OBVIOUS
      <3>2. 1 .. Len(perms') = {}
        BY <1>1, <1>2, <3>1
      <3> QED
        BY <1>5, <3>2 DEF Listed, Ordered, InList
    <2> QED
      BY <1>1, <1>2, <1>3, <1>4, <2>3, <2>4, <2>5, CopiedAfter DEF NoEntry
  <1>12. rcv' # "cleaning" /\ rcv' \notin {"closing", "counting"}
    BY <1>1
  <1> QED
    BY <1>1, <1>6, <1>11, <1>12, Zenon DEF Receiving

\* When all was sent and the count comes to zero, every entry was taken for itself.
LEMMA ReceiveFinishedCopies ==
    ASSUME Inv, Receiving, ReceiveFinished
    PROVE  Receiving'
  <1>1. /\ rcv = "receiving" /\ rcv' = "closing" /\ pipe = <<>>
        /\ disk' = ClosedDisk /\ perms' = ClosedPerms /\ remaining' = ClosedRemaining
        /\ UNCHANGED <<files, gen, left>>
    BY Zenon DEF ReceiveFinished, settled, sender
  <1>2. gen = "done" \/ gen = "gave_up"
    BY Zenon DEF ReceiveFinished
  <1>3. Types /\ InOrder /\ Counted
    BY <1>1 DEF Inv, Receiving
  <1>4. DOMAIN files = 1 .. Len(files) /\ Len(files) \in Nat /\ Len(files) > 0
    BY <1>3, EntryFacts
  <1>5. NextEntry \in 1 .. Len(files) + 1 /\ NextNumber \in Nat
    BY <1>3, NextFacts
  <1>6. Taken \in 0 .. Len(files)
    BY <1>3, <1>4, <1>5, NextFacts DEF Taken
  <1>7. remaining' \in Nat
    <2>1. CASE current = NoEntry
      BY <1>1, <1>3, <2>1 DEF Counted, ClosedRemaining
    <2>2. CASE current # NoEntry
      <3>1. current \in DOMAIN files /\ Taken # NoEntry
        BY <1>3, <1>4, <1>6, <2>2 DEF Types, Counted, NoEntry
      <3>2. Left(Taken) = Len(files) - (Taken - 1)
        BY <3>1 DEF Left
      <3> QED
        BY <1>1, <1>3, <1>4, <1>6, <2>2, <3>2 DEF Counted, ClosedRemaining
    <2> QED
      BY <2>1, <2>2
  <1>8. ASSUME remaining' = 0, gen = "done"
        PROVE  Closing'
    <2>1. file = Len(files) + 1
      BY <1>8 DEF Inv, Undisturbed
    <2>2. NextEntry = Len(files) + 1 /\ NextNumber = 1
      <3>1. block = 0
        BY <1>3, <2>1 DEF InOrder
      <3> QED
        BY <1>1, <2>1, <3>1 DEF NextEntry, NextNumber
    <2> DEFINE l == Len(files)
    <2>3. Taken = l /\ l # NoEntry
      BY <1>4, <2>2 DEF Taken, NoEntry
    <2>4. OneByOne
      <3>1. current # NoEntry
        BY <1>3, <2>3 DEF Counted
      <3>2. remaining = 1
        BY <1>1, <1>3, <1>8, <3>1 DEF ClosedRemaining, Counted
      <3>3. Left(Taken) = l - (l - 1)
        BY <2>3 DEF Left
      <3> QED
        BY <1>4, <3>2, <3>3 DEF OneByOne
    <2>5. Copied
      <3>1. left \in BOOLEAN /\ (left = TRUE => gen = "gave_up")
        <4>1. Barring'
          BY BarringFinishes
        <4>2. left' \in BOOLEAN /\ (left' = TRUE => gen' = "gave_up")
          BY <1>1, <4>1 DEF Barring
        <4> QED
          BY <1>1, <4>2
      <3>2. left = FALSE
        BY <1>8, <3>1
      <3> QED
        BY <1>1, <2>4, <3>2 DEF Receiving
    <2>6. /\ current = l /\ l \in 0 .. l
          /\ LaidDown(disk, l) /\ PlainNodes(disk) /\ FileModes(disk, l)
          /\ PreservePerms => Listed(perms, l)
      BY <1>4, <2>2, <2>3, <2>5 DEF Copied
    <2>7. disk \in Disk
      BY <1>1, <1>3 DEF Types
    <2>8. LaidDown(ClosedDisk, l) /\ PlainNodes(ClosedDisk) /\ FileModes(ClosedDisk, l + 1)
      BY <1>3, <2>6, <2>7, CloseLaid
    <2>9. PreservePerms => Listed(ClosedPerms, l + 1)
      BY <1>3, <2>6, CloseListed
    <2>10. AllThere(ClosedDisk)
      BY <1>4, <2>8 DEF AllThere, LaidDown, Laid, ReplacedBy, Replaced
    <2>11. ASSUME PreservePerms
           PROVE  FolderModes(ClosedDisk, ClosedPerms)
      <3>1. Listed(ClosedPerms, l + 1)
        BY <2>9, <2>11
      <3>2. \A j \in DOMAIN files : files[j].type = "folder" => InList(ClosedPerms, j)
        BY <1>4, <3>1 DEF Listed
      <3>3. \A j \in DOMAIN files : files[j].type = "folder" =>
                ClosedDisk[files[j].path].locked = FALSE
        BY <1>4, <2>8 DEF LaidDown, Laid, PlainNodes
      <3> QED
        BY <3>1, <3>2, <3>3 DEF FolderModes, Listed
    <2> HIDE DEF l
    <2>12. FileModes(disk', l + 1) /\ AllThere(disk')
      BY <1>1, <2>8, <2>10
    <2>13. PreservePerms => FolderModes(disk', perms')
      BY <1>1, <2>11
    <2> QED
      BY <1>1, <2>12, <2>13, ClosingAfter DEF l
  <1>9. /\ rcv' # "cleaning" /\ rcv' # "receiving" /\ rcv' # "counting"
        /\ gen' # "gave_up" => gen = "done"
    BY <1>1, <1>2
  <1> QED
    BY <1>1, <1>7, <1>8, <1>9, Zenon DEF Receiving

\* The last folder of the list gets its mode: the folders it is in are in the list and open.
LEMMA ApplyFolderPermissionsCopies ==
    ASSUME Inv, Receiving, ApplyFolderPermissions
    PROVE  Receiving'
  <1> DEFINE i == perms[Len(perms)]
  <1>1. /\ rcv = "closing" /\ rcv' = "closing" /\ perms # <<>>
        /\ disk' = Chmod(disk, i)
        /\ UNCHANGED <<files, gen, remaining>>
    BY Zenon DEF ApplyFolderPermissions, Last, settled, sender
  <1>2. /\ Types /\ perms \in Seq(DOMAIN files) /\ disk \in Disk
        /\ DOMAIN files = 1 .. Len(files) /\ Len(files) \in Nat
    BY <1>1, EntryFacts DEF Inv, Types
  <1>3. /\ Len(perms) \in Nat /\ Len(perms) > 0
        /\ Len(perms') = Len(perms) - 1
        /\ \A a \in 1 .. Len(perms) - 1 : perms'[a] = perms[a]
    <2>1. perms' = SubSeq(perms, 1, Len(perms) - 1)
      BY Zenon DEF ApplyFolderPermissions, Front
    <2>2. Len(perms) \in Nat /\ Len(perms) > 0
      BY <1>1, <1>2
    <2> DEFINE m == Len(perms) - 1
    <2>3. m \in Nat /\ m <= Len(perms) /\ perms' = SubSeq(perms, 1, m)
      BY <2>1, <2>2
    <2> HIDE DEF m
    <2>4. Len(perms') = m /\ \A a \in 1 .. m : perms'[a] = perms[a]
      BY <1>2, <2>3
    <2> QED
      BY <2>2, <2>4 DEF m
  <1>4. /\ i \in DOMAIN files /\ InList(perms, i)
        /\ \A a \in 1 .. Len(perms) : perms[a] \in DOMAIN files
    BY <1>2, <1>3 DEF InList
  <1>5. \A j : InList(perms', j) => InList(perms, j)
    BY <1>3 DEF InList
  <1>6. \A j : InList(perms, j) => InList(perms', j) \/ j = i
    BY <1>3 DEF InList
  <1> DEFINE p == files[i].path
  <1> HIDE DEF i
  <1>7. \A j \in DOMAIN files : files[j].path \in Path
    BY <1>2, EntryFacts
  <1>8. \A q \in Path : /\ disk'[q].kind = disk[q].kind
                        /\ disk'[q].data = disk[q].data
                        /\ q # p => disk'[q] = disk[q]
    BY <1>1, <1>2, <1>4, ChmodFacts
  <1>9. \A j \in DOMAIN files : Alone(j) /\ j # i => disk'[files[j].path] = disk[files[j].path]
    BY <1>4, <1>7, <1>8 DEF Alone
  <1>10. ASSUME Closing
         PROVE  Closing'
    <2>1. AllThere(disk')
      BY <1>7, <1>8, <1>10 DEF Closing, AllThere, CopyOn
    <2>2. FileModes(disk', Len(files) + 1)
      <3> SUFFICES ASSUME NEW j \in DOMAIN files, PreservePerms, files[j].type = "file",
                          Alone(j)
                   PROVE  disk'[files[j].path].locked = files[j].locked
        BY DEF FileModes
      <3>1. j # i
        <4>1. files[i].type = "folder"
          BY <1>10, <1>3 DEF Closing, FolderModes, Ordered, i
        <4> QED
          BY <4>1
      <3>2. disk[files[j].path].locked = files[j].locked
        BY <1>2, <1>10 DEF Closing, FileModes
      <3> QED
        BY <1>9, <3>1, <3>2
    <2>3. ASSUME PreservePerms
          PROVE  FolderModes(disk', perms')
      <3>1. FolderModes(disk, perms)
        BY <1>10, <2>3 DEF Closing
      <3>2. Ordered(perms')
        BY <1>3, <3>1 DEF FolderModes, Ordered
      <3>3. ~InList(perms', i) /\ files[i].type = "folder"
        <4>1. \A a \in 1 .. Len(perms) - 1 : perms[a] < i
          BY <1>3, <3>1 DEF FolderModes, Ordered, i
        <4>2. i \in Nat
          BY <1>2, <1>4
        <4>3. ~InList(perms', i)
          BY <1>3, <4>1, <4>2 DEF InList
        <4> QED
          BY <1>3, <3>1, <4>3 DEF FolderModes, Ordered, i
      <3>4. ASSUME NEW a \in DOMAIN files, NEW j \in DOMAIN files,
                   InList(perms', a), j < a, files[j].type = "folder"
            PROVE  InList(perms', j)
        <4>1. InList(perms, a) /\ InList(perms, j)
          BY <1>5, <3>1, <3>4 DEF FolderModes
        <4>2. a < i
          <5>1. PICK b \in 1 .. Len(perms') : perms'[b] = a
            BY <3>4 DEF InList
          <5>2. b \in 1 .. Len(perms) - 1 /\ perms[b] = a
            BY <1>3, <5>1
          <5> QED
            BY <1>3, <3>1, <5>2 DEF FolderModes, Ordered, i
        <4>3. j # i
          BY <1>2, <1>4, <3>4, <4>2
        <4> QED
          BY <1>6, <4>1, <4>3
      <3>5. ASSUME AllAlone(i)
            PROVE  disk'[p].locked = files[i].locked
        <4>1. ASSUME NEW q \in files[i].above
              PROVE  ~disk[q].locked
          <5>1. PICK j \in DOMAIN files : /\ j < i /\ files[j].path = q
                                          /\ files[j].type = "folder"
            BY <1>2, <1>4, EntryFacts
          <5>2. Alone(j)
            BY <3>5, <5>1 DEF AllAlone
          <5>3. InList(perms, j)
            BY <1>4, <3>1, <5>1 DEF FolderModes
          <5>4. disk[q].locked = FALSE
            BY <3>1, <5>1, <5>2, <5>3 DEF FolderModes
          <5> QED
            BY <5>4, Zenon
        <4>2. disk' = [disk EXCEPT ![p].locked = files[i].locked]
          BY <1>1, <4>1, Zenon DEF Chmod
        <4>3. p \in Path /\ disk[p] \in Place /\ files[i].locked \in BOOLEAN
          BY <1>2, <1>4, <1>7, EntryFacts DEF Disk, Entry
        <4>4. disk'[p] = [disk[p] EXCEPT !.locked = files[i].locked]
          BY <1>2, <4>2, <4>3 DEF Disk
        <4> QED
          BY <4>3, <4>4, PlaceFacts
      <3>6. ASSUME NEW j \in DOMAIN files, files[j].type = "folder", Alone(j)
            PROVE  IF InList(perms', j) THEN disk'[files[j].path].locked = FALSE
                   ELSE AllAlone(j) => disk'[files[j].path].locked = files[j].locked
        <4>1. CASE j = i
          BY <3>3, <3>5, <4>1
        <4>2. CASE j # i
          <5>1. InList(perms', j) <=> InList(perms, j)
            BY <1>5, <1>6, <4>2
          <5>2. disk'[files[j].path] = disk[files[j].path]
            BY <1>9, <3>6, <4>2
          <5> QED
            BY <3>1, <3>6, <5>1, <5>2 DEF FolderModes
        <4> QED
          BY <4>1, <4>2
      <3> QED
        BY <3>2, <3>4, <3>6 DEF FolderModes
    <2> QED
      BY <1>1, <2>1, <2>2, <2>3, ClosingAfter
  <1> QED
    BY <1>1, <1>10, Zenon DEF Receiving

\* What is said FINISHED here is counted yet.
LEMMA PermissionsAppliedCopies ==
    ASSUME Inv, CopyInv, PermissionsApplied
    PROVE  CopyInv'
  <1>1. /\ rcv = "closing" /\ rcv' = "counting" /\ perms = <<>>
        /\ UNCHANGED <<files, disk, gen, remaining, perms>>
    BY Zenon DEF PermissionsApplied, settled, sender
  <1>2. Closing => Closing'
    BY <1>1, ClosingAfter DEF Closing
  <1>3. /\ rcv' \notin {"cleaning", "receiving", "closing", "ended"}
        /\ rcv \in {"closing", "counting"} /\ perms' = <<>>
    BY <1>1
  <1>4. Receiving'
    BY <1>1, <1>2, <1>3, Zenon DEF CopyInv, Receiving
  <1>5. Telling' /\ FinishedIsCopy'
    <2>1. gen # "running"
      BY <1>3, Zenon DEF CopyInv, Telling
    <2>2. rcv' \in {"counting", "ended"} /\ rcv' # "ended" /\ gen' # "running"
      BY <1>1, <2>1
    <2> QED
      BY <2>2, Zenon DEF Telling, FinishedIsCopy
  <1> QED
    BY <1>4, <1>5 DEF CopyInv

LEMMA TransferFinishedCopies ==
    ASSUME Inv, CopyInv, TransferFinished
    PROVE  CopyInv'
  <1>1. /\ rcv = "counting" /\ rcv' = "ended" /\ perms = <<>>
        /\ UNCHANGED <<files, disk, gen, remaining, early>>
    <2>1. /\ rcv = "counting" /\ rcv' = "ended"
          /\ UNCHANGED <<files, disk, gen, remaining, early>>
      BY Zenon DEF TransferFinished, settled, sender, progress
    <2>2. perms = <<>>
      BY <2>1, Zenon DEF CopyInv, Receiving
    <2> QED
      BY <2>1, <2>2
  <1>2. status' = IF remaining > 0 THEN "FINISHED_WARNING" ELSE "FINISHED"
    BY Zenon DEF TransferFinished
  <1>3. Receiving' /\ Telling'
    BY <1>1 DEF Receiving, Telling
  <1>4. ASSUME status' = "FINISHED", gen # "gave_up",
               NEW i \in DOMAIN files
        PROVE  /\ CopyOn(disk, i) \/ Replaced(i)
               /\ (PreservePerms /\ files[i].type # "link" /\ AllAlone(i)) =>
                     disk[files[i].path].locked = files[i].locked
    <2>1. remaining = 0
      BY <1>1, <1>2, <1>4 DEF CopyInv, Receiving
    <2>2. Closing
      BY <1>1, <1>4, <2>1 DEF CopyInv, Receiving
    <2>3. CopyOn(disk, i) \/ Replaced(i)
      BY <2>2 DEF Closing, AllThere
    <2>4. ASSUME PreservePerms, files[i].type # "link", AllAlone(i)
          PROVE  disk[files[i].path].locked = files[i].locked
      <3>1. Alone(i)
        BY <2>4 DEF AllAlone
      <3>2. CASE files[i].type = "file"
        <4>1. i < Len(files) + 1
          BY EntryFacts DEF Inv
        <4> QED
          BY <2>2, <2>4, <3>1, <3>2, <4>1 DEF Closing, FileModes
      <3>3. CASE files[i].type = "folder"
        <4>1. ~InList(perms, i)
          <5>1. Len(<<>>) = 0
            OBVIOUS
          <5> QED
            BY <1>1, <5>1 DEF InList
        <4> QED
          BY <2>2, <2>4, <3>1, <3>3, <4>1 DEF Closing, FolderModes
      <3>4. files[i].type \in {"folder", "link", "file"}
        BY EntryFacts DEF Inv, Entry
      <3> QED
        BY <2>4, <3>2, <3>3, <3>4
    <2> QED
      BY <2>3, <2>4
  <1>5. FinishedIsCopy'
    <2>1. \A i : IsCopy(i)' <=> CopyOn(disk, i)
      BY <1>1 DEF IsCopy, CopyOn, Content, Full, Chunks
    <2>2. \A i : Replaced(i)' <=> Replaced(i)
      BY <1>1 DEF Replaced
    <2>3. \A i : AllAlone(i)' <=> AllAlone(i)
      BY <1>1 DEF AllAlone, Alone
    <2>4. (status' = "FINISHED" /\ gen # "gave_up") =>
             \A i \in DOMAIN files :
               /\ CopyOn(disk, i) \/ Replaced(i)
               /\ (PreservePerms /\ files[i].type # "link" /\ AllAlone(i)) =>
                     disk[files[i].path].locked = files[i].locked
      BY <1>4
    <2> QED
      BY <1>1, <2>1, <2>2, <2>3, <2>4, Zenon DEF FinishedIsCopy
  <1> QED
    BY <1>3, <1>5 DEF CopyInv

\* A step that leaves the receiver and the chunk it gets next alone
LEMMA CopyAside ==
    ASSUME CopyInv, UNCHANGED <<files, left, receiver, NextEntry, NextNumber>>,
           rcv \in {"closing", "counting"} => gen' = gen,
           gen' # "gave_up" => gen # "gave_up",
           status' = "FINISHED" => status = "FINISHED" \/ early',
           early => early'
    PROVE  CopyInv'
  <1>1. UNCHANGED <<rcv, current, remaining, perms, disk>>
    BY DEF receiver
  <1>2. Taken' = Taken
    BY DEF Taken
  <1>3. \A j : Content(j)' = Content(j)
    BY DEF Content, Full, Chunks
  <1>4. Counted' <=> Counted
    BY <1>1, <1>2 DEF Counted, Left
  <1>5. OneByOne' <=> OneByOne
    BY <1>1, <1>2 DEF OneByOne, Left
  <1>6. Copied => Copied'
    BY <1>1, <1>2, CopiedAfter DEF Copied
  <1>7. Closing => Closing'
    BY <1>1, ClosingAfter DEF Closing
  <1>8. Receiving'
    BY <1>1, <1>4, <1>5, <1>6, <1>7, Zenon DEF CopyInv, Receiving
  <1>9. Telling'
    BY <1>1, Zenon DEF CopyInv, Telling
  <1>10. FinishedIsCopy'
    <2>1. \A i : IsCopy(i)' <=> IsCopy(i)
      BY <1>1, <1>3 DEF IsCopy
    <2>2. \A i : Replaced(i)' <=> Replaced(i)
      BY DEF Replaced
    <2>3. \A i : AllAlone(i)' <=> AllAlone(i)
      BY DEF AllAlone, Alone
    <2> QED
      BY <1>1, <2>1, <2>2, <2>3, Zenon DEF CopyInv, FinishedIsCopy
  <1> QED
    BY <1>8, <1>9, <1>10 DEF CopyInv

\* A thread that ends in another way has not said FINISHED.
LEMMA CopyAtEnd ==
    ASSUME rcv' = "ended", status' = "FINISHED" => early'
    PROVE  CopyInv'
  <1>1. Receiving'
    BY DEF Receiving
  <1>2. Telling' /\ FinishedIsCopy'
    BY Zenon DEF Telling, FinishedIsCopy
  <1> QED
    BY <1>1, <1>2 DEF CopyInv

\* The generator comes to one end only, and leaves the next chunk where it is.
LEMMA CopySender ==
    ASSUME Inv, CopyInv,
           \/ Generator \/ ReadError \/ CompressionFails
           \/ StopSender \/ CancelCall \/ LoseCall
    PROVE  CopyInv'
  <1>1. CASE SendChunk
    <2>1. NextEntry' = NextEntry /\ NextNumber' = NextNumber
      BY <1>1, SendOrder DEF Inv
    <2>2. UNCHANGED <<files, left, receiver, gen, status, early>>
      BY <1>1, Zenon DEF SendChunk, settled, progress
    <2> QED
      BY <2>1, <2>2, CopyAside, Zenon
  <1>2. CASE \/ AllSent \/ SendStopped \/ GeneratorDropped \/ ReadError \/ CompressionFails
             \/ StopSender \/ CancelCall \/ LoseCall
    <2>1. UNCHANGED <<files, left, file, block, pipe, receiver, early>>
      BY <1>2, Zenon DEF AllSent, SendStopped, GeneratorDropped, EndGenerator, ReadError,
         CompressionFails, StopSender, CancelCall, LoseCall, settled, sender, progress
    <2>2. status' = status \/ status' = "STOPPED"
      BY <1>2, Zenon DEF AllSent, SendStopped, GeneratorDropped, EndGenerator, ReadError,
         CompressionFails, StopSender, CancelCall, LoseCall
    <2>3. gen' = gen \/ gen = "running"
      BY <1>2, Zenon DEF AllSent, SendStopped, GeneratorDropped, EndGenerator, ReadError,
         CompressionFails, StopSender, CancelCall, LoseCall, sender
    <2>4. NextEntry' = NextEntry /\ NextNumber' = NextNumber
      BY <2>1 DEF NextEntry, NextNumber
    <2>5. status' = "FINISHED" => status = "FINISHED"
      BY <2>2
    <2>6. /\ rcv \in {"closing", "counting"} => gen' = gen
          /\ gen' # "gave_up" => gen # "gave_up"
      <3>1. rcv \in {"closing", "counting"} => gen # "running"
        BY Zenon DEF CopyInv, Telling
      <3> QED
        BY <2>3, <3>1
    <2> QED
      BY <2>1, <2>4, <2>5, <2>6, CopyAside, Zenon
  <1> QED
    BY <1>1, <1>2 DEF Generator

LEMMA CopyReceiver ==
    ASSUME Inv, CopyInv, Receiver \/ WriteError \/ DecompressionFails
    PROVE  CopyInv'
  <1>1. Receiving
    BY DEF CopyInv
  <1>2. rcv \notin {"counting", "ended"} /\ status = "FINISHED" => early
    BY Zenon DEF CopyInv, Telling
  <1>3. CASE CleanExistingFiles
    <2>1. rcv = "cleaning" /\ rcv' = "receiving" /\ UNCHANGED <<status, early>>
      BY <1>3, Zenon DEF CleanExistingFiles, progress
    <2>2. /\ rcv \notin {"counting", "ended"}
          /\ rcv' \notin {"closing", "counting"} /\ rcv' # "ended"
      BY <2>1
    <2>3. Telling' /\ FinishedIsCopy'
      BY <1>2, <2>1, <2>2, Zenon DEF Telling, FinishedIsCopy
    <2> QED
      BY <1>1, <1>3, <2>3, CleanExistingFilesCopies DEF CopyInv
  <1>4. CASE ReceiveData
    <2>1. rcv = "receiving" /\ early' = early
      BY <1>4, Zenon DEF ReceiveData, Receives
    <2>2. \/ rcv' = rcv /\ status' = status
          \/ rcv' = "ended" /\ status' = "FAILED"
      BY <1>4, Zenon DEF ReceiveData, ReportReceiveError
    <2>3. CASE rcv' = rcv /\ status' = status
      <3>1. /\ rcv \notin {"counting", "ended"} /\ left' = left
            /\ rcv' \notin {"closing", "counting"} /\ rcv' # "counting"
            /\ rcv' # "ended" /\ rcv' # "cleaning"
        <4>1. left' = left
          BY <1>4 DEF ReceiveData, settled
        <4>2. /\ rcv \notin {"counting", "ended"} /\ rcv' \notin {"closing", "counting"}
              /\ rcv' # "counting" /\ rcv' # "ended" /\ rcv' # "cleaning"
          BY <2>1, <2>3
        <4> QED
          BY <4>1, <4>2
      <3>2. Counted' /\ (left = FALSE /\ OneByOne' => Copied')
        <4>1. rcv' # "ended"
          BY <3>1
        <4> QED
          BY <1>1, <1>4, <4>1, ReceiveDataCopies, Zenon
      <3>5. left' = FALSE /\ OneByOne' => Copied'
        BY <3>1, <3>2, Zenon
      <3>3. Receiving'
        BY <3>1, <3>2, <3>5, Zenon DEF Receiving
      <3>4. Telling' /\ FinishedIsCopy'
        BY <1>2, <2>1, <2>3, <3>1, Zenon DEF Telling, FinishedIsCopy
      <3> QED
        BY <3>3, <3>4 DEF CopyInv
    <2>4. CASE rcv' = "ended" /\ status' = "FAILED"
      <3>1. status' # "FINISHED"
        BY <2>4
      <3> QED
        BY <2>4, <3>1, CopyAtEnd, Zenon
    <2> QED
      BY <2>2, <2>3, <2>4
  <1>5. CASE ReceiveFailed
    <2>1. /\ rcv = "receiving" /\ rcv' = "ended" /\ early' = early
          /\ status' = status \/ status' = "FAILED"
      BY <1>5, Zenon DEF ReceiveFailed, progress
    <2>2. rcv \notin {"counting", "ended"} /\ (status' = "FINISHED" => status = "FINISHED")
      BY <2>1
    <2> QED
      BY <1>2, <2>1, <2>2, CopyAtEnd, Zenon
  <1>6. CASE WriteError \/ DecompressionFails
    <2>1. rcv' = "ended" /\ status' = "FAILED"
      BY <1>6, Zenon DEF WriteError, DecompressionFails, ReportReceiveError
    <2>2. status' # "FINISHED"
      BY <2>1
    <2> QED
      BY <2>1, <2>2, CopyAtEnd, Zenon
  <1>7. CASE ReceiveFinished
    <2>1. /\ rcv = "receiving" /\ rcv' = "closing" /\ UNCHANGED <<status, early, gen>>
          /\ gen = "done" \/ gen = "gave_up"
      BY <1>7, Zenon DEF ReceiveFinished, sender, progress
    <2>2. rcv \notin {"counting", "ended"} /\ rcv' # "ended" /\ gen' # "running"
      BY <2>1
    <2>3. Telling' /\ FinishedIsCopy'
      BY <1>2, <2>1, <2>2, Zenon DEF Telling, FinishedIsCopy
    <2> QED
      BY <1>1, <1>7, <2>3, ReceiveFinishedCopies DEF CopyInv
  <1>8. CASE ApplyFolderPermissions
    <2>1. /\ rcv = "closing" /\ rcv' = rcv /\ UNCHANGED <<status, early, gen>>
      BY <1>8, Zenon DEF ApplyFolderPermissions, sender, progress
    <2>2. rcv \notin {"counting", "ended"} /\ rcv' # "ended" /\ rcv \in {"closing", "counting"}
      BY <2>1
    <2>3. rcv \in {"closing", "counting"} => gen # "running"
      BY Zenon DEF CopyInv, Telling
    <2>4. Telling' /\ FinishedIsCopy'
      BY <1>2, <2>1, <2>2, <2>3, Zenon DEF Telling, FinishedIsCopy
    <2> QED
      BY <1>1, <1>8, <2>4, ApplyFolderPermissionsCopies DEF CopyInv
  <1>9. CASE TransferFinished
    BY <1>9, TransferFinishedCopies
  <1>10. CASE PermissionsApplied
    BY <1>10, PermissionsAppliedCopies
  <1> QED
    BY <1>3, <1>4, <1>5, <1>6, <1>7, <1>8, <1>9, <1>10 DEF Receiver

LEMMA CopyInit == Init => CopyInv
  <1> SUFFICES ASSUME Init PROVE CopyInv
    OBVIOUS
  <1>1. Inv
    BY InvInit
  <1>2. /\ rcv = "cleaning" /\ perms = <<>> /\ remaining = Len(files) /\ current = NoEntry
        /\ status = "TRANSFERRING"
    BY DEF Init
  <1>3. NextEntry = 1 /\ NextNumber = 1
    BY <1>1, <1>2 DEF Inv, Written
  <1>4. Taken = NoEntry /\ Len(files) \in Nat
    BY <1>1, <1>3, EntryFacts DEF Taken, NoEntry, Inv
  <1>5. Counted
    BY <1>2, <1>4 DEF Counted, Left, NoEntry
  <1>6. Receiving
    BY <1>2, <1>5 DEF Receiving
  <1>7. rcv # "ended" /\ rcv \notin {"closing", "counting"} /\ status # "FINISHED"
    BY <1>2
  <1>8. Telling /\ FinishedIsCopy
    BY <1>7, Zenon DEF Telling, FinishedIsCopy
  <1> QED
    BY <1>6, <1>8 DEF CopyInv

LEMMA CopyStep ==
    ASSUME Inv, CopyInv, [Next]_vars
    PROVE  CopyInv'
  <1>1. CASE UpdateProgress
    <2>1. /\ UNCHANGED <<files, left, file, block, pipe, receiver, gen>>
          /\ \/ UNCHANGED <<status, early>>
             \/ early' = TRUE
      BY <1>1, Zenon DEF UpdateProgress, settled, sender
    <2>2. NextEntry' = NextEntry /\ NextNumber' = NextNumber
      BY <2>1 DEF NextEntry, NextNumber
    <2>3. UNCHANGED <<files, left, receiver, NextEntry, NextNumber>>
      BY <2>1, <2>2, Zenon
    <2>4. /\ status' = "FINISHED" => status = "FINISHED" \/ early'
          /\ early => early'
      <3>1. CASE UNCHANGED <<status, early>>
        <4>1. status' = status /\ early' = early
          BY <3>1
        <4> QED
          BY <4>1
      <3>2. CASE early' = TRUE
        BY <3>2
      <3> QED
        BY <2>1, <3>1, <3>2
    <2>5. /\ rcv \in {"closing", "counting"} => gen' = gen
          /\ gen' # "gave_up" => gen # "gave_up"
      BY <2>1
    <2> QED
      BY <2>3, <2>4, <2>5, CopyAside, Zenon
  <1>2. CASE UNCHANGED vars
    <2>1. UNCHANGED <<files, left, file, block, pipe, receiver, gen, status, early>>
      BY <1>2, Zenon DEF vars, settled, sender, progress
    <2>2. NextEntry' = NextEntry /\ NextNumber' = NextNumber
      BY <2>1 DEF NextEntry, NextNumber
    <2> QED
      BY <2>1, <2>2, CopyAside, Zenon
  <1> QED
    BY <1>1, <1>2, CopySender, CopyReceiver, Zenon DEF Next

LEMMA CopyAlways == Spec => []CopyInv
  <1>1. Inv /\ CopyInv /\ [Next]_vars => CopyInv'
    BY CopyStep
  <1> QED
    BY InvAlways, CopyInit, <1>1, PTL DEF Spec

\* What is FINISHED is a copy: whatever entries are sent, in whatever order the steps of
\* both ends and of the main loop fall, an entry that the receiver's thread has counted
\* has all of its bytes, none of another, and its mode; entries of one path are told
\* from one by the count, unless folders become one or a link replaces the earlier.
\* (receive_data, close_current_file, apply_folder_permissions, start_transfer_op)
THEOREM FinishedCopies == Spec => []FinishedIsCopy
  <1>1. CopyInv => FinishedIsCopy
    BY DEF CopyInv
  <1> QED
    BY CopyAlways, <1>1, PTL

-----------------------------------------------------------------------------
(***************************************************************************)
(* What progress counts.                                                   *)
(*                                                                         *)
(* A callback is queued for a chunk with bytes that has been written, so   *)
(* those that have run and those that wait are no more than the chunks     *)
(* with bytes that have been taken, and these no more than all (Counting). *)
(*                                                                         *)
(* FullUpTo is a recursive function, so that it is the sum that its        *)
(* definition says has to be proved by induction: what fails for some      *)
(* number up to m fails for a least one.                                   *)
(***************************************************************************)
LEMMA LeastNumber ==
    ASSUME NEW T, T \subseteq Nat, T # {}
    PROVE  \E n \in T : \A m \in T : n <= m
  <1> DEFINE Less == {s \in Nat \X Nat : s[1] < s[2]}
  <1>1. IsWellFoundedOn(Less, Nat)
    BY NatLessThanWellFounded, Zenon DEF OpToRel
  <1>2. PICK n \in T : \A m \in T : <<m, n>> \notin Less
    BY <1>1, WFMin
  <1>3. \A m \in T : <<m, n>> \in Less <=> m < n
    OBVIOUS
  <1> HIDE DEF Less
  <1>4. ASSUME NEW m \in T
        PROVE  n <= m
    <2>1. m \in Nat /\ n \in Nat /\ ~(m < n)
      BY <1>2, <1>3
    <2> QED
      BY <2>1
  <1> QED
    BY <1>4

LEMMA UpTo ==
    ASSUME NEW m \in Nat, NEW T, 0 \in T,
           \A n \in 0 .. m - 1 : n \in T => n + 1 \in T
    PROVE  \A n \in 0 .. m : n \in T
  <1> DEFINE Missing == {n \in 0 .. m : n \notin T}
  <1> SUFFICES ASSUME Missing # {} PROVE FALSE
    OBVIOUS
  <1>1. Missing \subseteq Nat
    OBVIOUS
  <1>2. PICK n \in Missing : \A l \in Missing : n <= l
    BY <1>1, LeastNumber
  <1>3. n \in 0 .. m /\ n \notin T /\ n # 0
    OBVIOUS
  <1>4. n - 1 \in 0 .. m - 1 /\ n - 1 \in 0 .. m
    BY <1>3
  <1>5. n - 1 \in T
    <2>1. ~(n <= n - 1)
      BY <1>3
    <2> QED
      BY <1>2, <1>4, <2>1
  <1>6. (n - 1) + 1 \in T /\ (n - 1) + 1 = n
    BY <1>3, <1>4, <1>5
  <1> QED
    BY <1>3, <1>6

LEMMA FullUpToDef ==
    ASSUME Types
    PROVE  FullUpTo = [n \in 0 .. Len(files) |->
                          IF n = 0 THEN 0 ELSE FullUpTo[n - 1] + Full(n)]
  <1> DEFINE Sums(m) == {g \in [0 .. m -> Int] :
                            \A n \in 0 .. m : g[n] = IF n = 0 THEN 0 ELSE g[n - 1] + Full(n)}
             Defined == {m \in 0 .. Len(files) : Sums(m) # {}}
  <1>1. Len(files) \in Nat /\ DOMAIN files = 1 .. Len(files)
    BY EntryFacts
  <1>2. 0 \in Defined
    <2>1. [n \in 0 .. 0 |-> 0] \in Sums(0)
      OBVIOUS
    <2> QED
      BY <1>1, <2>1
  <1>3. ASSUME NEW m \in 0 .. Len(files) - 1, m \in Defined
        PROVE  m + 1 \in Defined
    <2>1. PICK g \in [0 .. m -> Int] :
              \A n \in 0 .. m : g[n] = IF n = 0 THEN 0 ELSE g[n - 1] + Full(n)
      BY <1>3
    <2> DEFINE h == [n \in 0 .. m + 1 |-> IF n = m + 1 THEN g[m] + Full(m + 1) ELSE g[n]]
    <2>2. m \in Nat /\ m + 1 \in DOMAIN files
      BY <1>1
    <2>3. Full(m + 1) \in Nat
      BY <2>2, ChunkFacts
    <2>4. h \in [0 .. m + 1 -> Int]
      BY <2>1, <2>2, <2>3
    <2>5. ASSUME NEW n \in 0 .. m + 1
          PROVE  h[n] = IF n = 0 THEN 0 ELSE h[n - 1] + Full(n)
      <3>1. CASE n = m + 1
        BY <2>2, <3>1
      <3>2. CASE n # m + 1
        <4>1. n \in 0 .. m /\ h[n] = g[n]
          BY <2>2, <3>2
        <4>2. n # 0 => h[n - 1] = g[n - 1]
          BY <2>2, <4>1
        <4> QED
          BY <2>1, <4>1, <4>2
      <3> QED
        BY <3>1, <3>2
    <2>6. h \in Sums(m + 1)
      BY <2>4, <2>5
    <2>7. Sums(m + 1) # {} /\ m + 1 \in 0 .. Len(files)
      <3> HIDE DEF Sums, h
      <3> QED
        BY <1>1, <2>2, <2>6
    <2> QED
      <3> HIDE DEF Sums
      <3> QED
        BY <2>7
  <1>4. Len(files) \in Defined
    <2> HIDE DEF Defined
    <2>1. \A n \in 0 .. Len(files) - 1 : n \in Defined => n + 1 \in Defined
      BY <1>3
    <2>2. \A n \in 0 .. Len(files) : n \in Defined
      BY <1>1, <1>2, <2>1, UpTo, Zenon
    <2> QED
      BY <1>1, <2>2
  <1>5. PICK g \in [0 .. Len(files) -> Int] :
            \A n \in 0 .. Len(files) : g[n] = IF n = 0 THEN 0 ELSE g[n - 1] + Full(n)
    BY <1>4
  <1>6. g = [n \in 0 .. Len(files) |-> IF n = 0 THEN 0 ELSE g[n - 1] + Full(n)]
    BY <1>5
  <1> QED
    BY <1>6, Zenon DEF FullUpTo

LEMMA FullUpToFacts ==
    ASSUME Types
    PROVE  /\ FullUpTo[0] = 0
           /\ \A n \in DOMAIN files : FullUpTo[n] = FullUpTo[n - 1] + Full(n)
           /\ \A n \in 0 .. Len(files) : FullUpTo[n] \in Nat /\ FullUpTo[n] <= Total
  <1> DEFINE m == Len(files)
             Summed == {n \in 0 .. m : FullUpTo[n] \in Nat}
             Below == {n \in 0 .. m : FullUpTo[m - n] <= Total}
  <1>1. m \in Nat /\ DOMAIN files = 1 .. m
    BY EntryFacts
  <1>2. \A n \in 0 .. m : FullUpTo[n] = IF n = 0 THEN 0 ELSE FullUpTo[n - 1] + Full(n)
    BY FullUpToDef
  <1>3. Total = FullUpTo[m]
    BY DEF Total
  <1> HIDE DEF m
  <1>4. FullUpTo[0] = 0
    BY <1>1, <1>2
  <1>5. ASSUME NEW n \in DOMAIN files
        PROVE  FullUpTo[n] = FullUpTo[n - 1] + Full(n)
    <2>1. n \in 0 .. m /\ n # 0
      BY <1>1
    <2> QED
      BY <1>2, <2>1
  <1>6. ASSUME NEW n \in 0 .. m - 1
        PROVE  n + 1 \in DOMAIN files /\ FullUpTo[n + 1] = FullUpTo[n] + Full(n + 1)
    <2>1. n + 1 \in DOMAIN files /\ (n + 1) - 1 = n
      BY <1>1
    <2> QED
      BY <1>5, <2>1
  <1>7. \A n \in 0 .. m : n \in Summed
    <2>1. ASSUME NEW n \in 0 .. m - 1, n \in Summed
          PROVE  n + 1 \in Summed
      <3>1. Full(n + 1) \in Nat /\ FullUpTo[n] \in Nat
        BY <1>6, <2>1, ChunkFacts
      <3>2. FullUpTo[n + 1] \in Nat /\ n + 1 \in 0 .. m
        BY <1>1, <1>6, <3>1
      <3> QED
        BY <3>2
    <2>2. 0 \in Summed
      BY <1>1, <1>4
    <2> HIDE DEF Summed
    <2>3. \A n \in 0 .. m - 1 : n \in Summed => n + 1 \in Summed
      BY <2>1
    <2> QED
      BY <1>1, <2>2, <2>3, UpTo, Zenon
  <1>8. \A n \in 0 .. m : FullUpTo[n] \in Nat
    BY <1>7
  <1>9. \A n \in 0 .. m : n \in Below
    <2>1. ASSUME NEW n \in 0 .. m - 1, n \in Below
          PROVE  n + 1 \in Below
      <3> DEFINE l == m - (n + 1)
      <3>1. l \in 0 .. m - 1 /\ l \in 0 .. m /\ m - n = l + 1 /\ m - n \in 0 .. m
        BY <1>1
      <3>2. FullUpTo[m - n] <= Total
        BY <2>1
      <3>3. n + 1 \in 0 .. m
        BY <1>1
      <3> HIDE DEF l
      <3>4. FullUpTo[l + 1] = FullUpTo[l] + Full(l + 1) /\ Full(l + 1) \in Nat
        BY <1>6, <3>1, ChunkFacts
      <3>5. FullUpTo[l] \in Nat /\ Total \in Nat
        BY <1>1, <1>3, <1>8, <3>1
      <3>6. FullUpTo[l] <= Total
        BY <3>1, <3>2, <3>4, <3>5
      <3>7. FullUpTo[m - (n + 1)] <= Total
        BY <3>6 DEF l
      <3> QED
        BY <3>3, <3>7
    <2>2. 0 \in Below
      <3>1. m - 0 = m /\ 0 \in 0 .. m /\ Total \in Nat
        BY <1>1, <1>3, <1>8
      <3>2. FullUpTo[m - 0] <= Total
        BY <1>3, <3>1
      <3> QED
        BY <3>1, <3>2
    <2> HIDE DEF Below
    <2>3. \A n \in 0 .. m - 1 : n \in Below => n + 1 \in Below
      BY <2>1
    <2> QED
      BY <1>1, <2>2, <2>3, UpTo, Zenon
  <1>10. ASSUME NEW n \in 0 .. m
         PROVE  FullUpTo[n] <= Total
    <2>1. m - n \in 0 .. m /\ m - (m - n) = n
      BY <1>1
    <2>2. FullUpTo[m - (m - n)] <= Total
      BY <1>9, <2>1
    <2> QED
      BY <2>1, <2>2
  <1> QED
    BY <1>4, <1>5, <1>8, <1>10 DEF m

LEMMA FullUpToSame ==
    ASSUME files' = files
    PROVE  FullUpTo' = FullUpTo /\ Total' = Total
  <1>1. FullUpTo' = FullUpTo
    BY Zenon DEF FullUpTo, Full, Chunks
  <1> QED
    BY <1>1, Zenon DEF Total

-----------------------------------------------------------------------------
\* The chunks with bytes before the one that is taken next
Counting ==
    /\ due \in Nat
    /\ counted \in Nat
    /\ counted + due <= FullUpTo[NextEntry - 1] + NextNumber - 1

Settings ==
    /\ exact \in BOOLEAN
    /\ evt \in BOOLEAN
    /\ faulty \in BOOLEAN
    /\ early \in BOOLEAN
    /\ left \in BOOLEAN
    /\ gen \in {"running", "done", "gave_up", "dropped"}
    /\ call \in {"up", "cancelled", "broken"}
    /\ rcv \in {"cleaning", "receiving", "closing", "counting", "ended"}
    /\ status \in {"TRANSFERRING", "FINISHED", "FINISHED_WARNING", "FAILED",
                   "STOPPED"}

TypeInv ==
    /\ Settings
    /\ Counting
    /\ Len(pipe) <= Window
    /\ disk \in Disk
    /\ remaining \in 0 .. Len(files)

LEMMA CountFits ==
    \A c, d \in Nat : \A cc, dd \in Nat : \A u, k \in Nat :
        cc + dd <= c + d => (c + d <= u + k - 1 => cc + dd <= u + k - 1)
  OBVIOUS

LEMMA CountGrows ==
    \A c, d, dd, u, k \in Nat :
        (dd = d \/ dd = d + 1) /\ c + d <= u + k - 1 => c + dd <= u + k
  OBVIOUS

LEMMA CountEnds ==
    \A c, d, dd, u, f, k \in Nat :
        /\ dd = d \/ (dd = d + 1 /\ k <= f)
        /\ f = k \/ f = k - 1
        /\ c + d <= u + k - 1
        => c + dd <= u + f
  OBVIOUS

LEMMA SettingsStep ==
    ASSUME Settings, [Next]_vars
    PROVE  Settings'
  <1>1. CASE Generator \/ ReadError
    BY <1>1, Zenon DEF Settings, Generator, SendChunk, AllSent, SendStopped, ReadError,
                       GeneratorDropped, EndGenerator, settled, receiver, progress
  <1>2. CASE CompressionFails
    BY <1>2, Zenon DEF Settings, CompressionFails, settled, receiver, progress
  <1>3. CASE ReceiveFailed \/ ReceiveFinished
    BY <1>3, Zenon DEF Settings, ReceiveFailed, ReceiveFinished, settled, sender, progress
  <1>10. CASE CleanExistingFiles
    <2>1. /\ UNCHANGED <<exact, evt, gen, call, faulty, early, status>>
          /\ rcv' = "receiving" /\ left' \in BOOLEAN
      BY <1>10 DEF CleanExistingFiles, sender, progress
    <2> QED
      BY <2>1 DEF Settings
  <1>4. CASE ReceiveData
    <2>1. /\ UNCHANGED <<exact, left, evt, gen, call, faulty, early>>
          /\ \/ rcv' = rcv /\ status' = status
             \/ rcv' = "ended" /\ status' = "FAILED"
      BY <1>4, Zenon DEF ReceiveData, ReportReceiveError, settled, sender
    <2> QED
      BY <2>1 DEF Settings
  <1>5. CASE ApplyFolderPermissions \/ PermissionsApplied \/ TransferFinished
    BY <1>5, Zenon DEF Settings, ApplyFolderPermissions, PermissionsApplied,
                       TransferFinished, settled, sender, progress
  <1>6. CASE WriteError \/ DecompressionFails
    BY <1>6, Zenon DEF Settings, WriteError, DecompressionFails, ReportReceiveError,
                       settled, sender, progress
  <1>7. CASE UpdateProgress
    <2>1. /\ UNCHANGED <<exact, left, evt, faulty, gen, call, rcv>>
          /\ \/ UNCHANGED <<status, early>>
             \/ status' = "FINISHED" /\ early' = TRUE
      BY <1>7, Zenon DEF UpdateProgress, settled, sender, receiver
    <2>2. CASE UNCHANGED <<status, early>>
      BY <2>1, <2>2 DEF Settings
    <2>3. CASE status' = "FINISHED" /\ early' = TRUE
      BY <2>1, <2>3 DEF Settings
    <2> QED
      BY <2>1, <2>2, <2>3, Zenon
  <1>8. CASE StopSender
    BY <1>8, Zenon DEF Settings, StopSender, settled, receiver, progress
  <1>11. CASE CancelCall
    BY <1>11, Zenon DEF Settings, CancelCall, settled, sender, receiver, progress
  <1>12. CASE LoseCall
    BY <1>12, Zenon DEF Settings, LoseCall, settled, sender, receiver, progress
  <1>9. CASE UNCHANGED vars
    <2>1. UNCHANGED <<exact, left, evt, faulty, early, gen, call, rcv, status>>
      BY <1>9 DEF vars, settled, sender, receiver, progress
    <2> QED
      BY <2>1 DEF Settings
  <1> QED
    BY <1>1, <1>2, <1>3, <1>4, <1>5, <1>6, <1>7, <1>8, <1>9, <1>10, <1>11, <1>12, Zenon
    DEF Next, Receiver

\* A step that takes no chunk
LEMMA TypeAside ==
    ASSUME TypeInv, Settings', UNCHANGED <<files, NextEntry, NextNumber>>,
           due' \in Nat, counted' \in Nat, counted' + due' <= counted + due,
           Len(pipe') <= Window, disk' \in Disk, remaining' \in 0 .. Len(files),
           NextEntry \in 1 .. Len(files) + 1, NextNumber \in Nat, Types
    PROVE  TypeInv'
  <1>1. FullUpTo' = FullUpTo
    BY FullUpToSame
  <1>2. NextEntry - 1 \in 0 .. Len(files)
    BY EntryFacts
  <1>3. FullUpTo[NextEntry - 1] \in Nat
    BY <1>2, FullUpToFacts
  <1>4. due \in Nat /\ counted \in Nat
        /\ counted + due <= FullUpTo[NextEntry - 1] + NextNumber - 1
    BY DEF TypeInv, Counting
  <1>5. counted' + due' <= FullUpTo[NextEntry - 1] + NextNumber - 1
    <2>1. \A cc, dd \in Nat : \A u, k \in Nat :
              cc + dd <= counted + due =>
                  (counted + due <= u + k - 1 => cc + dd <= u + k - 1)
      BY <1>4, CountFits, Zenon
    <2>2. \A u, k \in Nat :
              counted + due <= u + k - 1 => counted' + due' <= u + k - 1
      BY <2>1, Zenon
    <2> QED
      BY <1>3, <1>4, <2>2, Zenon
  <1>6. FullUpTo'[NextEntry' - 1] + NextNumber' - 1 = FullUpTo[NextEntry - 1] + NextNumber - 1
    BY <1>1
  <1>7. Counting'
    BY <1>5, <1>6 DEF Counting
  <1>8. disk' \in Disk'
    BY DEF Disk, Path, Place
  <1> QED
    BY <1>7, <1>8 DEF TypeInv

LEMMA ClosedCount ==
    ASSUME Inv, CopyInv, TypeInv, rcv \in {"cleaning", "receiving"}
    PROVE  ClosedRemaining \in 0 .. Len(files)
  <1>1. remaining \in 0 .. Len(files) /\ Len(files) \in Nat
    BY EntryFacts DEF TypeInv, Inv
  <1>2. Counted
    BY Zenon DEF CopyInv, Receiving
  <1>3. /\ NextEntry \in 1 .. Len(files) + 1 /\ NextNumber \in Nat
        /\ NextEntry = Len(files) + 1 => NextNumber = 1
    BY NextFacts DEF Inv
  <1>4. Taken \in 0 .. Len(files)
    BY <1>1, <1>3 DEF Taken
  <1>5. CASE current = NoEntry
    BY <1>1, <1>5 DEF ClosedRemaining
  <1>6. CASE current # NoEntry
    <2>1. current \in 1 .. Len(files) /\ current <= Taken
      BY <1>2, <1>6, EntryFacts DEF Counted, Inv, Types
    <2>2. Taken # NoEntry /\ Left(Taken) = Len(files) - (Taken - 1)
      BY <1>4, <2>1 DEF Left, NoEntry
    <2>3. remaining >= Len(files) - (Taken - 1)
      BY <1>2, <2>2 DEF Counted
    <2> QED
      BY <1>1, <1>4, <1>6, <2>3 DEF ClosedRemaining
  <1> QED
    BY <1>5, <1>6

\* A step that takes one
LEMMA TypeTaken ==
    ASSUME Inv, CopyInv, TypeInv, Settings', Receives, pipe' = Tail(pipe),
           UNCHANGED <<files, file, block, counted>>,
           due' = due \/ (due' = due + 1 /\ NextNumber <= Full(NextEntry)),
           remaining' = remaining \/ remaining' = ClosedRemaining,
           disk' \in Disk
    PROVE  TypeInv'
  <1> DEFINE i == NextEntry
             k == NextNumber
  <1>1. rcv = "receiving" /\ pipe # <<>>
    BY DEF Receives
  <1>2. /\ i \in DOMAIN files /\ i \in Nat /\ i > 0 /\ i <= Len(files)
        /\ k \in 1 .. Chunks(i) /\ k \in Nat /\ k > 0
        /\ Follows(i, k, NextEntry', NextNumber')
    BY TakenFacts, EntryFacts DEF Inv
  <1>3. /\ Chunks(i) \in Nat /\ Full(i) \in Nat
        /\ Full(i) = Chunks(i) \/ Full(i) = Chunks(i) - 1
    BY <1>2, ChunkFacts DEF Inv
  <1>4. FullUpTo' = FullUpTo
    BY FullUpToSame
  <1>5. /\ FullUpTo[i] = FullUpTo[i - 1] + Full(i)
        /\ FullUpTo[i - 1] \in Nat
    <2>1. i - 1 \in 0 .. Len(files)
      BY <1>2
    <2> QED
      BY <1>2, <2>1, FullUpToFacts DEF Inv
  <1>6. due \in Nat /\ counted \in Nat /\ counted + due <= FullUpTo[i - 1] + k - 1
    BY DEF TypeInv, Counting
  <1> HIDE DEF i, k
  <1>7. due' \in Nat /\ counted' = counted
    BY <1>6
  <1>8. counted + due' <= FullUpTo'[NextEntry' - 1] + NextNumber' - 1
    <2>1. CASE k = Chunks(i)
      <3>1. NextEntry' = i + 1 /\ NextNumber' = 1 /\ (i + 1) - 1 = i
        BY <1>2, <2>1 DEF Follows
      <3>2. FullUpTo'[NextEntry' - 1] = FullUpTo[i - 1] + Full(i)
        BY <1>4, <1>5, <3>1
      <3>3. due' = due \/ (due' = due + 1 /\ k <= Full(i))
        BY DEF i, k
      <3>4. counted + due' <= FullUpTo[i - 1] + Full(i)
        <4> DEFINE u == FullUpTo[i - 1]
                   f == Full(i)
        <4>1. /\ counted \in Nat /\ due \in Nat /\ due' \in Nat
              /\ u \in Nat /\ f \in Nat /\ k \in Nat
          BY <1>2, <1>3, <1>5, <1>6, <1>7
        <4>2. f = k \/ f = k - 1
          BY <1>3, <2>1
        <4>3. counted + due <= u + k - 1
          BY <1>6 DEF i, k
        <4>4. due' = due \/ (due' = due + 1 /\ k <= f)
          BY <3>3
        <4> HIDE DEF u, f
        <4>5. counted + due' <= u + f
          BY <4>1, <4>2, <4>3, <4>4, CountEnds, Zenon
        <4> QED
          BY <4>5 DEF u, f
      <3>5. FullUpTo'[NextEntry' - 1] + NextNumber' - 1 = FullUpTo[i - 1] + Full(i)
        BY <1>3, <1>5, <3>1, <3>2
      <3> QED
        BY <3>4, <3>5
    <2>2. CASE k # Chunks(i)
      <3>1. NextEntry' = i /\ NextNumber' = k + 1
        BY <1>2, <2>2 DEF Follows
      <3>2. FullUpTo'[NextEntry' - 1] + NextNumber' - 1 = FullUpTo[i - 1] + k
        BY <1>2, <1>4, <1>5, <3>1
      <3>3. due' = due \/ due' = due + 1
        OBVIOUS
      <3>4. counted + due' <= FullUpTo[i - 1] + k
        BY <1>2, <1>5, <1>6, <1>7, <3>3, CountGrows, Zenon
      <3> QED
        BY <3>2, <3>4
    <2> QED
      BY <2>1, <2>2
  <1>9. Counting'
    BY <1>6, <1>7, <1>8 DEF Counting
  <1>10. Len(pipe') <= Window
    <2>1. pipe \in Seq(Chunk) /\ Len(pipe) <= Window
      BY DEF TypeInv, Inv, Types
    <2>2. Len(pipe) \in Nat /\ Len(Tail(pipe)) = Len(pipe) - 1
      BY <1>1, <2>1
    <2>3. Window \in Nat
      BY StreamAssumption
    <2> QED
      BY <2>1, <2>2, <2>3
  <1>11. remaining' \in 0 .. Len(files')
    BY <1>1, ClosedCount DEF TypeInv
  <1>12. disk' \in Disk'
    BY DEF Disk, Path, Place
  <1> QED
    BY <1>9, <1>10, <1>11, <1>12 DEF TypeInv

LEMMA TypeInit == Init => TypeInv
  <1> SUFFICES ASSUME Init PROVE TypeInv
    OBVIOUS
  <1>1. Inv
    BY InvInit
  <1>2. /\ rcv = "cleaning" /\ pipe = <<>> /\ file = 1 /\ block = 0 /\ due = 0 /\ counted = 0
        /\ remaining = Len(files)
    BY DEF Init
  <1>3. NextEntry = 1 /\ NextNumber = 1
    BY <1>2 DEF NextEntry, NextNumber
  <1>4. FullUpTo[0] = 0
    BY <1>1, FullUpToFacts DEF Inv
  <1>5. Counting
    BY <1>2, <1>3, <1>4 DEF Counting
  <1>6. disk \in Disk
    BY <1>1, <1>2 DEF Inv, Types
  <1>7. Len(pipe) <= Window
    <2>1. Len(<<>>) = 0
      OBVIOUS
    <2> QED
      BY <1>2, <2>1, StreamAssumption
  <1>8. remaining \in 0 .. Len(files)
    BY <1>1, <1>2, EntryFacts DEF Inv
  <1>9. Settings
    BY Zenon DEF Init, Settings
  <1> QED
    BY <1>5, <1>6, <1>7, <1>8, <1>9 DEF TypeInv

\* What is cleaned, from any entry
LEMMA CleanedFacts ==
    ASSUME Types, NEW d \in Disk, NEW i
    PROVE  \A c \in Cleaned(d, i) : c \in Disk
  BY RemovedFacts DEF Cleaned

LEMMA TypeStep ==
    ASSUME Inv, CopyInv, TypeInv, [Next]_vars, Inv'
    PROVE  TypeInv'
  <1>1. Settings'
    BY SettingsStep DEF TypeInv
  <1>2. /\ NextEntry \in 1 .. Len(files) + 1 /\ NextNumber \in Nat /\ Types
        /\ due \in Nat /\ counted \in Nat
    BY NextFacts DEF Inv, TypeInv, Counting
  <1>3. Len(pipe) <= Window /\ disk \in Disk /\ remaining \in 0 .. Len(files)
    BY DEF TypeInv
  <1>4. ASSUME UNCHANGED <<files, pipe, file, block, due, counted>>,
               disk' \in Disk, remaining' \in 0 .. Len(files)
        PROVE  TypeInv'
    <2>1. NextEntry' = NextEntry /\ NextNumber' = NextNumber
      BY <1>4 DEF NextEntry, NextNumber
    <2>2. counted' + due' <= counted + due /\ due' \in Nat /\ counted' \in Nat
      BY <1>2, <1>4
    <2>3. Len(pipe') <= Window
      BY <1>3, <1>4
    <2> QED
      BY <1>1, <1>2, <1>4, <2>1, <2>2, <2>3, TypeAside
  <1>5. CASE SendChunk
    <2>1. /\ pipe \in Seq(Chunk) /\ Len(pipe) < Window
          /\ pipe' = Append(pipe, [entry |-> file, number |-> block + 1])
          /\ UNCHANGED <<files, disk, remaining, due, counted>>
      BY <1>2, <1>5 DEF SendChunk, Types, settled, receiver, progress
    <2>2. Len(pipe') <= Window
      <3>1. Len(pipe) \in Nat /\ Len(pipe') = Len(pipe) + 1 /\ Window \in Nat
        BY <2>1, StreamAssumption
      <3> QED
        BY <2>1, <3>1
    <2>3. NextEntry' = NextEntry /\ NextNumber' = NextNumber
      BY <1>5, SendOrder DEF Inv
    <2>4. counted' + due' <= counted + due /\ due' \in Nat /\ counted' \in Nat
      BY <1>2, <2>1
    <2>5. disk' \in Disk /\ remaining' \in 0 .. Len(files)
      BY <1>3, <2>1
    <2> QED
      BY <1>1, <1>2, <2>1, <2>2, <2>3, <2>4, <2>5, TypeAside
  <1>6. CASE \/ AllSent \/ SendStopped \/ GeneratorDropped \/ ReadError \/ CompressionFails
             \/ StopSender \/ CancelCall \/ LoseCall \/ UNCHANGED vars
    <2>1. UNCHANGED <<files, pipe, file, block, receiver, progress>>
      BY <1>6, Zenon DEF AllSent, SendStopped, GeneratorDropped, ReadError, EndGenerator,
                         CompressionFails, StopSender, CancelCall, LoseCall, vars, settled,
                         sender
    <2>2. UNCHANGED <<disk, remaining, due, counted>>
      BY <2>1 DEF receiver, progress
    <2> QED
      BY <1>3, <1>4, <2>1, <2>2
  <1>7. CASE \/ CleanExistingFiles \/ ReceiveFinished
             \/ ApplyFolderPermissions \/ PermissionsApplied
    <2>1. rcv' # "ended" /\ UNCHANGED <<files, pipe, file, block, due, counted>>
      BY <1>7 DEF CleanExistingFiles, ReceiveFinished, ApplyFolderPermissions,
                  PermissionsApplied, settled, sender, progress
    <2>2. disk' \in Disk
      <3>1. disk' \in Disk'
        BY <2>1 DEF Inv, Types
      <3> QED
        BY <3>1 DEF Disk, Path, Place
    <2>3. remaining' \in 0 .. Len(files)
      <3>1. CASE ReceiveFinished
        BY <3>1, ClosedCount DEF ReceiveFinished
      <3>2. CASE CleanExistingFiles \/ ApplyFolderPermissions \/ PermissionsApplied
        BY <1>3, <3>2 DEF CleanExistingFiles, ApplyFolderPermissions, PermissionsApplied
      <3> QED
        BY <1>7, <3>1, <3>2
    <2> QED
      BY <1>4, <2>1, <2>2, <2>3
  <1>8. CASE TransferFinished \/ ReceiveFailed
    <2>1. /\ UNCHANGED <<files, pipe, file, block, due, counted, remaining>>
          /\ disk' = disk \/ disk' \in Cleaned(disk, current)
      BY <1>8 DEF TransferFinished, ReceiveFailed, settled, sender, progress
    <2>2. disk' \in Disk
      BY <1>2, <1>3, <2>1, CleanedFacts
    <2>3. remaining' \in 0 .. Len(files)
      BY <1>3, <2>1
    <2> QED
      BY <1>4, <2>1, <2>2, <2>3
  <1>9. CASE WriteError \/ DecompressionFails
    <2>1. /\ Receives /\ pipe' = Tail(pipe)
          /\ UNCHANGED <<files, file, block, due, counted>>
          /\ remaining' = remaining \/ remaining' = ClosedRemaining
          /\ \E d \in {disk, ClosedDisk}, i \in {current, Head(pipe).entry} :
                disk' \in Cleaned(d, i)
      BY <1>9 DEF WriteError, DecompressionFails, ReportReceiveError, settled, sender, progress
    <2>2. disk' \in Disk
      BY <1>2, <1>3, <2>1, ClosedFacts, CleanedFacts
    <2> QED
      BY <1>1, <2>1, <2>2, TypeTaken
  <1>10. CASE ReceiveData
    <2> DEFINE d == IF Same(NextEntry) THEN disk ELSE ClosedDisk
               e == NextEntry
               k == NextNumber
    <2>1. Receives /\ pipe' = Tail(pipe) /\ UNCHANGED <<files, file, block, counted>>
      BY <1>10 DEF ReceiveData, settled, sender
    <2>2. e = Head(pipe).entry /\ k = Head(pipe).number /\ e \in DOMAIN files /\ k \in Nat
      BY <2>1, TakenFacts DEF Inv
    <2>3. /\ remaining' = remaining \/ remaining' = ClosedRemaining
          /\ \/ disk' = Placed(d, e, k) /\ due' = due + (IF k <= Full(e) THEN 1 ELSE 0)
             \/ disk' \in Cleaned(d, e) /\ due' = due
      BY <1>10, <2>2 DEF ReceiveData, ReportReceiveError
    <2>4. d \in Disk
      BY <1>2, <1>3, ClosedFacts
    <2> HIDE DEF d, e, k
    <2>5. disk' \in Disk
      BY <1>2, <2>2, <2>3, <2>4, PlacedFacts, CleanedFacts
    <2>6. due' = due \/ (due' = due + 1 /\ k <= Full(e))
      BY <1>2, <2>3
    <2>7. due' = due \/ (due' = due + 1 /\ NextNumber <= Full(NextEntry))
      BY <2>6 DEF e, k
    <2> QED
      BY <1>1, <2>1, <2>3, <2>5, <2>7, TypeTaken
  <1>11. CASE UpdateProgress
    <2>1. /\ due > 0 /\ due' = due - 1 /\ counted' = counted + 1
          /\ UNCHANGED <<files, file, block, pipe, receiver>>
      BY <1>11 DEF UpdateProgress, settled, sender
    <2>2. disk' \in Disk /\ remaining' \in 0 .. Len(files) /\ Len(pipe') <= Window
      BY <1>3, <2>1 DEF receiver
    <2>3. NextEntry' = NextEntry /\ NextNumber' = NextNumber
      BY <2>1 DEF NextEntry, NextNumber
    <2>4. counted' + due' <= counted + due /\ due' \in Nat /\ counted' \in Nat
      BY <1>2, <2>1
    <2> QED
      BY <1>1, <1>2, <2>1, <2>2, <2>3, <2>4, TypeAside
  <1> QED
    BY <1>5, <1>6, <1>7, <1>8, <1>9, <1>10, <1>11 DEF Next, Generator, Receiver

LEMMA CountedIsLess ==
    ASSUME Inv, TypeInv
    PROVE  counted \in 0 .. Total
  <1>1. /\ NextEntry \in 1 .. Len(files) + 1 /\ NextNumber \in Nat /\ NextNumber > 0
        /\ IF NextEntry = Len(files) + 1 THEN NextNumber = 1
                                         ELSE NextNumber <= Chunks(NextEntry)
    BY NextFacts DEF Inv
  <1>2. Len(files) \in Nat /\ DOMAIN files = 1 .. Len(files)
    BY EntryFacts DEF Inv
  <1>3. /\ due \in Nat /\ counted \in Nat
        /\ counted + due <= FullUpTo[NextEntry - 1] + NextNumber - 1
    BY DEF TypeInv, Counting
  <1>4. CASE NextEntry = Len(files) + 1
    <2>1. NextEntry - 1 = Len(files) /\ NextNumber = 1 /\ Len(files) \in 0 .. Len(files)
      BY <1>1, <1>2, <1>4
    <2>2. FullUpTo[NextEntry - 1] = Total /\ Total \in Nat
      BY <2>1, FullUpToFacts DEF Total, Inv
    <2> QED
      BY <1>3, <2>1, <2>2
  <1>5. CASE NextEntry # Len(files) + 1
    <2>1. /\ NextEntry \in DOMAIN files /\ NextNumber <= Chunks(NextEntry)
          /\ NextEntry - 1 \in 0 .. Len(files) /\ NextEntry \in 0 .. Len(files)
          /\ Len(files) \in 0 .. Len(files)
      BY <1>1, <1>2, <1>5
    <2>2. /\ FullUpTo[NextEntry] = FullUpTo[NextEntry - 1] + Full(NextEntry)
          /\ FullUpTo[NextEntry - 1] \in Nat
          /\ FullUpTo[NextEntry] <= Total
      BY <2>1, FullUpToFacts DEF Inv
    <2>3. Total \in Nat
      BY <2>1, FullUpToFacts DEF Inv, Total
    <2>4. /\ Chunks(NextEntry) \in Nat /\ Full(NextEntry) \in Nat
          /\ Full(NextEntry) = Chunks(NextEntry) \/ Full(NextEntry) = Chunks(NextEntry) - 1
      BY <2>1, ChunkFacts DEF Inv
    <2>5. NextNumber - 1 <= Full(NextEntry)
      BY <1>1, <2>1, <2>4
    <2> DEFINE u == FullUpTo[NextEntry - 1]
               f == Full(NextEntry)
    <2>6. u \in Nat /\ f \in Nat /\ u + f <= Total
      BY <2>2, <2>4
    <2>7. counted + due <= u + NextNumber - 1 /\ NextNumber - 1 <= f
      BY <1>3, <2>5
    <2> HIDE DEF u, f
    <2> QED
      BY <1>1, <1>3, <2>3, <2>6, <2>7
  <1> QED
    BY <1>4, <1>5

\* The state stays what it is: no progress is counted beyond the chunks that are sent,
\* however late its callbacks run, and the count of the entries that remain stays between
\* none and all, also when entries have one path. (update_progress, receive_data,
\* close_current_file)
THEOREM TypeCorrect == Spec => []TypeOK
  <1>1. Inv /\ CopyInv /\ TypeInv /\ [Next]_vars /\ Inv' => TypeInv'
    BY TypeStep
  <1>2. Inv /\ TypeInv => TypeOK
    <2> SUFFICES ASSUME Inv, TypeInv PROVE TypeOK
      OBVIOUS
    <2>1. /\ files \in Trees /\ file \in 1 .. Len(files) + 1 /\ block \in Nat
          /\ pipe \in Seq(Chunk) /\ current \in {NoEntry} \cup DOMAIN files
          /\ perms \in Seq(DOMAIN files)
      BY DEF Inv, Types
    <2>2. \A n \in DOMAIN pipe : /\ pipe[n].entry \in DOMAIN files
                                 /\ pipe[n].number \in 1 .. Chunks(pipe[n].entry)
      <3> SUFFICES ASSUME NEW n \in DOMAIN pipe
                   PROVE  /\ pipe[n].entry \in DOMAIN files
                          /\ pipe[n].number \in 1 .. Chunks(pipe[n].entry)
        OBVIOUS
      <3>1. pipe[n] \in Chunk /\ n \in 1 .. Len(pipe)
        BY <2>1
      <3>2. /\ pipe[n].entry \in DOMAIN files /\ pipe[n].number \in Nat
            /\ pipe[n].number # 0
        BY <3>1 DEF Chunk
      <3>3. pipe[n].number <= Chunks(pipe[n].entry)
        BY <3>1 DEF Inv, InOrder
      <3>4. Chunks(pipe[n].entry) \in Nat
        BY <3>2, ChunkFacts DEF Inv
      <3> QED
        BY <3>2, <3>3, <3>4
    <2>3. /\ DOMAIN disk = Path
          /\ \A p \in Path : /\ disk[p].kind \in {"absent", "folder", "link", "file"}
                             /\ disk[p].locked \in BOOLEAN
      BY DEF TypeInv, Disk, Place
    <2>4. counted \in 0 .. Total /\ due \in Nat
      BY CountedIsLess DEF TypeInv, Counting
    <2>5. Len(pipe) <= Window /\ remaining \in 0 .. Len(files)
      BY DEF TypeInv
    <2>6. Settings
      BY DEF TypeInv
    <2> QED
      BY <2>1, <2>2, <2>3, <2>4, <2>5, <2>6 DEF TypeOK, Settings
  <1> QED
    BY InvAlways, CopyAlways, TypeInit, <1>1, <1>2, PTL DEF Spec
=============================================================================
