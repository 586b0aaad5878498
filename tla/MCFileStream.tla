---------------------------- MODULE MCFileStream ----------------------------
(***************************************************************************)
(* What FileStream is checked with, in blocks of two bytes.                *)
(***************************************************************************)
EXTENDS FileStream

Top(p, type, size, locked) ==
    [path |-> p, top |-> p, above |-> {}, type |-> type, size |-> size, locked |-> locked]

In(above, top, p, type, size, locked) ==
    [path |-> p, top |-> top, above |-> above, type |-> type, size |-> size,
     locked |-> locked]

\* Locked folders in each other, a file that ends with a short block and one that
\* ends with an empty one, and a file after the folder
Folders ==
    << Top("d", "folder", 0, TRUE),
       In({"d"}, "d", "d/f", "file", 3, FALSE),
       In({"d"}, "d", "d/s", "folder", 0, TRUE),
       In({"d", "d/s"}, "d", "d/s/g", "file", 2, TRUE),
       Top("e", "file", 1, FALSE) >>

\* A locked folder between what can be removed around it, when it is sent again
Between ==
    << Top("d", "folder", 0, FALSE),
       In({"d"}, "d", "d/a", "file", 1, FALSE),
       In({"d"}, "d", "d/s", "folder", 0, TRUE),
       In({"d", "d/s"}, "d", "d/s/g", "file", 1, FALSE),
       In({"d"}, "d", "d/t", "folder", 0, FALSE),
       In({"d", "d/t"}, "d", "d/t/h", "link", 0, FALSE) >>

\* An empty file, a link that leads nowhere (others are followed, at the top), and a
\* file that is as long as a block
Singles ==
    << Top("a", "file", 0, FALSE), Top("l", "link", 0, FALSE), Top("b", "file", 2, TRUE) >>

\* Files only
Plain == << Top("a", "file", 3, TRUE), Top("b", "file", 2, FALSE) >>

\* Files with one name, from different folders
Twins == << Top("a", "file", 3, FALSE), Top("a", "file", 1, FALSE), Top("b", "file", 1, FALSE) >>

Apart == << Top("a", "file", 1, FALSE), Top("b", "file", 0, FALSE), Top("a", "file", 1, FALSE) >>

\* Folders of one name, from different places, with a file and a link of one name
Merged ==
    << Top("d", "folder", 0, FALSE),
       In({"d"}, "d", "d/x", "file", 1, FALSE),
       Top("d", "folder", 0, FALSE),
       In({"d"}, "d", "d/x", "link", 0, FALSE) >>

\* Folders of one name, the later of which is locked
Joined ==
    << Top("d", "folder", 0, FALSE),
       In({"d"}, "d", "d/s", "folder", 0, TRUE),
       Top("d", "folder", 0, TRUE),
       In({"d"}, "d", "d/y", "file", 1, TRUE) >>

SomeTrees == {Folders, Between, Singles, Plain, Twins, Apart, Merged, Joined}

AllFaults == Fault
=============================================================================
