-------------------------------- MODULE Cas ---------------------------------
(***************************************************************************)
(* The content-addressed object store and the artifact rows that point     *)
(* into it.  Cas::put looks for the object, writes a file named after the  *)
(* hash with the extension "tmp", and renames it into place; nothing locks *)
(* that name against another process that puts the same content, and any   *)
(* process may die or meet an I/O error between two system calls.          *)
(*                                                                         *)
(* The file system is modelled as the operating system keeps it: names     *)
(* point to files, a writer holds the file it opened whatever the names do *)
(* meanwhile, opening with truncation empties the file for everybody.      *)
(***************************************************************************)
EXTENDS Naturals, Sequences

CONSTANTS
  Writer,     \* processes and threads that put blobs
  Content,    \* blobs; a blob stands for its hash too
  Wants,      \* the blobs each writer puts
  Size,       \* writes it takes to fill a file with a blob
  MaxFiles,   \* bound on files ever created
  None        \* no file

ASSUME CasAssumption ==
  /\ Wants \in [Writer -> SUBSET Content]
  /\ Size \in Nat \ {0}
  /\ MaxFiles \in Nat
  /\ None \notin Nat

VARIABLES
  disk,   \* disk[f]: which parts of its blob file f holds
  tmp,    \* the file each temporary name points to
  obj,    \* the file each object name points to
  rows,   \* contents that artifact rows refer to
  at,     \* what each writer is doing
  blob,   \* the blob it puts
  fd,     \* the file it has open
  done    \* how much it has written

casVars == <<disk, tmp, obj, rows, at, blob, fd, done>>

Part == 1..Size
File == 1..MaxFiles

CasTypeOK ==
  /\ disk \in Seq(SUBSET Part) /\ Len(disk) <= MaxFiles
  /\ tmp \in [Content -> File \cup {None}]
  /\ obj \in [Content -> File \cup {None}]
  /\ rows \subseteq Content
  /\ at \in [Writer -> {"idle", "create", "write", "record"}]
  /\ blob \in [Writer -> Content \cup {None}]
  /\ fd \in [Writer -> File \cup {None}]
  /\ done \in [Writer -> 0..Size]

CasInit ==
  /\ disk = << >>
  /\ tmp = [c \in Content |-> None]
  /\ obj = [c \in Content |-> None]
  /\ rows = {}
  /\ at = [w \in Writer |-> "idle"]
  /\ blob = [w \in Writer |-> None]
  /\ fd = [w \in Writer |-> None]
  /\ done = [w \in Writer |-> 0]

\* put: an object that is there is taken as it is.
LookUp(w, c) ==
  /\ at[w] = "idle"
  /\ c \in Wants[w]
  /\ blob' = [blob EXCEPT ![w] = c]
  /\ at' = [at EXCEPT ![w] = IF obj[c] = None THEN "create" ELSE "record"]
  /\ UNCHANGED <<disk, tmp, obj, rows, fd, done>>

\* File::create opens the temporary name and truncates what it points to.
Create(w) ==
  LET c == blob[w] IN
  /\ at[w] = "create"
  /\ \/ /\ tmp[c] # None
        /\ disk' = [disk EXCEPT ![tmp[c]] = {}]
        /\ fd' = [fd EXCEPT ![w] = tmp[c]]
        /\ UNCHANGED tmp
     \/ /\ tmp[c] = None
        /\ Len(disk) < MaxFiles
        /\ disk' = Append(disk, {})
        /\ tmp' = [tmp EXCEPT ![c] = Len(disk) + 1]
        /\ fd' = [fd EXCEPT ![w] = Len(disk) + 1]
  /\ at' = [at EXCEPT ![w] = "write"]
  /\ done' = [done EXCEPT ![w] = 0]
  /\ UNCHANGED <<obj, rows, blob>>

\* write_all, part by part, at the writer's own offset.
Write(w) ==
  /\ at[w] = "write"
  /\ done[w] < Size
  /\ disk' = [disk EXCEPT ![fd[w]] = @ \cup {done[w] + 1}]
  /\ done' = [done EXCEPT ![w] = @ + 1]
  /\ UNCHANGED <<tmp, obj, rows, at, blob, fd>>

\* The file is moved before everything is written.
RenameEarly(w) ==
  LET c == blob[w] IN
  /\ at[w] = "write"
  /\ tmp[c] # None
  /\ obj' = [obj EXCEPT ![c] = tmp[c]]
  /\ tmp' = [tmp EXCEPT ![c] = None]
  /\ at' = [at EXCEPT ![w] = "record"]
  /\ UNCHANGED <<disk, rows, blob, fd, done>>

\* rename moves whatever the temporary name points to over the object name;
\* when another writer moved it away, put returns an error.
Rename(w) ==
  LET c == blob[w] IN
  /\ at[w] = "write"
  /\ done[w] = Size
  /\ IF tmp[c] = None
     THEN /\ at' = [at EXCEPT ![w] = "idle"]
          /\ UNCHANGED <<obj, tmp>>
     ELSE /\ obj' = [obj EXCEPT ![c] = tmp[c]]
          /\ tmp' = [tmp EXCEPT ![c] = None]
          /\ at' = [at EXCEPT ![w] = "record"]
  /\ UNCHANGED <<disk, rows, blob, fd, done>>

\* Store::put_artifact inserts the row once put has returned the hash.
Record(w) ==
  /\ at[w] = "record"
  /\ rows' = rows \cup {blob[w]}
  /\ at' = [at EXCEPT ![w] = "idle"]
  /\ UNCHANGED <<disk, tmp, obj, blob, fd, done>>

\* A system call fails, or the process dies: files stay as they are.
Fail(w) ==
  /\ at[w] # "idle"
  /\ at' = [at EXCEPT ![w] = "idle"]
  /\ UNCHANGED <<disk, tmp, obj, rows, blob, fd, done>>

CasNext ==
  \E w \in Writer :
    \/ \E c \in Content : LookUp(w, c)
    \/ Create(w) \/ Write(w) \/ Rename(w) \/ Record(w) \/ Fail(w)

CasSpec == CasInit /\ [][CasNext]_casVars
-----------------------------------------------------------------------------
(* Properties. *)

Whole(f) == disk[f] = Part

\* read_artifact of a row returns the content the row's hash names: neither a
\* writer that died half way nor what it left behind tears an object.
RowsAreWhole == \A c \in rows : obj[c] # None /\ Whole(obj[c])

-----------------------------------------------------------------------------
(* The inductive invariant, for writers that share no content. *)

\* Every name and every open file is some file, no file has two names, and a
\* temporary file is known to the one writer that wants its content.
CasInv ==
  /\ CasTypeOK
  /\ \A c \in Content :
       /\ tmp[c] # None => tmp[c] \in 1..Len(disk)
       /\ obj[c] # None => obj[c] \in 1..Len(disk) /\ Whole(obj[c])
       /\ \A d \in Content :
            /\ tmp[c] # None => tmp[c] # obj[d]
            /\ tmp[c] # None /\ tmp[c] = tmp[d] => c = d
  /\ \A w \in Writer :
       /\ at[w] # "idle" => blob[w] \in Wants[w]
       /\ at[w] = "create" => obj[blob[w]] = None
       /\ at[w] = "write" =>
            /\ obj[blob[w]] = None
            /\ tmp[blob[w]] = fd[w] /\ fd[w] # None
            /\ disk[fd[w]] = 1..done[w]
       /\ at[w] = "record" => obj[blob[w]] # None
  /\ \A c \in rows : obj[c] # None
=============================================================================
