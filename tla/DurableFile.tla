----------------------------- MODULE DurableFile -----------------------------
(***************************************************************************)
(* What a POSIX file system promises for one path of the state directory.   *)
(* A file is a record: `seen` is what a process reads now; `now` holds what *)
(* the inode behind the path may contain after a power loss; `past` holds   *)
(* what the path may still lead to because the directory that names the     *)
(* inode was not synchronised.  NoFile is the absent file and Torn a file   *)
(* that is there but holds only a part of what was meant for it.            *)
(***************************************************************************)
CONSTANTS NoFile, Torn

At(v) == [seen |-> v, now |-> {v}, past |-> {v}]

\* open(O_CREAT | O_EXCL) of a path that is not there.
Created(f) == [f EXCEPT !.seen = Torn, !.now = {Torn}]

\* write: the data reach the disk in part, whole, or not at all.
Written(f, v) == [f EXCEPT !.seen = v, !.now = {Torn, v}]

\* fsync of the file.
Synced(f) == [f EXCEPT !.now = {f.seen}]

\* link or rename of an already synchronised temporary file onto the path.
Placed(f, v) == [seen |-> v, now |-> {v}, past |-> f.past \cup f.now]

\* unlink.
Unlinked(f) == [seen |-> NoFile, now |-> {NoFile}, past |-> f.past \cup f.now]

\* fsync of the directory.
DirSynced(f) == [f EXCEPT !.past = f.now]

\* Everything a power loss may leave at the path.
Survivors(f) == f.now \cup f.past
==============================================================================
