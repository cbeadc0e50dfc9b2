----------------------------- MODULE BlobStore ------------------------------
(***************************************************************************)
(* How one content-addressed blob reaches the disk (blobs.rs write_blob)   *)
(* and when the files rows that refer to it are committed (workers.rs      *)
(* file_fetch, theme_crawl).  Several tasks may hold the same bytes under  *)
(* different row keys, so they write the same target through the same      *)
(* temporary name, with nothing but the file system between them.          *)
(*                                                                         *)
(* The file system has two levels: what processes see (names, data) and    *)
(* what is sure to outlive a loss of power (kept, safe).  A killed process *)
(* loses neither.  The bytes are Chunks pieces, written in order.          *)
(*                                                                         *)
(* A repair of old rows (db.rs migrate) may free the blob: after its       *)
(* commit it looks whether a row refers to the blob, and if none does      *)
(* unlinks it.  It runs in whichever process opened the database first, so *)
(* beside the tasks of a daemon that opened it next.                       *)
(***************************************************************************)
EXTENDS Naturals

CONSTANTS
  Tasks,       \* tasks saving the same bytes, each under a row key of its own
  Chunks,      \* pieces the bytes are written in
  MaxFiles,    \* bound: files that exist at a time
  MaxMishaps   \* bound: kills, losses of power, I/O errors and the repair

ASSUME BlobAssumption ==
  /\ Chunks \in Nat \ {0}
  /\ {MaxFiles, MaxMishaps} \subseteq Nat

VARIABLES
  names,     \* directory: the temporary name and the target, to inodes
  data,      \* [Inodes -> the chunks in the file]
  kept,      \* the directory as it is on disk
  safe,      \* [Inodes -> chunks on disk]
  task,      \* [Tasks -> where write_blob is, its open file, chunks written]
  saved,     \* tasks whose files row is committed with the blob's hash
  gc,        \* where the collector is
  mishaps,   \* number of mishaps so far (bounded by MaxMishaps)
  raced,     \* history: two tasks were inside write_blob at a time
  late,      \* history: a save was under way as the collector looked at the
             \* rows and found none, or began before it unlinked the blob
  undone     \* history: where mishaps struck: steps they cut off

vars == <<names, data, kept, safe, task, saved, gc, mishaps, raced, late, undone>>

Whole == 1 .. Chunks
Inodes == 1 .. MaxFiles
NoFile == 0      \* an absent directory entry
Directory == [tmp : Inodes \cup {NoFile}, dest : Inodes \cup {NoFile}]
Empty == [tmp |-> NoFile, dest |-> NoFile]
Rest == [at |-> "rest", fd |-> NoFile, n |-> 0]
Step == {"create", "write", "sync", "rename", "dirsync"}
Busy(w) == task[w].at \in Step

Init ==
  /\ names = Empty /\ kept = Empty
  /\ data = [i \in Inodes |-> {}] /\ safe = data
  /\ task = [w \in Tasks |-> Rest]
  /\ saved = {} /\ gc = "before" /\ mishaps = 0
  /\ raced = FALSE /\ late = FALSE /\ undone = {}

-----------------------------------------------------------------------------
(* write_blob, one file-system call at a time.                             *)

Goto(w, step) == task' = [task EXCEPT ![w].at = step]

(* dest.exists(): an existing target ends the call at once.                *)
Enter(w) ==
  /\ task[w] = Rest /\ w \notin saved
  /\ Goto(w, IF names.dest # NoFile THEN "stored" ELSE "create")
  /\ raced' = (raced \/ \E v \in Tasks : Busy(v))
  /\ late' = (late \/ gc = "unlink")
  /\ UNCHANGED <<names, data, kept, safe, saved, gc, mishaps, undone>>

Unused(i) ==
  /\ i \notin {names.tmp, names.dest, kept.tmp, kept.dest}
  /\ \A v \in Tasks : task[v].fd # i

(* File::create opens what the temporary name refers to, emptied, or a     *)
(* file of its own (which one makes no difference).                        *)
Create(w) ==
  /\ task[w].at = "create"
  /\ \E i \in Inodes :
       /\ IF names.tmp # NoFile THEN i = names.tmp
          ELSE Unused(i) /\ \A j \in Inodes : j < i => ~Unused(j)
       /\ names' = [names EXCEPT !.tmp = i]
       /\ data' = [data EXCEPT ![i] = {}]
       /\ safe' = [safe EXCEPT ![i] = {}]
       /\ task' = [task EXCEPT ![w] = [at |-> "write", fd |-> i, n |-> 0]]
  /\ UNCHANGED <<kept, saved, gc, mishaps, raced, late, undone>>

(* Faulty: write where write_all is meant.                                 *)
WrittenOnce(n) == n >= 1
WrittenAll(n) == n = Chunks

Write(w) ==
  LET n == task[w].n + 1
  IN  /\ task[w].at = "write"
      /\ data' = [data EXCEPT ![task[w].fd] = @ \cup {n}]
      /\ task' = [task EXCEPT ![w] = [at |-> IF WrittenAll(n) THEN "sync" ELSE "write",
                                      fd |-> @.fd, n |-> n]]
      /\ UNCHANGED <<names, kept, safe, saved, gc, mishaps, raced, late, undone>>

(* Faulty: no fsync before the rename.                                     *)
NotFlushed(i) == safe' = safe
Flushed(i) == safe' = [safe EXCEPT ![i] = data[i]]

Sync(w) ==
  /\ task[w].at = "sync"
  /\ Flushed(task[w].fd)
  /\ task' = [task EXCEPT ![w] = [Rest EXCEPT !.at = "rename"]]
  /\ UNCHANGED <<names, data, kept, saved, gc, mishaps, raced, late, undone>>

(* Faulty: the target is linked and the temporary name stays.              *)
LinkInsteadOfRename(w) ==
  /\ task[w].at = "rename"
  /\ names' = IF names.tmp = NoFile THEN names ELSE [names EXCEPT !.dest = names.tmp]
  /\ Goto(w, IF names.tmp = NoFile THEN "rest" ELSE "dirsync")
  /\ UNCHANGED <<data, kept, safe, saved, gc, mishaps, raced, late, undone>>

(* The temporary name, whatever file it refers to by now, becomes the      *)
(* target; with the name gone the call fails, and the job is retried.      *)
Rename(w) ==
  /\ task[w].at = "rename"
  /\ names' = IF names.tmp = NoFile THEN names
              ELSE [tmp |-> NoFile, dest |-> names.tmp]
  /\ Goto(w, IF names.tmp = NoFile THEN "rest" ELSE "dirsync")
  /\ UNCHANGED <<data, kept, safe, saved, gc, mishaps, raced, late, undone>>

EntryFlushed == kept' = names

DirSync(w) ==
  /\ task[w].at = "dirsync"
  /\ EntryFlushed
  /\ Goto(w, "stored")
  /\ UNCHANGED <<names, data, safe, saved, gc, mishaps, raced, late, undone>>

(* The job completes: its files row refers to the blob from here on.       *)
CommitRow(w) ==
  /\ task[w].at = "stored"
  /\ saved' = saved \cup {w}
  /\ task' = [task EXCEPT ![w] = Rest]
  /\ UNCHANGED <<names, data, kept, safe, gc, mishaps, raced, late, undone>>

-----------------------------------------------------------------------------
(* The repair and the collector.                                           *)

(* Rows that were saved are reset or deleted, perhaps not all of them.     *)
Repair ==
  /\ gc = "before"
  /\ mishaps < MaxMishaps /\ mishaps' = mishaps + 1
  /\ \E rows \in SUBSET saved \ {{}} : saved' = saved \ rows
  /\ gc' = "check"
  /\ UNCHANGED <<names, data, kept, safe, task, raced, late, undone>>

(* Faulty: no second look at the rows.                                     *)
AnyBlob == TRUE
Unreferred == saved = {}

Recheck ==
  /\ gc = "check"
  /\ gc' = IF Unreferred THEN "unlink" ELSE "over"
  /\ late' = (Unreferred /\ \E w \in Tasks : task[w] # Rest)
  /\ UNCHANGED <<names, data, kept, safe, task, saved, mishaps, raced, undone>>

Unlink ==
  /\ gc = "unlink"
  /\ names' = [names EXCEPT !.dest = NoFile]
  /\ gc' = "over"
  /\ UNCHANGED <<data, kept, safe, task, saved, mishaps, raced, late, undone>>

-----------------------------------------------------------------------------
(* Mishaps.                                                                *)

Mishap(struck) ==
  /\ mishaps < MaxMishaps
  /\ mishaps' = mishaps + 1
  /\ undone' = undone \cup ({task[w].at : w \in struck} \cap Step)
  /\ task' = [w \in Tasks |-> IF w \in struck THEN Rest ELSE task[w]]
  /\ UNCHANGED <<saved, raced, late>>

(* A call returns an error: the job fails and is retried.                  *)
IoError(w) ==
  /\ Busy(w)
  /\ Mishap({w})
  /\ UNCHANGED <<names, data, kept, safe, gc>>

(* The daemon dies, or the completing transactions roll back.              *)
Kill ==
  /\ \E w \in Tasks : task[w] # Rest
  /\ Mishap(Tasks)
  /\ UNCHANGED <<names, data, kept, safe, gc>>

(* Power is lost: the directory is the old or the new one, and a file it   *)
(* refers to keeps at least what was flushed.                              *)
PowerLoss ==
  /\ Mishap(Tasks)
  /\ names' \in {kept, names}
  /\ data' \in [Inodes -> SUBSET Whole]
  /\ \A i \in Inodes :
       IF i \in {names'.tmp, names'.dest}
       THEN safe[i] \subseteq data'[i] /\ data'[i] \subseteq data[i]
       ELSE data'[i] = {}
  /\ kept' = names' /\ safe' = data'
  /\ gc' = IF gc = "before" THEN gc ELSE "over"

-----------------------------------------------------------------------------

Next ==
  \/ \E w \in Tasks :
       \/ Enter(w) \/ Create(w) \/ Write(w) \/ Sync(w) \/ Rename(w) \/ DirSync(w)
       \/ CommitRow(w) \/ IoError(w)
  \/ Repair \/ Recheck \/ Unlink
  \/ Kill \/ PowerLoss

Spec == Init /\ [][Next]_vars

-----------------------------------------------------------------------------
(* Properties.                                                             *)

(* The two names never refer to one file.                                  *)
TypeOK ==
  /\ {names, kept} \subseteq Directory
  /\ names.tmp # NoFile => names.tmp # names.dest
  /\ {data, safe} \subseteq [Inodes -> SUBSET Whole]
  /\ \A w \in Tasks :
       /\ task[w].at \in Step \cup {"rest", "stored"}
       /\ task[w].n \in 0 .. Chunks
       /\ task[w].at \in {"write", "sync"} <=> task[w].fd \in Inodes
  /\ saved \subseteq Tasks
  /\ gc \in {"before", "check", "unlink", "over"}

(* As long as no two tasks were inside write_blob at a time, the target is *)
(* absent or has all the bytes, whatever was killed, failed or lost power  *)
(* half-way, and a retry finds its predecessor's leftovers (blobs.rs: an   *)
(* existing target short-circuits, so it must be complete).                *)
WholeUnlessRaced ==
  ~raced /\ names.dest # NoFile => data[names.dest] = Whole

(* Tasks racing through the same temporary name truncate each other's      *)
(* file and move it away half written, but unless one of them is cut off   *)
(* the target is whole again once they are through.                        *)
WholeWhenSettled ==
  (undone = {} /\ (\A w \in Tasks : ~Busy(w)) /\ names.dest # NoFile)
    => data[names.dest] = Whole

(* The blob is on disk, name and bytes.                                    *)
OnDisk ==
  \A entry \in {names.dest, kept.dest} : entry # NoFile /\ safe[entry] = Whole

(* A committed row's blob is on disk, though a repair may free it, though  *)
(* power is lost and though saves were under way during the repair, if the *)
(* blob's writers never overlapped and none was cut off between the rename *)
(* and the fsync of the directory (blobs.rs write_blob).  What a row       *)
(* committed before the collector's look relies on stays; a save still     *)
(* under way then may lose its blob (db.rs migrate), which is left out.    *)
OnDiskUndisturbed ==
  saved # {} /\ ~raced /\ ~late /\ "dirsync" \notin undone => OnDisk

=============================================================================
