----------------------------- MODULE BlobProofs -----------------------------
(* Theorems about BlobStore, for every number of tasks, chunks and files.  *)
EXTENDS BlobStore, TLAPS

-----------------------------------------------------------------------------
(* The inductive invariant.                                                *)

(* A file is open between its creation and its fsync.                      *)
Task == {r \in [at : Step \cup {"rest", "stored"}, fd : Inodes \cup {NoFile}, n : 0 .. Chunks] :
           /\ r.at \in {"write", "sync"} <=> r.fd \in Inodes
           /\ r.at = "write" => r.n < Chunks
           /\ r.at = "sync" => r.n = Chunks}

(* As TypeOK, and the directory on disk is one as well.                    *)
Types ==
  /\ names \in Directory /\ kept \in Directory
  /\ names.tmp # NoFile => names.tmp # names.dest
  /\ kept.tmp # NoFile => kept.tmp # kept.dest
  /\ data \in [Inodes -> SUBSET Whole] /\ safe \in [Inodes -> SUBSET Whole]
  /\ task \in [Tasks -> Task]
  /\ saved \subseteq Tasks
  /\ gc \in {"before", "check", "unlink", "over"}
  /\ late \in BOOLEAN /\ raced \in BOOLEAN

(* The only writer fills a file that no target refers to.                  *)
OneWriter == \A v, w \in Tasks : Busy(v) /\ Busy(w) => v = w
Progress(w) ==
  /\ task[w].at = "write" =>
       task[w].fd = names.tmp /\ data[names.tmp] = 1 .. task[w].n
  /\ task[w].at = "sync" => task[w].fd = names.tmp /\ data[names.tmp] = Whole
  /\ task[w].at = "rename" =>
       names.tmp \in Inodes /\ data[names.tmp] = Whole /\ safe[names.tmp] = Whole
Targets ==
  /\ names.tmp # NoFile => names.tmp # kept.dest
  /\ names.dest # NoFile => data[names.dest] = Whole /\ safe[names.dest] = Whole
  /\ kept.dest # NoFile => safe[kept.dest] = Whole
Undisturbed == ~raced => OneWriter /\ Targets /\ \A w \in Tasks : Progress(w)

(* Once the collector has found no row, nobody is under way and no row is  *)
(* committed, or that is on record.                                        *)
Collector ==
  /\ gc = "unlink" /\ ~late => saved = {} /\ \A w \in Tasks : task[w] = Rest
  /\ gc \in {"before", "check"} => ~late

(* A writer is under way only while no row or task relies on the blob; a   *)
(* target's directory entry is on disk or its writer is about to sync it.  *)
Quiet == ~raced /\ ~late /\ "dirsync" \notin undone
Relied == saved # {} \/ \E w \in Tasks : task[w].at = "stored"
Durable ==
  Quiet =>
    /\ \A v \in Tasks : Busy(v) => ~Relied
    /\ \A v \in Tasks : task[v].at = "dirsync" => names.dest # NoFile
    /\ Relied => names.dest # NoFile
    /\ names.dest # NoFile /\ (\A v \in Tasks : task[v].at # "dirsync")
         => kept.dest = names.dest

(* A file with a name is whole, or somebody who has it open has yet to     *)
(* write what it lacks, unless mishaps cut somebody off.                   *)
Named(i) == i \in {names.tmp, names.dest, kept.tmp, kept.dest}
WholeFile(i) == data[i] = Whole /\ safe[i] = Whole
Filling(w, i) == task[w].fd = i /\ 1 .. task[w].n \subseteq data[i]
Filled ==
  undone = {} =>
    \A i \in Inodes : Named(i) => WholeFile(i) \/ \E w \in Tasks : Filling(w, i)

Inv == Types /\ Undisturbed /\ Collector /\ Durable /\ Filled

(* What the assumptions on the constants come to.                          *)
LEMMA Facts == Chunks \in Nat \ {0} /\ MaxFiles \in Nat /\ NoFile \notin Inodes
BY BlobAssumption DEF NoFile, Inodes

(* A task at rest is typed.                                                *)
LEMMA RestTyped == Rest \in Task
BY Facts DEF Rest, Task, Step

(* The invariant holds at first: no file, no task under way.              *)
LEMMA InitInv == Init => Inv
<1> SUFFICES ASSUME Init
             PROVE  Inv
  OBVIOUS
<1>1. /\ names = Empty /\ kept = Empty /\ task = [w \in Tasks |-> Rest]
      /\ data = [i \in Inodes |-> {}] /\ safe = [i \in Inodes |-> {}]
      /\ saved = {} /\ gc = "before" /\ raced = FALSE /\ late = FALSE
  BY DEF Init
<1>2. Rest \in Task /\ Empty \in Directory /\ Empty.tmp = NoFile /\ Empty.dest = NoFile
  BY Facts, RestTyped DEF Empty, Directory
<1>3. task \in [Tasks -> Task]
  BY <1>1, <1>2
<1>4. Types
  BY <1>1, <1>2, <1>3 DEF Types
<1>5. \A w \in Tasks : task[w].at = "rest"
  BY <1>1 DEF Rest
<1>6. Undisturbed
  BY <1>1, <1>2, <1>5 DEF Undisturbed, OneWriter, Targets, Progress, Busy, Step
<1>7. Collector
  BY <1>1 DEF Collector
<1>8. Durable
  BY <1>1, <1>2, <1>5 DEF Durable, Relied, Busy, Step
<1>9. Filled
  BY <1>1, <1>2, Facts DEF Filled, Named
<1>10. QED
  BY <1>4, <1>6, <1>7, <1>8, <1>9 DEF Inv

-----------------------------------------------------------------------------
(* Types.                                                                  *)

(* Every step keeps the types.                                             *)
LEMMA StepTypes == Types /\ [Next]_vars => Types'
<1> SUFFICES ASSUME Types, [Next]_vars
             PROVE  Types'
  OBVIOUS
<1> USE Facts
<1>1. CASE UNCHANGED vars
  BY <1>1 DEF vars, Types
<1>2. ASSUME NEW w \in Tasks, Enter(w)
      PROVE  Types'
  <2>1. PICK s \in {"stored", "create"} : task' = [task EXCEPT ![w].at = s]
    BY <1>2 DEF Enter, Goto
  <2>2. [task[w] EXCEPT !.at = s] \in Task
    BY <1>2, <2>1 DEF Enter, Rest, Task, Step
  <2>3. task' \in [Tasks -> Task]
    BY <2>1, <2>2 DEF Types
  <2>4. QED
    BY <1>2, <2>3 DEF Enter, Types
<1>3. ASSUME NEW w \in Tasks, Create(w)
      PROVE  Types'
  <2>1. PICK i \in Inodes :
          /\ IF names.tmp # NoFile THEN i = names.tmp ELSE Unused(i)
          /\ names' = [names EXCEPT !.tmp = i]
          /\ data' = [data EXCEPT ![i] = {}]
          /\ safe' = [safe EXCEPT ![i] = {}]
          /\ task' = [task EXCEPT ![w] = [at |-> "write", fd |-> i, n |-> 0]]
    BY <1>3 DEF Create
  <2>2. names'.tmp = i /\ names'.dest = names.dest /\ names' \in Directory
    BY <2>1 DEF Types, Directory
  <2>3. i # names.dest
    BY <2>1 DEF Types, Unused
  <2>4. [at |-> "write", fd |-> i, n |-> 0] \in Task
    BY DEF Task, Step
  <2>5. task' \in [Tasks -> Task]
    BY <2>1, <2>4 DEF Types
  <2>6. QED
    BY <1>3, <2>1, <2>2, <2>3, <2>5 DEF Create, Types
<1>4. ASSUME NEW w \in Tasks, Write(w)
      PROVE  Types'
  <2> DEFINE n == task[w].n + 1
             r == [at |-> IF n = Chunks THEN "sync" ELSE "write", fd |-> task[w].fd, n |-> n]
  <2>1. task[w] \in Task /\ task[w].at = "write"
    BY <1>4 DEF Write, Types
  <2>2. task[w].fd \in Inodes /\ n \in Whole
    BY <2>1 DEF Task, Whole
  <2>3. /\ data' = [data EXCEPT ![task[w].fd] = @ \cup {n}]
        /\ task' = [task EXCEPT ![w] = r]
    BY <1>4, <2>1 DEF Write, WrittenAll, Types
  <2>4. r \in Task
    BY <2>2 DEF Task, Step, Whole
  <2> HIDE DEF n, r
  <2>5. data' \in [Inodes -> SUBSET Whole]
    BY <2>2, <2>3 DEF Types
  <2>6. task' \in [Tasks -> Task]
    BY <2>3, <2>4 DEF Types
  <2>7. QED
    BY <1>4, <2>5, <2>6 DEF Write, Types
<1>5. ASSUME NEW w \in Tasks, Sync(w)
      PROVE  Types'
  <2>1. [Rest EXCEPT !.at = "rename"] \in Task
    BY DEF Rest, Task, Step, NoFile
  <2>2. task' \in [Tasks -> Task]
    BY <1>5, <2>1 DEF Sync, Types
  <2>3. safe' \in [Inodes -> SUBSET Whole]
    BY <1>5 DEF Sync, Flushed, Types
  <2>4. QED
    BY <1>5, <2>2, <2>3 DEF Sync, Types
<1>6. ASSUME NEW w \in Tasks, Rename(w)
      PROVE  Types'
  <2>1. names' \in Directory /\ (names'.tmp # NoFile => names'.tmp # names'.dest)
    BY <1>6 DEF Rename, Types, Directory
  <2>2. PICK s \in {"rest", "dirsync"} : task' = [task EXCEPT ![w].at = s]
    BY <1>6 DEF Rename, Goto
  <2>3. [task[w] EXCEPT !.at = s] \in Task
    BY <1>6 DEF Rename, Types, Task, Step
  <2>4. task' \in [Tasks -> Task]
    BY <2>2, <2>3 DEF Types
  <2>5. QED
    BY <1>6, <2>1, <2>4 DEF Rename, Types
<1>7. ASSUME NEW w \in Tasks, DirSync(w)
      PROVE  Types'
  <2>1. [task[w] EXCEPT !.at = "stored"] \in Task
    BY <1>7 DEF DirSync, Types, Task, Step
  <2>2. task' \in [Tasks -> Task]
    BY <1>7, <2>1 DEF DirSync, Goto, Types
  <2>3. QED
    BY <1>7, <2>2 DEF DirSync, EntryFlushed, Types
<1>8. ASSUME NEW w \in Tasks, CommitRow(w)
      PROVE  Types'
  BY <1>8, RestTyped DEF CommitRow, Types
<1>9. CASE Repair
  BY <1>9 DEF Repair, Types
<1>10. CASE Recheck \/ Unlink
  BY <1>10 DEF Recheck, Unlink, Types, Directory
<1>11. ASSUME NEW struck, Mishap(struck)
       PROVE  task' \in [Tasks -> Task] /\ UNCHANGED <<saved, late, raced>>
  <2>1. \A w \in Tasks : (IF w \in struck THEN Rest ELSE task[w]) \in Task
    BY RestTyped DEF Types
  <2>2. QED
    BY <1>11, <2>1 DEF Mishap
<1>12. ASSUME NEW w \in Tasks, IoError(w)
       PROVE  Types'
  <2>1. Mishap({w}) /\ UNCHANGED <<names, data, kept, safe, gc>>
    BY <1>12 DEF IoError
  <2>2. QED
    BY <1>11, <2>1 DEF Types
<1>13. CASE Kill
  <2>1. Mishap(Tasks) /\ UNCHANGED <<names, data, kept, safe, gc>>
    BY <1>13 DEF Kill
  <2>2. QED
    BY <1>11, <2>1 DEF Types
<1>14. CASE PowerLoss
  <2>1. task' \in [Tasks -> Task] /\ UNCHANGED <<saved, late, raced>>
    BY <1>11, <1>14 DEF PowerLoss
  <2>2. QED
    BY <1>14, <2>1 DEF PowerLoss, Types
<1>15. QED
  BY <1>1, <1>2, <1>3, <1>4, <1>5, <1>6, <1>7, <1>8, <1>9, <1>10, <1>12, <1>13, <1>14 DEF Next

-----------------------------------------------------------------------------
(* As long as no writers overlap.                                          *)

(* When the one writer moves, it stays the one, and there is nothing to    *)
(* show of the others.                                                     *)
LEMMA Alone ==
  ASSUME OneWriter, NEW w \in Tasks, Busy(w),
         \A v \in Tasks \ {w} : task'[v] = task[v]
  PROVE  OneWriter' /\ \A v \in Tasks \ {w} : Progress(v)'
<1>1. \A v \in Tasks \ {w} : ~Busy(v)'
  BY DEF OneWriter, Busy
<1>2. QED
  BY <1>1 DEF OneWriter, Progress, Busy, Step

(* When writers only leave, what held of those that stay still does.       *)
LEMMA Leaving ==
  ASSUME OneWriter, \A v \in Tasks : Progress(v),
         UNCHANGED <<names, data, safe>>,
         \A v \in Tasks : task'[v] = task[v] \/ ~Busy(v)'
  PROVE  OneWriter' /\ \A v \in Tasks : Progress(v)'
<1>1. \A v \in Tasks : Busy(v)' => Busy(v)
  BY DEF Busy
<1>2. OneWriter'
  BY <1>1 DEF OneWriter
<1>3. ASSUME NEW v \in Tasks
      PROVE  Progress(v)'
  <2>1. CASE task'[v] = task[v]
    BY <2>1 DEF Progress
  <2>2. CASE ~Busy(v)'
    BY <2>2 DEF Progress, Busy, Step
  <2>3. QED
    BY <2>1, <2>2
<1>4. QED
  BY <1>2, <1>3

(* A loss of power leaves a target whole.                                  *)
LEMMA PowerLossTargets ==
  ASSUME Types, Targets, PowerLoss
  PROVE  Targets'
<1>1. /\ names' = kept \/ names' = names
      /\ kept' = names' /\ safe' = data'
      /\ data' \in [Inodes -> SUBSET Whole]
      /\ \A i \in Inodes : i \in {names'.tmp, names'.dest} => safe[i] \subseteq data'[i]
  BY DEF PowerLoss
<1>2. names' \in Directory /\ (names'.tmp # NoFile => names'.tmp # names'.dest)
  BY <1>1 DEF Types
<1>3. names'.dest # NoFile => names'.dest \in Inodes /\ safe[names'.dest] = Whole
  BY <1>1, <1>2 DEF Targets, Directory
<1>4. names'.dest # NoFile => data'[names'.dest] = Whole
  BY <1>1, <1>3
<1>5. QED
  BY <1>1, <1>2, <1>4 DEF Targets

(* Every step keeps the target whole and its writer alone, unless it makes *)
(* writers overlap.                                                        *)
LEMMA StepUndisturbed == Types /\ Undisturbed /\ [Next]_vars => Undisturbed'
<1> SUFFICES ASSUME Types, Undisturbed, [Next]_vars, ~raced'
             PROVE  OneWriter' /\ Targets' /\ \A v \in Tasks : Progress(v)'
  BY DEF Undisturbed
<1> USE Facts
<1>0. ~raced /\ OneWriter /\ Targets /\ \A v \in Tasks : Progress(v)
  <2>1. raced => raced'
    BY DEF Next, vars, Types, Enter, Create, Write, Sync, Rename, DirSync, CommitRow, IoError,
           Repair, Recheck, Unlink, Kill, PowerLoss, Mishap
  <2>2. QED
    BY <2>1 DEF Undisturbed
<1>1. CASE UNCHANGED vars
  BY <1>0, <1>1 DEF vars, OneWriter, Targets, Progress, Busy
<1>2. ASSUME NEW w \in Tasks, Enter(w)
      PROVE  OneWriter' /\ Targets' /\ \A v \in Tasks : Progress(v)'
  <2>1. \A v \in Tasks : ~Busy(v)
    BY <1>2 DEF Enter, Types
  <2>2. \A v \in Tasks \ {w} : task'[v] = task[v]
    BY <1>2 DEF Enter, Goto, Types
  <2>3. task'[w].at \in {"stored", "create"}
    BY <1>2, RestTyped DEF Enter, Goto, Types, Rest
  <2>4. OneWriter'
    BY <2>1, <2>2 DEF OneWriter, Busy
  <2>5. \A v \in Tasks : Progress(v)'
    BY <2>1, <2>2, <2>3 DEF Progress, Busy, Step
  <2>6. Targets'
    BY <1>0, <1>2 DEF Enter, Targets
  <2>7. QED
    BY <2>4, <2>5, <2>6
<1>3. ASSUME NEW w \in Tasks, Create(w)
      PROVE  OneWriter' /\ Targets' /\ \A v \in Tasks : Progress(v)'
  <2>1. PICK i \in Inodes :
          /\ IF names.tmp # NoFile THEN i = names.tmp ELSE Unused(i)
          /\ names' = [names EXCEPT !.tmp = i]
          /\ data' = [data EXCEPT ![i] = {}]
          /\ safe' = [safe EXCEPT ![i] = {}]
          /\ task' = [task EXCEPT ![w] = [at |-> "write", fd |-> i, n |-> 0]]
    BY <1>3 DEF Create
  <2>2. names'.tmp = i /\ names'.dest = names.dest /\ kept' = kept
    BY <1>3, <2>1 DEF Create, Types, Directory
  <2>3. i # names.dest /\ i # kept.dest
    BY <1>0, <2>1 DEF Types, Targets, Unused
  <2>4. \A j \in Inodes \ {i} : data'[j] = data[j] /\ safe'[j] = safe[j]
    BY <2>1 DEF Types
  <2>5. data'[i] = {}
    BY <2>1 DEF Types
  <2>6. /\ task'[w].at = "write" /\ task'[w].fd = i /\ task'[w].n = 0
        /\ \A v \in Tasks \ {w} : task'[v] = task[v]
    BY <2>1 DEF Types
  <2>7. OneWriter' /\ \A v \in Tasks \ {w} : Progress(v)'
    BY <1>0, <1>3, <2>6, Alone DEF Create, Busy, Step
  <2>8. Progress(w)'
    BY <2>2, <2>5, <2>6 DEF Progress
  <2>9. Targets'
    BY <1>0, <2>2, <2>3, <2>4 DEF Targets, Types, Directory
  <2>10. QED
    BY <2>7, <2>8, <2>9
<1>4. ASSUME NEW w \in Tasks, Write(w)
      PROVE  OneWriter' /\ Targets' /\ \A v \in Tasks : Progress(v)'
  <2> DEFINE k == task[w].n
             i == names.tmp
  <2>1. task[w].at = "write" /\ task[w] \in Task /\ UNCHANGED <<names, kept, safe>>
    BY <1>4 DEF Write, Types
  <2>2. k \in Nat /\ k < Chunks /\ task[w].fd = i /\ i \in Inodes /\ data[i] = 1 .. k
    BY <1>0, <2>1 DEF Progress, Task
  <2>3. data' = [data EXCEPT ![i] = data[i] \cup {k + 1}]
    BY <1>4, <2>2 DEF Write
  <2>4. data'[i] = 1 .. k + 1 /\ \A j \in Inodes \ {i} : data'[j] = data[j]
    <3>1. (1 .. k) \cup {k + 1} = 1 .. k + 1
      BY <2>2
    <3>2. QED
      BY <2>2, <2>3, <3>1 DEF Types
  <2>5. /\ task'[w].at = IF k + 1 = Chunks THEN "sync" ELSE "write"
        /\ task'[w].fd = i /\ task'[w].n = k + 1
        /\ \A v \in Tasks \ {w} : task'[v] = task[v]
    BY <1>4, <2>1, <2>2 DEF Write, WrittenAll, Types, Task
  <2>6. OneWriter' /\ \A v \in Tasks \ {w} : Progress(v)'
    BY <1>0, <2>1, <2>5, Alone DEF Busy, Step
  <2>7. Progress(w)'
    BY <2>1, <2>2, <2>4, <2>5 DEF Progress, Whole
  <2>8. Targets'
    BY <1>0, <2>1, <2>2, <2>4 DEF Targets, Types, Directory
  <2>9. QED
    BY <2>6, <2>7, <2>8
<1>5. ASSUME NEW w \in Tasks, Sync(w)
      PROVE  OneWriter' /\ Targets' /\ \A v \in Tasks : Progress(v)'
  <2> DEFINE i == names.tmp
  <2>1. task[w].at = "sync" /\ UNCHANGED <<names, kept, data>> /\ task[w] \in Task
    BY <1>5 DEF Sync, Types
  <2>2. task[w].fd = i /\ i \in Inodes /\ data[i] = Whole
    BY <1>0, <2>1 DEF Progress, Task
  <2>3. safe'[i] = Whole /\ \A j \in Inodes \ {i} : safe'[j] = safe[j]
    BY <1>5, <2>2 DEF Sync, Flushed, Types
  <2>4. task'[w].at = "rename" /\ \A v \in Tasks \ {w} : task'[v] = task[v]
    BY <1>5 DEF Sync, Rest, Types
  <2>5. OneWriter' /\ \A v \in Tasks \ {w} : Progress(v)'
    BY <1>0, <2>1, <2>4, Alone DEF Busy, Step
  <2>6. Progress(w)'
    BY <2>1, <2>2, <2>3, <2>4 DEF Progress
  <2>7. Targets'
    BY <1>0, <2>1, <2>3 DEF Targets, Types, Directory
  <2>8. QED
    BY <2>5, <2>6, <2>7
<1>6. ASSUME NEW w \in Tasks, Rename(w)
      PROVE  OneWriter' /\ Targets' /\ \A v \in Tasks : Progress(v)'
  <2>1. task[w].at = "rename" /\ UNCHANGED <<data, kept, safe>>
    BY <1>6 DEF Rename
  <2>2. names.tmp \in Inodes /\ data[names.tmp] = Whole /\ safe[names.tmp] = Whole
    BY <1>0, <2>1 DEF Progress
  <2>3. names'.tmp = NoFile /\ names'.dest = names.tmp
    BY <1>6, <2>2 DEF Rename
  <2>4. task'[w].at = "dirsync" /\ \A v \in Tasks \ {w} : task'[v] = task[v]
    <3>1. task' = [task EXCEPT ![w].at = "dirsync"]
      BY <1>6, <2>2 DEF Rename, Goto
    <3>2. QED
      BY <3>1 DEF Types, Task
  <2>5. OneWriter' /\ \A v \in Tasks \ {w} : Progress(v)'
    BY <1>0, <2>1, <2>4, Alone DEF Busy, Step
  <2>6. Progress(w)'
    BY <2>4 DEF Progress
  <2>7. Targets'
    BY <1>0, <2>1, <2>2, <2>3 DEF Targets
  <2>8. QED
    BY <2>5, <2>6, <2>7
<1>7. ASSUME NEW w \in Tasks, DirSync(w)
      PROVE  OneWriter' /\ Targets' /\ \A v \in Tasks : Progress(v)'
  <2>1. UNCHANGED <<names, data, safe>> /\ kept' = names
    BY <1>7 DEF DirSync, EntryFlushed
  <2>2. task'[w].at = "stored" /\ \A v \in Tasks \ {w} : task'[v] = task[v]
    BY <1>7 DEF DirSync, Goto, Types, Task
  <2>3. OneWriter' /\ \A v \in Tasks : Progress(v)'
    BY <1>0, <2>1, <2>2, Leaving DEF Busy, Step
  <2>4. Targets'
    BY <1>0, <2>1 DEF Targets, Types
  <2>5. QED
    BY <2>3, <2>4
<1>8. ASSUME NEW w \in Tasks, CommitRow(w)
      PROVE  OneWriter' /\ Targets' /\ \A v \in Tasks : Progress(v)'
  <2>1. UNCHANGED <<names, data, kept, safe>>
    BY <1>8 DEF CommitRow
  <2>2. \A v \in Tasks : task'[v] = task[v] \/ ~Busy(v)'
    BY <1>8 DEF CommitRow, Types, Rest, Busy, Step
  <2>3. QED
    BY <1>0, <2>1, <2>2, Leaving DEF Targets
<1>9. CASE Repair \/ Recheck
  BY <1>0, <1>9 DEF Repair, Recheck, OneWriter, Targets, Progress, Busy
<1>10. CASE Unlink
  <2>1. UNCHANGED <<data, kept, safe, task>>
    BY <1>10 DEF Unlink
  <2>2. names'.tmp = names.tmp /\ names'.dest = NoFile
    BY <1>10 DEF Unlink, Types, Directory
  <2>3. QED
    BY <1>0, <2>1, <2>2 DEF OneWriter, Targets, Progress, Busy
<1>11. ASSUME NEW struck, Mishap(struck)
       PROVE  \A v \in Tasks : task'[v] = task[v] \/ ~Busy(v)'
  BY <1>11 DEF Mishap, Rest, Busy, Step
<1>12. ASSUME NEW w \in Tasks, IoError(w)
       PROVE  OneWriter' /\ Targets' /\ \A v \in Tasks : Progress(v)'
  <2>1. UNCHANGED <<names, data, kept, safe>>
    BY <1>12 DEF IoError
  <2>2. QED
    BY <1>0, <1>11, <1>12, <2>1, Leaving DEF IoError, Targets
<1>13. CASE Kill
  <2>1. UNCHANGED <<names, data, kept, safe>>
    BY <1>13 DEF Kill
  <2>2. QED
    BY <1>0, <1>11, <1>13, <2>1, Leaving DEF Kill, Targets
<1>14. CASE PowerLoss
  <2>1. \A v \in Tasks : task'[v].at = "rest"
    BY <1>14 DEF PowerLoss, Mishap, Rest
  <2>2. QED
    BY <1>0, <1>14, <2>1, PowerLossTargets DEF OneWriter, Progress, Busy, Step
<1>15. QED
  BY <1>1, <1>2, <1>3, <1>4, <1>5, <1>6, <1>7, <1>8, <1>9, <1>10, <1>12, <1>13, <1>14 DEF Next

-----------------------------------------------------------------------------
(* The collector.                                                          *)

(* Every step keeps tasks away from a collector that unlinks, or records   *)
(* them.                                                                   *)
LEMMA StepCollector == Types /\ Collector /\ [Next]_vars => Collector'
<1> SUFFICES ASSUME Types, Collector, [Next]_vars
             PROVE  Collector'
  OBVIOUS
<1>1. CASE UNCHANGED vars
  BY <1>1 DEF vars, Collector
<1>2. ASSUME NEW w \in Tasks, Enter(w)
      PROVE  Collector'
  BY <1>2 DEF Enter, Collector, Types
<1>3. ASSUME NEW w \in Tasks,
             Create(w) \/ Write(w) \/ Sync(w) \/ Rename(w) \/ DirSync(w) \/ CommitRow(w)
      PROVE  Collector'
  <2>1. task[w] # Rest /\ UNCHANGED <<gc, late>>
    BY <1>3 DEF Create, Write, Sync, Rename, DirSync, CommitRow, Rest
  <2>2. QED
    BY <2>1 DEF Collector
<1>4. CASE Repair
  BY <1>4 DEF Repair, Collector
<1>5. CASE Recheck \/ Unlink
  BY <1>5 DEF Recheck, Unlink, Unreferred, Collector
<1>6. ASSUME NEW struck, Mishap(struck), gc' = gc
      PROVE  Collector'
  BY <1>6 DEF Mishap, Collector
<1>7. ASSUME NEW w \in Tasks, IoError(w)
      PROVE  Collector'
  BY <1>6, <1>7 DEF IoError
<1>8. CASE Kill
  BY <1>6, <1>8 DEF Kill
<1>9. CASE PowerLoss
  BY <1>9 DEF PowerLoss, Mishap, Collector
<1>10. QED
  BY <1>1, <1>2, <1>3, <1>4, <1>5, <1>7, <1>8, <1>9 DEF Next

-----------------------------------------------------------------------------
(* Durability.                                                             *)

(* While all is quiet, a blob some row refers to is on disk.               *)
LEMMA RowsOnDisk == Types /\ Undisturbed /\ Durable /\ Quiet /\ saved # {} => OnDisk
<1> SUFFICES ASSUME Types, Undisturbed, Durable, Quiet, saved # {}
             PROVE  OnDisk
  OBVIOUS
<1>1. Relied /\ names.dest # NoFile /\ \A v \in Tasks : ~Busy(v)
  BY DEF Durable, Relied
<1>2. kept.dest = names.dest
  BY <1>1 DEF Durable, Busy, Step
<1>3. safe[names.dest] = Whole
  BY <1>1 DEF Undisturbed, Targets, Quiet
<1>4. QED
  BY <1>1, <1>2, <1>3 DEF OnDisk

(* Every step keeps what rows rely on on disk, while all is quiet.         *)
LEMMA StepDurable ==
  Types /\ Undisturbed /\ Collector /\ Durable /\ [Next]_vars => Durable'
<1> SUFFICES ASSUME Types, Undisturbed, Collector, Durable, [Next]_vars, Quiet'
             PROVE  Durable'
  BY DEF Durable
<1> USE Facts
<1>1. CASE UNCHANGED vars
  BY <1>1 DEF vars, Durable, Quiet, Relied, Busy
<1>2. ASSUME NEW w \in Tasks, Enter(w)
      PROVE  Durable'
  <2>1. Quiet /\ \A v \in Tasks : ~Busy(v)
    BY <1>2 DEF Enter, Quiet, Types
  <2>2. UNCHANGED <<names, kept, saved>> /\ \A v \in Tasks \ {w} : task'[v] = task[v]
    BY <1>2 DEF Enter, Goto, Types
  <2>3. task'[w].at = IF names.dest # NoFile THEN "stored" ELSE "create"
    BY <1>2, RestTyped DEF Enter, Goto, Types, Rest
  <2>4. \A v \in Tasks : task'[v].at # "dirsync" /\ task[v].at # "dirsync"
    BY <2>1, <2>2, <2>3 DEF Busy, Step
  <2>5. CASE names.dest # NoFile
    <3>1. \A v \in Tasks : ~Busy(v)'
      BY <2>1, <2>2, <2>3, <2>5 DEF Busy, Step
    <3>2. QED
      BY <2>1, <2>2, <2>4, <2>5, <3>1 DEF Durable
  <2>6. CASE names.dest = NoFile
    <3>1. ~Relied
      BY <2>1, <2>6 DEF Durable
    <3>2. ~Relied'
      BY <2>2, <2>3, <2>6, <3>1 DEF Relied
    <3>3. QED
      BY <2>2, <2>4, <2>6, <3>2 DEF Durable
  <2>7. QED
    BY <2>5, <2>6
<1>3. ASSUME NEW w \in Tasks, Create(w) \/ Write(w) \/ Sync(w)
      PROVE  Durable'
  <2>1. Quiet /\ Busy(w)
    BY <1>3 DEF Create, Write, Sync, Quiet, Busy, Step
  <2>2. kept' = kept /\ saved' = saved /\ names'.dest = names.dest
    BY <1>3 DEF Create, Write, Sync, Types, Directory
  <2>3. /\ task[w].at \in {"create", "write", "sync"}
        /\ task'[w].at \in {"write", "sync", "rename"}
        /\ \A v \in Tasks \ {w} : task'[v] = task[v]
    BY <1>3 DEF Create, Write, Sync, Rest, Types
  <2>4. ~Relied /\ ~Relied'
    BY <2>1, <2>2, <2>3 DEF Durable, Relied
  <2>5. QED
    BY <2>1, <2>2, <2>3, <2>4 DEF Durable
<1>4. ASSUME NEW w \in Tasks, Rename(w)
      PROVE  Durable'
  <2>1. Quiet /\ Busy(w) /\ task[w].at = "rename" /\ UNCHANGED <<kept, saved>>
    BY <1>4 DEF Rename, Quiet, Busy, Step
  <2>2. names.tmp # NoFile
    BY <2>1, Facts DEF Undisturbed, Progress, Quiet
  <2>3. names'.dest # NoFile
    BY <1>4, <2>2 DEF Rename
  <2>4. task'[w].at = "dirsync" /\ \A v \in Tasks \ {w} : task'[v] = task[v]
    <3>1. task' = [task EXCEPT ![w].at = "dirsync"]
      BY <1>4, <2>2 DEF Rename, Goto
    <3>2. QED
      BY <3>1 DEF Types, Task
  <2>5. ~Relied'
    BY <2>1, <2>4 DEF Durable, Relied
  <2>6. QED
    BY <2>3, <2>4, <2>5 DEF Durable
<1>5. ASSUME NEW w \in Tasks, DirSync(w)
      PROVE  Durable'
  <2>1. Quiet /\ Busy(w) /\ task[w].at = "dirsync"
    BY <1>5 DEF DirSync, Quiet, Busy, Step
  <2>2. names' = names /\ kept' = names /\ names.dest # NoFile
    BY <1>5, <2>1 DEF DirSync, EntryFlushed, Durable
  <2>3. task'[w].at = "stored" /\ \A v \in Tasks \ {w} : task'[v] = task[v]
    BY <1>5 DEF DirSync, Goto, Types, Task
  <2>4. \A v \in Tasks : ~Busy(v)'
    BY <2>1, <2>3 DEF Undisturbed, OneWriter, Quiet, Busy, Step
  <2>5. QED
    BY <2>2, <2>4 DEF Durable, Busy, Step
<1>6. ASSUME NEW w \in Tasks, CommitRow(w)
      PROVE  Durable'
  <2>1. Quiet /\ Relied /\ UNCHANGED <<names, kept>>
    BY <1>6 DEF CommitRow, Quiet, Relied
  <2>2. \A v \in Tasks : ~Busy(v) /\ task'[v].at \in {"rest", task[v].at}
    BY <1>6, <2>1 DEF CommitRow, Durable, Types, Rest
  <2>3. \A v \in Tasks : ~Busy(v)' /\ task[v].at # "dirsync" /\ task'[v].at # "dirsync"
    BY <2>2 DEF Busy, Step
  <2>4. QED
    BY <2>1, <2>3 DEF Durable
<1>7. CASE Repair
  <2>1. Quiet /\ UNCHANGED <<names, kept, task>> /\ saved' \subseteq saved
    BY <1>7 DEF Repair, Quiet
  <2>2. Relied' => Relied
    BY <2>1 DEF Relied
  <2>3. QED
    BY <2>1, <2>2 DEF Durable, Busy
<1>8. CASE Recheck
  <2>1. Quiet /\ UNCHANGED <<names, kept, task, saved>>
    BY <1>8 DEF Recheck, Quiet, Collector
  <2>2. QED
    BY <2>1 DEF Durable, Relied, Busy
<1>9. CASE Unlink
  <2>1. ~Relied' /\ \A v \in Tasks : task'[v].at = "rest"
    BY <1>9 DEF Unlink, Collector, Quiet, Relied, Rest
  <2>2. names'.dest = NoFile
    BY <1>9 DEF Unlink, Types, Directory
  <2>3. QED
    BY <2>1, <2>2 DEF Durable
<1>10. ASSUME NEW struck, Mishap(struck)
       PROVE  /\ Quiet /\ saved' = saved
              /\ \A v \in Tasks : task[v].at = "dirsync" => v \notin struck
              /\ \A v \in Tasks : task'[v] = IF v \in struck THEN Rest ELSE task[v]
              /\ Relied' => Relied
  <2>1. /\ undone' = undone \cup ({task[w].at : w \in struck} \cap Step)
        /\ UNCHANGED <<saved, raced, late>>
        /\ \A v \in Tasks : task'[v] = IF v \in struck THEN Rest ELSE task[v]
    BY <1>10 DEF Mishap
  <2>2. \A v \in struck : task[v].at # "dirsync"
    BY <2>1 DEF Quiet, Step
  <2>3. QED
    BY <2>1, <2>2 DEF Quiet, Relied, Rest
<1>11. ASSUME NEW struck, Mishap(struck), UNCHANGED <<names, kept>>
       PROVE  Durable'
  <2>1. \A v \in Tasks : Busy(v)' => Busy(v)
    BY <1>10, <1>11 DEF Busy, Rest, Step
  <2>2. \A v \in Tasks : task'[v].at = "dirsync" <=> task[v].at = "dirsync"
    BY <1>10, <1>11 DEF Rest
  <2>3. Quiet /\ (Relied' => Relied) /\ names' = names /\ kept' = kept
    BY <1>10, <1>11
  <2>4. QED
    BY <2>1, <2>2, <2>3 DEF Durable
<1>12. CASE Kill \/ \E w \in Tasks : IoError(w)
  BY <1>11, <1>12 DEF Kill, IoError
<1>13. CASE PowerLoss
  <2>1. Mishap(Tasks) /\ names' \in {kept, names} /\ kept' = names'
    BY <1>13 DEF PowerLoss
  <2>2. Quiet /\ saved' = saved /\ \A v \in Tasks : task'[v].at = "rest"
    BY <1>10, <2>1 DEF Rest
  <2>3. Relied' => names'.dest # NoFile
    BY <2>1, <2>2, RowsOnDisk DEF Relied, OnDisk
  <2>4. \A v \in Tasks : ~Busy(v)' /\ task'[v].at # "dirsync"
    BY <2>2 DEF Busy, Step
  <2>5. QED
    BY <2>1, <2>3, <2>4 DEF Durable
<1>14. QED
  BY <1>1, <1>2, <1>3, <1>4, <1>5, <1>6, <1>7, <1>8, <1>9, <1>12, <1>13 DEF Next

-----------------------------------------------------------------------------
(* Races.                                                                  *)

(* Every step keeps named files whole or being filled, while nobody was    *)
(* cut off.                                                                *)
LEMMA StepFilled == Types /\ Filled /\ [Next]_vars => Filled'
<1> SUFFICES ASSUME Types, Filled, [Next]_vars, undone' = {},
                    NEW i \in Inodes, Named(i)'
             PROVE  WholeFile(i)' \/ \E w \in Tasks : Filling(w, i)'
  BY DEF Filled
<1> USE Facts
<1>1. ASSUME undone = {}, Named(i), UNCHANGED <<data, safe>>,
             \A w \in Tasks : task[w].fd = i => task'[w].fd = i /\ task'[w].n = task[w].n
      PROVE  WholeFile(i)' \/ \E w \in Tasks : Filling(w, i)'
  <2>1. CASE WholeFile(i)
    BY <1>1, <2>1 DEF WholeFile
  <2>2. ASSUME NEW w \in Tasks, Filling(w, i)
        PROVE  Filling(w, i)'
    BY <1>1, <2>2 DEF Filling
  <2>3. QED
    BY <1>1, <2>1, <2>2 DEF Filled
<1>2. CASE UNCHANGED vars
  BY <1>1, <1>2 DEF vars, Named
<1>3. ASSUME NEW w \in Tasks, Enter(w) \/ DirSync(w) \/ CommitRow(w)
      PROVE  WholeFile(i)' \/ \E v \in Tasks : Filling(v, i)'
  <2>1. task[w].at \notin {"write", "sync"} /\ task[w] \in Task
    BY <1>3 DEF Enter, DirSync, CommitRow, Rest, Types
  <2>2. task[w].fd = NoFile
    BY <2>1 DEF Task
  <2>3. \A v \in Tasks : v = w \/ task'[v] = task[v]
    BY <1>3 DEF Enter, DirSync, CommitRow, Goto, Types
  <2>4. undone = {} /\ Named(i) /\ UNCHANGED <<data, safe>>
    BY <1>3 DEF Enter, DirSync, EntryFlushed, CommitRow, Named
  <2>5. QED
    BY <1>1, <2>2, <2>3, <2>4
<1>4. ASSUME NEW w \in Tasks, Rename(w)
      PROVE  WholeFile(i)' \/ \E v \in Tasks : Filling(v, i)'
  <2>1. task[w].fd = NoFile
    BY <1>4 DEF Rename, Types, Task
  <2>2. \A v \in Tasks : v = w \/ task'[v] = task[v]
    BY <1>4 DEF Rename, Goto, Types
  <2>3. undone = {} /\ Named(i) /\ UNCHANGED <<data, safe>>
    BY <1>4 DEF Rename, Named
  <2>4. QED
    BY <1>1, <2>1, <2>2, <2>3
<1>5. ASSUME NEW w \in Tasks, Create(w)
      PROVE  WholeFile(i)' \/ \E v \in Tasks : Filling(v, i)'
  <2>1. PICK j \in Inodes :
          /\ names' = [names EXCEPT !.tmp = j]
          /\ data' = [data EXCEPT ![j] = {}]
          /\ safe' = [safe EXCEPT ![j] = {}]
          /\ task' = [task EXCEPT ![w] = [at |-> "write", fd |-> j, n |-> 0]]
    BY <1>5 DEF Create
  <2>2. CASE i = j
    BY <2>1, <2>2 DEF Filling, Types
  <2>3. CASE i # j
    <3>1. names'.tmp = j /\ names'.dest = names.dest /\ kept' = kept /\ undone = {}
      BY <1>5, <2>1 DEF Create, Types, Directory
    <3>2. Named(i)
      BY <2>3, <3>1 DEF Named
    <3>3. data'[i] = data[i] /\ safe'[i] = safe[i]
      BY <2>1, <2>3 DEF Types
    <3>4. task[w].fd = NoFile
      BY <1>5 DEF Create, Types, Task
    <3>5. \A v \in Tasks : v = w \/ task'[v] = task[v]
      BY <2>1 DEF Types
    <3>6. QED
      BY <3>1, <3>2, <3>3, <3>4, <3>5 DEF Filled, WholeFile, Filling
  <2>4. QED
    BY <2>2, <2>3
<1>6. ASSUME NEW w \in Tasks, Write(w)
      PROVE  WholeFile(i)' \/ \E v \in Tasks : Filling(v, i)'
  <2> DEFINE k == task[w].n
             j == task[w].fd
  <2>1. k \in Nat /\ k < Chunks /\ j \in Inodes
    BY <1>6 DEF Write, Types, Task
  <2>2. data' = [data EXCEPT ![j] = data[j] \cup {k + 1}] /\ safe' = safe
    BY <1>6 DEF Write
  <2>3. /\ task'[w].fd = j /\ task'[w].n = k + 1
        /\ \A v \in Tasks \ {w} : task'[v] = task[v]
    BY <1>6 DEF Write, Types
  <2>4. data[i] \subseteq data'[i] /\ data'[i] \subseteq Whole /\ k + 1 \in data'[j]
    BY <2>1, <2>2 DEF Types, Whole
  <2>5. undone = {} /\ Named(i)
    BY <1>6 DEF Write, Named
  <2>6. CASE WholeFile(i)
    BY <2>2, <2>4, <2>6 DEF WholeFile
  <2>7. ASSUME NEW v \in Tasks, Filling(v, i), v # w
        PROVE  Filling(v, i)'
    BY <2>3, <2>4, <2>7 DEF Filling
  <2>8. CASE Filling(w, i)
    <3>1. 1 .. k + 1 \subseteq data'[i]
      BY <2>1, <2>4, <2>8 DEF Filling
    <3>2. QED
      BY <2>3, <2>8, <3>1 DEF Filling
  <2>9. QED
    BY <2>5, <2>6, <2>7, <2>8 DEF Filled
<1>7. ASSUME NEW w \in Tasks, Sync(w)
      PROVE  WholeFile(i)' \/ \E v \in Tasks : Filling(v, i)'
  <2> DEFINE j == task[w].fd
  <2>1. j \in Inodes /\ task[w].n = Chunks
    BY <1>7 DEF Sync, Types, Task
  <2>2. data' = data /\ safe' = [safe EXCEPT ![j] = data[j]]
    BY <1>7 DEF Sync, Flushed
  <2>3. \A v \in Tasks : v = w \/ task'[v] = task[v]
    BY <1>7 DEF Sync, Types
  <2>4. undone = {} /\ Named(i)
    BY <1>7 DEF Sync, Named
  <2>5. CASE data[i] = Whole /\ i = j
    BY <2>2, <2>5 DEF WholeFile, Types
  <2>6. CASE WholeFile(i) /\ i # j
    BY <2>2, <2>6 DEF WholeFile, Types
  <2>7. ASSUME NEW v \in Tasks, Filling(v, i), v # w
        PROVE  Filling(v, i)'
    BY <2>2, <2>3, <2>7 DEF Filling
  <2>8. CASE Filling(w, i)
    BY <2>1, <2>5, <2>8 DEF Filling, Whole, Types
  <2>9. QED
    BY <2>4, <2>5, <2>6, <2>7, <2>8 DEF Filled, WholeFile
<1>8. CASE Repair \/ Recheck \/ Unlink
  <2>1. undone = {} /\ Named(i) /\ UNCHANGED <<data, safe, task>>
    <3>1. CASE Repair \/ Recheck
      BY <3>1 DEF Repair, Recheck, Named
    <3>2. CASE Unlink
      BY <3>2 DEF Unlink, Named, Types, Directory
    <3>3. QED
      BY <1>8, <3>1, <3>2
  <2>2. QED
    BY <1>1, <2>1
<1>9. ASSUME NEW struck, Mishap(struck)
      PROVE  /\ undone = {} /\ \A v \in Tasks : v \in struck => ~Busy(v)
             /\ \A v \in Tasks : task'[v] = IF v \in struck THEN Rest ELSE task[v]
  BY <1>9 DEF Mishap, Busy
<1>10. \A v \in Tasks : ~Busy(v) => task[v].fd = NoFile
  BY DEF Busy, Step, Types, Task
<1>11. CASE Kill \/ \E w \in Tasks : IoError(w)
  <2>1. PICK struck : Mishap(struck)
    BY <1>11 DEF Kill, IoError
  <2>2. UNCHANGED <<names, kept, data, safe>>
    BY <1>11 DEF Kill, IoError
  <2>3. QED
    BY <1>1, <1>9, <1>10, <2>1, <2>2 DEF Named
<1>12. CASE PowerLoss
  <2>1. /\ names' = kept \/ names' = names
        /\ kept' = names' /\ safe' = data' /\ data'[i] \subseteq Whole
        /\ i \in {names'.tmp, names'.dest} => safe[i] \subseteq data'[i]
    BY <1>12 DEF PowerLoss
  <2>2. undone = {} /\ \A v \in Tasks : task[v].fd = NoFile
    BY <1>9, <1>10, <1>12 DEF PowerLoss
  <2>3. Named(i) /\ i \in {names'.tmp, names'.dest}
    BY <2>1 DEF Named
  <2>4. WholeFile(i)
    BY <2>2, <2>3 DEF Filled, Filling
  <2>5. QED
    BY <2>1, <2>3, <2>4 DEF WholeFile
<1>13. QED
  BY <1>2, <1>3, <1>4, <1>5, <1>6, <1>7, <1>8, <1>11, <1>12 DEF Next

-----------------------------------------------------------------------------
(* The theorems.                                                           *)

(* The invariant holds in every behaviour.                                 *)
THEOREM Invariance == Spec => []Inv
<1>1. Inv /\ [Next]_vars => Inv'
  BY StepTypes, StepUndisturbed, StepCollector, StepDurable, StepFilled DEF Inv
<1>2. QED
  BY InitInv, <1>1, PTL DEF Spec

(* Every state is typed: places, names and inodes of write_blob.           *)
THEOREM TypeCorrect == Spec => []TypeOK
<1>1. Types => TypeOK
  BY DEF Types, TypeOK, Task
<1>2. Inv => TypeOK
  BY <1>1 DEF Inv
<1>3. QED
  BY Invariance, <1>2, PTL

(* Whatever was killed or lost power half-way, a target that exists is     *)
(* whole, for any number of tasks that never overlapped, of chunks and of  *)
(* mishaps: the short cut of write_blob is sound.                          *)
THEOREM ShortCutIsSound == Spec => []WholeUnlessRaced
<1>1. Inv => WholeUnlessRaced
  BY DEF Inv, Undisturbed, Targets, WholeUnlessRaced
<1>2. QED
  BY Invariance, <1>1, PTL

(* Writers that race through the one temporary name leave a whole target,  *)
(* once all are through and none was cut off.                              *)
THEOREM RacesSettle == Spec => []WholeWhenSettled
<1>1. Inv => WholeWhenSettled
  <2> SUFFICES ASSUME Inv, undone = {}, \A w \in Tasks : ~Busy(w), names.dest # NoFile
               PROVE  data[names.dest] = Whole
    BY DEF WholeWhenSettled
  <2>1. names.dest \in Inodes /\ Named(names.dest)
    BY DEF Inv, Types, Directory, Named
  <2>2. \A w \in Tasks : task[w].fd = NoFile
    BY Facts DEF Inv, Types, Task, Busy, Step
  <2>3. QED
    BY <2>1, <2>2, Facts DEF Inv, Filled, Filling, WholeFile
<1>2. QED
  BY Invariance, <1>1, PTL

(* While writers never overlapped and none was cut off between its rename  *)
(* and the fsync of the directory, the blob of a committed row outlives a  *)
(* loss of power, and the collector: unless it found no row while a save   *)
(* was under way, or one began before it had unlinked the blob.            *)
THEOREM RowsOutlivePowerLoss == Spec => []OnDiskUndisturbed
<1>1. Inv => OnDiskUndisturbed
  BY RowsOnDisk DEF Inv, OnDiskUndisturbed, Quiet
<1>2. QED
  BY Invariance, <1>1, PTL

=============================================================================
