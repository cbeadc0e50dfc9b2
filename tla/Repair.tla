------------------------------- MODULE Repair -------------------------------
(***************************************************************************)
(* The repairs of the files table (db.rs repair_files_v6, repair_files_v7) *)
(* as functions of what an older version left: garbage keys, several       *)
(* spellings of one file, error pages saved as files, and fetch jobs that  *)
(* are done or dead although their row is not settled.  Each is one        *)
(* transaction; both run when a daemon, an import or init opens a database *)
(* of an older schema.  The blobs they free are taken away by the          *)
(* collector (BlobStore).                                                  *)
(***************************************************************************)

CONSTANTS
  OldKey,      \* every row key an older version may have used, Path included
  Path,        \* the keys in use now: canonical URLs of files
  CanonOf,     \* canonical_row_key: [OldKey -> Path]
  Garbage,     \* keys version 6 recognises as garbage
  Bracketed,   \* keys with a bracket, garbage to version 7
  Mentioned    \* the files texts refer to, as the extractor finds them

ASSUME RepairAssumption ==
  /\ {Path, Garbage, Bracketed} \subseteq SUBSET OldKey
  /\ CanonOf \in [OldKey -> Path]
  /\ \A p \in Path : CanonOf[p] = p
  /\ \A k \in OldKey :   \* what makes a key garbage stays in its canonical form
       (CanonOf[k] \in Garbage => k \in Garbage) /\ (CanonOf[k] \in Bracketed => k \in Bracketed)
  /\ Mentioned \subseteq Path \ (Garbage \cup Bracketed)

(* A row saved as text/html is an errorpage; no job is running, or a dead  *)
(* daemon's.                                                               *)
RowStatus == {"absent", "pending", "missing", "saved", "errorpage"}
JobStatus == {"absent", "pending", "running", "done", "dead"}
Table == [row : [OldKey -> RowStatus], jobs : [OldKey -> JobStatus]]

Present(t, keys) == {k \in keys : t.row[k] # "absent"}

(* The rows of these keys go, and their jobs in these states.              *)
Without(t, keys, states) ==
  [row  |-> [k \in OldKey |-> IF k \in keys THEN "absent" ELSE t.row[k]],
   jobs |-> [k \in OldKey |-> IF k \in Present(t, keys) /\ t.jobs[k] \in states
                           THEN "absent" ELSE t.jobs[k]]]

Reset(t) ==
  [t EXCEPT !.row = [k \in OldKey |-> IF @[k] = "errorpage" THEN "pending" ELSE @[k]]]

(* Extraction runs again over the texts stored, which mention these files. *)
Seeded(t, mined) ==
  [t EXCEPT !.row = [k \in OldKey |-> IF k \in mined /\ @[k] = "absent" THEN "pending" ELSE @[k]]]

(* The survivor of the spellings of c has the most state.                  *)
Spellings(t, c) == {k \in OldKey : CanonOf[k] = c /\ t.row[k] # "absent"}
Survivor(t, c) ==
  LET has(status) == \E k \in Spellings(t, c) : t.row[k] = status
  IN  CASE has("saved") -> "saved"
        [] ~has("saved") /\ has("missing") -> "missing"
        [] ~has("saved") /\ ~has("missing") /\ has("pending") -> "pending"
        [] OTHER -> "absent"

(* Jobs of other spellings die with their rows.                            *)
Merged(t) ==
  [row  |-> [k \in OldKey |-> IF k \in Path THEN Survivor(t, k) ELSE "absent"],
   jobs |-> [k \in OldKey |-> IF k \notin Path /\ t.row[k] # "absent"
                           THEN "absent" ELSE t.jobs[k]]]

(* Every row pending in the end gets a job, with resurrect.                *)
Armed(t) ==
  [t EXCEPT !.jobs = [k \in OldKey |->
     IF t.row[k] = "pending" /\ @[k] \notin {"pending", "running"} THEN "pending" ELSE @[k]]]

RepairV6(t, mined) == Armed(Merged(Seeded(Reset(Without(t, Garbage, {"pending"})), mined)))
RepairV7(t, mined) == Armed(Seeded(Without(t, Bracketed, JobStatus), mined))
Upgraded(t, mined) == RepairV7(RepairV6(t, mined), mined)

=============================================================================
