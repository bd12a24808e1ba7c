----------------------------- MODULE GoogleDrive -----------------------------
(***************************************************************************)
(* mayutils.interfaces.cloud.google.Drive: programs that put local files   *)
(* on a shared Drive, each call a few requests with the requests of others *)
(* in between.  A file is uploaded under the last part of its path, which  *)
(* is the same for all paths of the model, while get looks for the whole   *)
(* path.  Drive itself, which allows several files of a name, is external. *)
(***************************************************************************)
EXTENDS Integers, FiniteSets, Sequences, Python

CONSTANTS
  Client,
  Path,      \* paths of local files, all of one file name
  Foldered,  \* the paths with more to them than the file name
  MaxEdits,  \* bound: how often local files are written or removed
  MaxFaults  \* bound: how many requests fail

\* The local variables of a call of Drive.
Job == [path : Path, version : Nat \cup {None}, id : Nat, guarded : BOOLEAN, alone : BOOLEAN]

ASSUME GoogleDriveAssumption ==
  /\ Foldered \subseteq Path
  /\ None \notin Path \cup Int \cup Job
  /\ MaxEdits \in Nat
  /\ MaxFaults \in Nat

VARIABLES
  local,     \* the local files: the version of each, or None when there is none
  drive,     \* the files of the name on Drive, by their ids
  at,        \* where each program is in a call of Drive
  job,       \* the local variables of its call
  result,    \* what its last call returned, or None when it raised
  creators,  \* history: two programs were creating the file together
  edits,
  faults

driveVars == <<local, drive, at, job, result, creators, edits, faults>>

Content == [path : Path, version : Nat]

DriveTypeOK ==
  /\ local \in [Path -> Nat \cup {None}]
  /\ drive \in Seq([exists : BOOLEAN, content : Content])
  /\ at \in [Client -> {"idle", "delete", "find", "update", "create"}]
  /\ job \in [Client -> Job \cup {None}]
  /\ result \in [Client -> [id : 1 .. Len(drive), path : Path, version : Nat \cup {None},
                            fresh : BOOLEAN] \cup {None}]
  /\ creators \in BOOLEAN
  /\ edits \in 0 .. MaxEdits
  /\ faults \in 0 .. MaxFaults
  /\ \A c \in Client : at[c] # "idle" => job[c] # None
  /\ \A c \in Client : at[c] \in {"delete", "update"} => job[c].id \in DOMAIN drive

-----------------------------------------------------------------------------
DriveInit ==
  /\ local = [p \in Path |-> 1]
  /\ drive = <<>>
  /\ at = [c \in Client |-> "idle"]
  /\ job = [c \in Client |-> None]
  /\ result = [c \in Client |-> None]
  /\ creators = FALSE
  /\ edits = 0
  /\ faults = 0

\* find_file: the files that Drive finds by the name.
Files == {f \in DOMAIN drive : drive[f].exists}

Move(c, to) == at' = [at EXCEPT ![c] = to]

Begin(c, p, id, guarded) ==
  job' = [job EXCEPT ![c] = [path |-> p, version |-> local[p], id |-> id,
                             guarded |-> guarded, alone |-> TRUE]]

Stale(r) == IF r = None THEN None ELSE [r EXCEPT !.fresh = FALSE]

\* The program c changes what is on Drive: no other is alone with it, and what
\* was returned before need not be so any more.
Disturbs(c, answer) ==
  /\ job' = [d \in Client |-> IF d # c /\ job[d] # None THEN [job[d] EXCEPT !.alone = FALSE]
                              ELSE job[d]]
  /\ result' = [d \in Client |-> IF d = c THEN answer ELSE Stale(result[d])]

\* upload goes on from find_file_id(file_path.name): to a file found, or to a new one.
Found(c, p, guarded) ==
  \/ /\ \E f \in Files : Begin(c, p, f, guarded)
     /\ Move(c, "update")
     /\ UNCHANGED creators
  \/ /\ Files = {}
     /\ Begin(c, p, 0, guarded)
     /\ Move(c, "create")
     /\ creators' = (creators \/ \E d \in Client \ {c} : at[d] = "create")

\* The call raises.
DriveFails(c) ==
  /\ Move(c, "idle")
  /\ result' = [result EXCEPT ![c] = None]

-----------------------------------------------------------------------------
\* Mutant of Upload: no file is looked for.
UploadAnew(c, p) ==
  /\ at[c] = "idle"
  /\ Begin(c, p, 0, FALSE)
  /\ Move(c, "create")
  /\ creators' = (creators \/ \E d \in Client \ {c} : at[d] = "create")
  /\ UNCHANGED <<local, drive, result, edits, faults>>

Upload(c, p) ==
  /\ at[c] = "idle"
  /\ Found(c, p, FALSE)
  /\ UNCHANGED <<local, drive, result, edits, faults>>

\* get: find_file_id(str(file_path)), which a path in a folder never finds
Get(c, p, forced) ==
  /\ at[c] = "idle"
  /\ \/ /\ p \notin Foldered
        /\ \E f \in Files :
             IF forced
             THEN Begin(c, p, f, TRUE) /\ Move(c, "delete") /\ UNCHANGED result
             ELSE /\ Begin(c, p, f, FALSE)
                  /\ result' = [result EXCEPT ![c] =
                       [id |-> f, path |-> p, version |-> local[p], fresh |-> FALSE]]
                  /\ UNCHANGED at
     \/ /\ p \in Foldered \/ Files = {}
        /\ Begin(c, p, 0, FALSE)
        /\ Move(c, "find")
        /\ UNCHANGED result
  /\ UNCHANGED <<local, drive, creators, edits, faults>>

\* get with force_upload: delete_file_by_id
DeleteOld(c) ==
  /\ at[c] = "delete"
  /\ IF drive[job[c].id].exists
     THEN /\ drive' = [drive EXCEPT ![job[c].id].exists = FALSE]
          /\ Move(c, "find")
          /\ Disturbs(c, None)
     ELSE DriveFails(c) /\ UNCHANGED <<drive, job>>
  /\ UNCHANGED <<local, creators, edits, faults>>

\* upload, called by get
Find(c) ==
  /\ at[c] = "find"
  /\ \/ /\ \E f \in Files : job' = [job EXCEPT ![c].id = f]
        /\ Move(c, "update")
        /\ UNCHANGED creators
     \/ /\ Files = {}
        /\ Move(c, "create")
        /\ creators' = (creators \/ \E d \in Client \ {c} : at[d] = "create")
        /\ UNCHANGED job
  /\ UNCHANGED <<local, drive, result, edits, faults>>

\* _create_media raises FileNotFoundError, which get takes for its own.
NoLocalFile(c) ==
  /\ at[c] \in {"update", "create"}
  /\ local[job[c].path] = None
  /\ IF job[c].guarded
     THEN job' = [job EXCEPT ![c].guarded = FALSE] /\ Move(c, "find") /\ UNCHANGED result
     ELSE DriveFails(c) /\ UNCHANGED job
  /\ UNCHANGED <<local, drive, creators, edits, faults>>

Sent(c) == [path |-> job[c].path, version |-> local[job[c].path]]

Returns(c, id) ==
  /\ Move(c, "idle")
  /\ Disturbs(c, [id |-> id, path |-> job[c].path, version |-> job[c].version,
                  fresh |-> job[c].alone])

\* _update
UpdateFile(c) ==
  /\ at[c] = "update"
  /\ local[job[c].path] # None
  /\ IF drive[job[c].id].exists
     THEN /\ drive' = [drive EXCEPT ![job[c].id].content = Sent(c)]
          /\ Returns(c, job[c].id)
     ELSE DriveFails(c) /\ UNCHANGED <<drive, job>>
  /\ UNCHANGED <<local, creators, edits, faults>>

\* _upload
CreateFile(c) ==
  /\ at[c] = "create"
  /\ local[job[c].path] # None
  /\ drive' = Append(drive, [exists |-> TRUE, content |-> Sent(c)])
  /\ Returns(c, Len(drive) + 1)
  /\ UNCHANGED <<local, creators, edits, faults>>

\* delete_file_by_name, when the file is still there; the name is that of all paths
DeleteByName(c) ==
  /\ at[c] = "idle"
  /\ \E f \in Files : drive' = [drive EXCEPT ![f].exists = FALSE]
  /\ Disturbs(c, None)
  /\ UNCHANGED <<local, at, creators, edits, faults>>

\* What the service does for a request whose answer is lost.
Unanswered(c) ==
  CASE at[c] = "create" -> Append(drive, [exists |-> TRUE, content |-> Sent(c)])
    [] at[c] = "update" -> [drive EXCEPT ![job[c].id].content = Sent(c)]
    [] at[c] = "delete" -> [drive EXCEPT ![job[c].id].exists = FALSE]
    [] OTHER -> drive

\* A request fails, or is carried out and its answer lost.
DriveRequestFails(c) ==
  /\ faults < MaxFaults
  /\ faults' = faults + 1
  /\ at[c] # "idle"
  /\ Move(c, "idle")
  /\ at[c] \in {"update", "create"} => local[job[c].path] # None
  /\ drive' \in {drive, Unanswered(c)}
  /\ Disturbs(c, None)
  /\ UNCHANGED <<local, creators, edits>>

\* A local file is written, or removed.
EditLocal(p) ==
  /\ edits < MaxEdits
  /\ edits' = edits + 1
  /\ \/ local' = [local EXCEPT ![p] = edits + 2]
     \/ local[p] # None /\ local' = [local EXCEPT ![p] = None]
  /\ UNCHANGED <<drive, at, job, result, creators, faults>>

DriveStep(c) ==
  \/ DeleteOld(c) \/ Find(c) \/ NoLocalFile(c) \/ UpdateFile(c) \/ CreateFile(c)
  \/ DriveRequestFails(c)

-----------------------------------------------------------------------------
(* "overwriting any same-named file" (google.py, Drive.upload): uploads,    *)
(* forced and retried ones too, leave one file of the name, unless two     *)
(* programs found none and were creating it together.                      *)
OneFileOfTheName == ~creators => Cardinality(Files) <= 1
=============================================================================
