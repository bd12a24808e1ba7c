---------------------------- MODULE GoogleProofs ----------------------------
(***************************************************************************)
(* Programs that edit Google presentations and spreadsheets: no slide is   *)
(* lost, calls reach the tabs they are meant for, the checks of Slides and *)
(* Sheets suffice, and the files and images on Drive are what they should  *)
(* be, for any number of programs, documents, paths, tabs and failures.    *)
(***************************************************************************)
EXTENDS MCGoogle, FiniteSetTheorems, TLAPS

(* One place of a sequence gets another value. *)
LEMMA Replacing ==
  ASSUME NEW S, NEW q \in Seq(S), NEW i \in DOMAIN q, NEW x \in S, NEW r, r = [q EXCEPT ![i] = x]
  PROVE  /\ r \in Seq(S) /\ Len(r) = Len(q) /\ Len(q) \in Nat /\ DOMAIN r = DOMAIN q
         /\ r[i] = x
         /\ \A j \in DOMAIN q : j # i => r[j] = q[j]
OBVIOUS

-----------------------------------------------------------------------------
(* The files on Drive.                                                     *)

\* The versions of a local file go up, and no call of Drive is ahead of them.
LocalInv ==
  /\ \A p \in Path : local[p] # None => local[p] <= edits + 1
  /\ \A c \in Client : job[c] # None /\ job[c].version # None =>
       /\ job[c].version <= edits + 1
       /\ local[job[c].path] # None => job[c].version <= local[job[c].path]

\* A result that is fresh is of the file that has what was sent, or something newer.
FreshInv ==
  \A c \in Client : result[c] # None /\ result[c].fresh =>
    /\ drive[result[c].id].content.path = result[c].path
    /\ result[c].version # None => drive[result[c].id].content.version >= result[c].version

\* Who creates the file is the only one and has found none.
OneInv ==
  ~creators =>
    /\ \A f, g \in Files : f = g
    /\ \A c, d \in Client : at[c] = "create" /\ at[d] = "create" => c = d
    /\ \A c \in Client : at[c] = "create" => Files = {}

DriveInv == DriveTypeOK /\ LocalInv /\ FreshInv /\ OneInv

\* The steps of Drive, whoever takes them; other requests may fail as well.
DriveAction(c) ==
  \/ DriveStep(c) \/ DeleteByName(c)
  \/ \E p \in Path : Upload(c, p) \/ \E forced \in BOOLEAN : Get(c, p, forced)

Elsewhere ==
  UNCHANGED <<local, drive, at, job, result, creators, edits>> /\ faults' \in 0 .. MaxFaults

\* What a file on Drive is.
OnDrive == [exists : BOOLEAN, content : Content]

Answers(n) == [id : 1 .. n, path : Path, version : Nat \cup {None}, fresh : BOOLEAN]

LEMMA OnDriveType ==
  ASSUME DriveTypeOK
  PROVE  /\ drive \in Seq(OnDrive) /\ Len(drive) \in Nat /\ DOMAIN drive = 1 .. Len(drive)
         /\ \A f \in DOMAIN drive : drive[f] \in OnDrive /\ drive[f].content \in Content
<1>1. drive \in Seq(OnDrive)
  BY DEF DriveTypeOK, OnDrive
<1>2. Len(drive) \in Nat /\ DOMAIN drive = 1 .. Len(drive) /\ \A f \in DOMAIN drive : drive[f] \in OnDrive
  BY <1>1
<1>3. \A x \in OnDrive : x.content \in Content
  BY DEF OnDrive
<1> QED
  BY <1>1, <1>2, <1>3

(* A file on Drive becomes one that is gone, or one with other content. *)
LEMMA FileChanged ==
  ASSUME DriveTypeOK, NEW f \in DOMAIN drive, NEW q,
         \/ q = [drive EXCEPT ![f].exists = FALSE]
         \/ \E content \in Content : q = [drive EXCEPT ![f].content = content]
  PROVE  /\ q \in Seq(OnDrive) /\ Len(q) = Len(drive)
         /\ \A g \in DOMAIN drive : g # f => q[g] = drive[g]
         /\ q[f].exists => drive[f].exists
<1>1. drive \in Seq(OnDrive) /\ drive[f] \in OnDrive
  BY OnDriveType
<1>2. \E x \in OnDrive : q = [drive EXCEPT ![f] = x] /\ (x.exists => drive[f].exists)
  <2>1. CASE q = [drive EXCEPT ![f].exists = FALSE]
    <3>1. [drive[f] EXCEPT !.exists = FALSE] \in OnDrive /\ ~[drive[f] EXCEPT !.exists = FALSE].exists
      BY <1>1 DEF OnDrive
    <3>2. q = [drive EXCEPT ![f] = [drive[f] EXCEPT !.exists = FALSE]]
      BY <2>1
    <3> QED
      BY <3>1, <3>2
  <2>2. ASSUME NEW content \in Content, q = [drive EXCEPT ![f].content = content]
        PROVE  \E x \in OnDrive : q = [drive EXCEPT ![f] = x] /\ (x.exists => drive[f].exists)
    <3>1. /\ [drive[f] EXCEPT !.content = content] \in OnDrive
          /\ [drive[f] EXCEPT !.content = content].exists = drive[f].exists
      BY <1>1 DEF OnDrive
    <3>2. q = [drive EXCEPT ![f] = [drive[f] EXCEPT !.content = content]]
      BY <2>2
    <3> QED
      BY <3>1, <3>2
  <2> QED
    BY <2>1, <2>2
<1>3. PICK x \in OnDrive : q = [drive EXCEPT ![f] = x] /\ (x.exists => drive[f].exists)
  BY <1>2
<1> QED
  BY <1>1, <1>3, Replacing

LEMMA DriveBegins == DriveInit => DriveInv
<1> SUFFICES ASSUME DriveInit PROVE DriveInv
  OBVIOUS
<1>1. DriveTypeOK
  <2>1. drive = <<>> /\ drive \in Seq([exists : BOOLEAN, content : Content])
    BY DEF DriveInit
  <2>2. local \in [Path -> Nat \cup {None}]
    BY DEF DriveInit
  <2>3. /\ at \in [Client -> {"idle", "delete", "find", "update", "create"}]
        /\ \A c \in Client : at[c] = "idle"
    BY DEF DriveInit
  <2>4. /\ job \in [Client -> Job \cup {None}]
        /\ result \in [Client -> Answers(Len(drive)) \cup {None}]
        /\ creators \in BOOLEAN
    BY DEF DriveInit
  <2>5. edits \in 0 .. MaxEdits /\ faults \in 0 .. MaxFaults
    BY GoogleDriveAssumption DEF DriveInit
  <2> QED
    BY <2>1, <2>2, <2>3, <2>4, <2>5 DEF DriveTypeOK, Answers
<1>2. LocalInv /\ FreshInv /\ OneInv
  BY GoogleDriveAssumption DEF DriveInit, LocalInv, FreshInv, OneInv, Files
<1> QED
  BY <1>1, <1>2 DEF DriveInv

(* The types of what a step of Drive leaves. *)
LEMMA BeginsType ==
  ASSUME DriveTypeOK, NEW c \in Client, NEW p \in Path, NEW id \in Nat, NEW guarded \in BOOLEAN,
         Begin(c, p, id, guarded)
  PROVE  /\ job' \in [Client -> Job \cup {None}]
         /\ job'[c] \in Job /\ job'[c] # None /\ job'[c].id = id
         /\ job'[c].path = p /\ job'[c].version = local[p]
         /\ \A d \in Client \ {c} : job'[d] = job[d]
<1> DEFINE new == [path |-> p, version |-> local[p], id |-> id, guarded |-> guarded, alone |-> TRUE]
<1>1. new \in Job
  BY DEF DriveTypeOK, Job
<1>2. job' = [job EXCEPT ![c] = new] /\ job \in [Client -> Job \cup {None}]
  BY DEF DriveTypeOK, Begin
<1>3. job'[c] = new /\ job' \in [Client -> Job \cup {None}] /\ \A d \in Client \ {c} : job'[d] = job[d]
  BY <1>1, <1>2
<1>4. new.id = id /\ new.path = p /\ new.version = local[p] /\ new # None
  BY <1>1, GoogleDriveAssumption
<1> HIDE DEF new
<1> QED
  BY <1>1, <1>3, <1>4

LEMMA DisturbsType ==
  ASSUME DriveTypeOK, NEW c \in Client, NEW answer, NEW n \in Nat, n >= Len(drive),
         answer \in Answers(n) \cup {None}, Disturbs(c, answer)
  PROVE  /\ job' \in [Client -> Job \cup {None}]
         /\ result' \in [Client -> Answers(n) \cup {None}]
         /\ result'[c] = answer
         /\ \A d \in Client \ {c} : result'[d] # None => ~result'[d].fresh
         /\ \A d \in Client : /\ job[d] # None => job'[d] # None
                              /\ job'[d] # None =>
                                   /\ job[d] # None /\ job'[d].path = job[d].path
                                   /\ job'[d].version = job[d].version /\ job'[d].id = job[d].id
<1>0. \A d \in Client : result[d] \in Answers(n) \cup {None}
  <2>1. \A d \in Client : result[d] \in Answers(Len(drive)) \cup {None}
    BY DEF DriveTypeOK, Answers
  <2>2. Len(drive) \in Nat /\ 1 .. Len(drive) \subseteq 1 .. n
    BY DEF DriveTypeOK
  <2> QED
    BY <2>1, <2>2 DEF Answers
<1>1. \A d \in Client : Stale(result[d]) \in Answers(n) \cup {None}
  <2> TAKE d \in Client
  <2>1. result[d] \in Answers(n) => [result[d] EXCEPT !.fresh = FALSE] \in Answers(n)
    BY DEF Answers
  <2> QED
    BY <1>0, <2>1 DEF Stale
<1>2. \A d \in Client : Stale(result[d]) # None => ~Stale(result[d]).fresh
  BY DEF DriveTypeOK, Stale
<1>3. /\ result' \in [Client -> Answers(n) \cup {None}]
      /\ result'[c] = answer
      /\ \A d \in Client \ {c} : result'[d] = Stale(result[d])
  BY <1>1 DEF Disturbs
<1>4. \A d \in Client : job[d] # None =>
        /\ [job[d] EXCEPT !.alone = FALSE] \in Job
        /\ [job[d] EXCEPT !.alone = FALSE].path = job[d].path
        /\ [job[d] EXCEPT !.alone = FALSE].version = job[d].version
        /\ [job[d] EXCEPT !.alone = FALSE].id = job[d].id
  BY DEF DriveTypeOK, Job
<1>5. None \notin Job
  BY GoogleDriveAssumption
<1>6. /\ DOMAIN job' = Client
      /\ \A d \in Client : job'[d] = IF d # c /\ job[d] # None THEN [job[d] EXCEPT !.alone = FALSE]
                                     ELSE job[d]
  BY DEF Disturbs
<1>7. \A d \in Client : /\ job[d] # None => job'[d] # None
                        /\ job'[d] # None =>
                             /\ job[d] # None /\ job'[d].path = job[d].path
                             /\ job'[d].version = job[d].version /\ job'[d].id = job[d].id
  <2> TAKE d \in Client
  <2>1. CASE job[d] = None
    BY <1>6, <2>1
  <2>2. CASE job[d] # None /\ d = c
    BY <1>6, <2>2
  <2>3. CASE job[d] # None /\ d # c
    <3>1. job'[d] = [job[d] EXCEPT !.alone = FALSE]
      BY <1>6, <2>3
    <3> QED
      BY <1>4, <1>5, <2>3, <3>1
  <2> QED
    BY <2>1, <2>2, <2>3
<1>8. job' \in [Client -> Job \cup {None}]
  <2>1. \A d \in Client : job'[d] \in Job \cup {None}
    BY <1>4, <1>6 DEF DriveTypeOK
  <2>2. job' = [d \in Client |-> job'[d]]
    BY DEF Disturbs
  <2> QED
    BY <2>1, <2>2
<1> QED
  BY <1>2, <1>3, <1>7, <1>8
(* Each step of Drive keeps the types. *)
LEMMA DriveTypes ==
  ASSUME DriveTypeOK,
         \/ \E c \in Client : DriveAction(c)
         \/ \E p \in Path : EditLocal(p)
         \/ Elsewhere
  PROVE  DriveTypeOK'
<1> DEFINE At == {"idle", "delete", "find", "update", "create"}
<1>0. /\ drive \in Seq(OnDrive) /\ Len(drive) \in Nat /\ DOMAIN drive = 1 .. Len(drive)
      /\ at \in [Client -> At]
      /\ result \in [Client -> Answers(Len(drive)) \cup {None}]
      /\ \A f \in Files : f \in DOMAIN drive
  BY DEF DriveTypeOK, OnDrive, Answers, Files
\* What is left to show of a step that stays within the bounds.
<1> DEFINE Types ==
  /\ local' \in [Path -> Nat \cup {None}]
  /\ drive' \in Seq(OnDrive)
  /\ at' \in [Client -> At]
  /\ job' \in [Client -> Job \cup {None}]
  /\ result' \in [Client -> Answers(Len(drive')) \cup {None}]
  /\ creators' \in BOOLEAN
  /\ edits' \in 0 .. MaxEdits
  /\ faults' \in 0 .. MaxFaults
  /\ \A c \in Client : at'[c] # "idle" => job'[c] # None
  /\ \A c \in Client : at'[c] \in {"delete", "update"} => job'[c].id \in DOMAIN drive'
<1>1. SUFFICES Types
  BY DEF DriveTypeOK, OnDrive, Answers
<1> HIDE DEF Types
<1>2. ASSUME NEW c \in Client, NEW p \in Path, NEW id \in Nat, NEW guarded \in BOOLEAN, NEW to \in At,
             Begin(c, p, id, guarded), Move(c, to), to \in {"delete", "update"} => id \in DOMAIN drive,
             creators' \in BOOLEAN, UNCHANGED <<local, drive, result, edits, faults>>
      PROVE  Types
  <2>1. /\ job' \in [Client -> Job \cup {None}]
        /\ job'[c] # None /\ job'[c].id = id
        /\ \A d \in Client \ {c} : job'[d] = job[d]
    BY <1>2, BeginsType
  <2>2. at' \in [Client -> At] /\ at'[c] = to /\ \A d \in Client \ {c} : at'[d] = at[d]
    BY <1>0, <1>2 DEF Move
  <2> QED
    BY <1>0, <1>2, <2>1, <2>2 DEF DriveTypeOK, Types
<1>3. ASSUME NEW c \in Client, NEW p \in Path, Upload(c, p) PROVE Types
  <2>1. UNCHANGED <<local, drive, result, edits, faults>> /\ Found(c, p, FALSE)
    BY <1>3 DEF Upload
  <2>2. CASE \E f \in Files : Begin(c, p, f, FALSE) /\ Move(c, "update") /\ creators' = creators
    <3>1. PICK f \in Files : Begin(c, p, f, FALSE) /\ Move(c, "update") /\ creators' = creators
      BY <2>2
    <3>2. f \in Nat /\ f \in DOMAIN drive /\ creators \in BOOLEAN
      BY <1>0 DEF DriveTypeOK
    <3> QED
      BY <1>2, <2>1, <3>1, <3>2
  <2>3. CASE Begin(c, p, 0, FALSE) /\ Move(c, "create") /\ creators' \in BOOLEAN
    BY <1>2, <2>1, <2>3
  <2> QED
    BY <2>1, <2>2, <2>3 DEF Found, DriveTypeOK
<1>4. ASSUME NEW c \in Client, NEW answer, NEW to \in {"idle", "find"},
             drive' \in Seq(OnDrive), Len(drive') >= Len(drive),
             answer \in Answers(Len(drive')) \cup {None}, Disturbs(c, answer),
             at' = at \/ (Move(c, to) /\ at[c] # "idle"), faults' \in 0 .. MaxFaults,
             UNCHANGED <<local, creators, edits>>
      PROVE  Types
  <2>1. Len(drive') \in Nat /\ DOMAIN drive' = 1 .. Len(drive')
    BY <1>4
  <2>2. /\ job' \in [Client -> Job \cup {None}]
        /\ result' \in [Client -> Answers(Len(drive')) \cup {None}]
        /\ \A d \in Client : /\ job[d] # None => job'[d] # None
                             /\ job'[d] # None => job'[d].id = job[d].id
    BY <1>4, <2>1, DisturbsType
  <2>3. /\ at' \in [Client -> At]
        /\ \A d \in Client : at'[d] # "idle" => at[d] # "idle"
        /\ \A d \in Client : at'[d] \in {"delete", "update"} => at'[d] = at[d]
    BY <1>0, <1>4 DEF Move
  <2>4. \A d \in Client : at'[d] # "idle" => job'[d] # None
    BY <2>2, <2>3 DEF DriveTypeOK
  <2>5. \A d \in Client : at'[d] \in {"delete", "update"} => job'[d].id \in DOMAIN drive'
    <3> TAKE d \in Client
    <3> HAVE at'[d] \in {"delete", "update"}
    <3>1. job'[d].id = job[d].id /\ job[d].id \in DOMAIN drive
      BY <2>2, <2>3, <2>4 DEF DriveTypeOK
    <3> QED
      BY <1>0, <1>4, <2>1, <3>1
  <2>6. creators' \in BOOLEAN /\ edits' \in 0 .. MaxEdits /\ local' \in [Path -> Nat \cup {None}]
    BY <1>4 DEF DriveTypeOK
  <2> QED
    BY <1>4, <2>2, <2>3, <2>4, <2>5, <2>6 DEF Types
<1>5. ASSUME NEW c \in Client, NEW p \in Path, NEW forced \in BOOLEAN, Get(c, p, forced) PROVE Types
  <2>1. UNCHANGED <<local, drive, creators, edits, faults>> /\ creators' \in BOOLEAN
    BY <1>5 DEF Get, DriveTypeOK
  <2>2. CASE \E f \in Files : Begin(c, p, f, TRUE) /\ Move(c, "delete") /\ UNCHANGED result
    <3>1. PICK f \in Files : Begin(c, p, f, TRUE) /\ Move(c, "delete") /\ UNCHANGED result
      BY <2>2
    <3>2. f \in Nat /\ f \in DOMAIN drive
      BY <1>0
    <3> QED
      BY <1>2, <2>1, <3>1, <3>2
  <2>3. CASE \E f \in Files :
               /\ Begin(c, p, f, FALSE)
               /\ result' = [result EXCEPT ![c] =
                    [id |-> f, path |-> p, version |-> local[p], fresh |-> FALSE]]
               /\ UNCHANGED at
    <3>1. PICK f \in Files :
               /\ Begin(c, p, f, FALSE)
               /\ result' = [result EXCEPT ![c] =
                    [id |-> f, path |-> p, version |-> local[p], fresh |-> FALSE]]
               /\ UNCHANGED at
      BY <2>3
    <3>2. f \in Nat /\ f \in 1 .. Len(drive) /\ f \in DOMAIN drive
      BY <1>0
    <3>3. [id |-> f, path |-> p, version |-> local[p], fresh |-> FALSE] \in Answers(Len(drive))
      BY <3>2 DEF Answers, DriveTypeOK
    <3>4. result' \in [Client -> Answers(Len(drive')) \cup {None}]
      BY <1>0, <2>1, <3>1, <3>3
    <3>5. /\ job' \in [Client -> Job \cup {None}]
          /\ job'[c] # None /\ job'[c].id = f
          /\ \A d \in Client \ {c} : job'[d] = job[d]
      <4>1. FALSE \in BOOLEAN
        OBVIOUS
      <4>2. Begin(c, p, f, FALSE) /\ f \in Nat
        BY <3>1, <3>2, Zenon
      <4>3. ASSUME NEW guarded \in BOOLEAN, Begin(c, p, f, guarded)
            PROVE  /\ job' \in [Client -> Job \cup {None}]
                   /\ job'[c] # None /\ job'[c].id = f
                   /\ \A d \in Client \ {c} : job'[d] = job[d]
        BY <4>2, <4>3, BeginsType
      <4> QED
        BY <4>1, <4>2, <4>3
    <3> QED
      BY <1>0, <2>1, <3>1, <3>2, <3>4, <3>5 DEF DriveTypeOK, Types
  <2>4. CASE Begin(c, p, 0, FALSE) /\ Move(c, "find") /\ UNCHANGED result
    BY <1>2, <2>1, <2>4
  <2> QED
    BY <1>5, <2>2, <2>3, <2>4 DEF Get
<1>6. ASSUME NEW c \in Client, DriveFails(c), UNCHANGED <<local, drive, job, creators, edits, faults>>
      PROVE  Types
  <2>1. /\ at' \in [Client -> At] /\ at'[c] = "idle" /\ \A d \in Client \ {c} : at'[d] = at[d]
        /\ result' \in [Client -> Answers(Len(drive')) \cup {None}]
    BY <1>0, <1>6 DEF DriveFails, Move
  <2> QED
    BY <1>0, <1>6, <2>1 DEF DriveTypeOK, Types
<1>7. ASSUME NEW c \in Client, DeleteOld(c) PROVE Types
  <2>1. at[c] = "delete" /\ job[c].id \in DOMAIN drive
    BY <1>7 DEF DeleteOld, DriveTypeOK
  <2>2. CASE /\ drive' = [drive EXCEPT ![job[c].id].exists = FALSE]
             /\ Move(c, "find")
             /\ Disturbs(c, None)
    <3>1. drive' \in Seq(OnDrive) /\ Len(drive') = Len(drive)
      <4>1. drive[job[c].id].content \in Content
        BY <2>1, OnDriveType
      <4> QED
        BY <2>1, <2>2, <4>1, FileChanged
    <3>2. faults' \in 0 .. MaxFaults /\ UNCHANGED <<local, creators, edits>>
      BY <1>7 DEF DeleteOld, DriveTypeOK
    <3> QED
      <4>1. None \in Answers(Len(drive')) \cup {None} /\ Len(drive') >= Len(drive) /\ "find" \in {"idle", "find"}
        BY <1>0, <3>1
      <4> QED
        BY <1>4, <2>1, <2>2, <3>1, <3>2, <4>1
  <2>3. CASE DriveFails(c) /\ UNCHANGED <<drive, job>>
    BY <1>6, <1>7, <2>3 DEF DeleteOld
  <2> QED
    BY <1>7, <2>2, <2>3 DEF DeleteOld
<1>8. ASSUME NEW c \in Client, Find(c) PROVE Types
  <2>1. /\ UNCHANGED <<local, drive, result, edits, faults>> /\ creators' \in BOOLEAN
        /\ at[c] = "find" /\ job[c] # None /\ job[c] \in Job
    BY <1>8 DEF Find, DriveTypeOK
  <2>2. CASE /\ \E f \in Files : job' = [job EXCEPT ![c].id = f]
             /\ Move(c, "update")
    <3>1. PICK f \in Files : job' = [job EXCEPT ![c].id = f]
      BY <2>2
    <3>2. f \in Nat /\ f \in DOMAIN drive
      BY <1>0
    <3>3. [job[c] EXCEPT !.id = f] \in Job /\ [job[c] EXCEPT !.id = f].id = f
      BY <2>1, <3>2 DEF Job
    <3>4. job' = [job EXCEPT ![c] = [job[c] EXCEPT !.id = f]]
      BY <3>1
    <3>5. None \notin Job
      BY GoogleDriveAssumption
    <3>6. /\ job' \in [Client -> Job \cup {None}] /\ job'[c] # None /\ job'[c].id = f
          /\ \A d \in Client \ {c} : job'[d] = job[d]
      BY <3>3, <3>4, <3>5 DEF DriveTypeOK
    <3>7. at' \in [Client -> At] /\ at'[c] = "update" /\ \A d \in Client \ {c} : at'[d] = at[d]
      BY <1>0, <2>2 DEF Move
    <3> QED
      BY <1>0, <2>1, <3>2, <3>6, <3>7 DEF DriveTypeOK, Types
  <2>3. CASE Move(c, "create") /\ UNCHANGED job
    <3>1. at' \in [Client -> At] /\ at'[c] = "create" /\ \A d \in Client \ {c} : at'[d] = at[d]
      BY <1>0, <2>3 DEF Move
    <3> QED
      BY <1>0, <2>1, <2>3, <3>1 DEF DriveTypeOK, Types
  <2> QED
    BY <1>8, <2>2, <2>3 DEF Find
<1>9. ASSUME NEW c \in Client, NoLocalFile(c) PROVE Types
  <2>1. /\ UNCHANGED <<local, drive, creators, edits, faults>>
        /\ at[c] \in {"update", "create"} /\ job[c] # None /\ job[c] \in Job
    BY <1>9 DEF NoLocalFile, DriveTypeOK
  <2>2. CASE job' = [job EXCEPT ![c].guarded = FALSE] /\ Move(c, "find") /\ UNCHANGED result
    <3>1. [job[c] EXCEPT !.guarded = FALSE] \in Job
      BY <2>1 DEF Job
    <3>2. job' = [job EXCEPT ![c] = [job[c] EXCEPT !.guarded = FALSE]] /\ None \notin Job
      BY <2>2, GoogleDriveAssumption
    <3>3. /\ job' \in [Client -> Job \cup {None}] /\ job'[c] # None
          /\ \A d \in Client \ {c} : job'[d] = job[d]
      BY <3>1, <3>2 DEF DriveTypeOK
    <3>4. at' \in [Client -> At] /\ at'[c] = "find" /\ \A d \in Client \ {c} : at'[d] = at[d]
      BY <1>0, <2>2 DEF Move
    <3> QED
      BY <1>0, <2>1, <2>2, <3>3, <3>4 DEF DriveTypeOK, Types
  <2>3. CASE DriveFails(c) /\ UNCHANGED job
    BY <1>6, <2>1, <2>3
  <2> QED
    BY <1>9, <2>2, <2>3 DEF NoLocalFile
<1>10. ASSUME NEW c \in Client, at[c] \in {"update", "create"}, local[job[c].path] # None
       PROVE  /\ Sent(c) \in Content /\ job[c] \in Job
              /\ \A id \in 1 .. Len(drive), fresh \in BOOLEAN :
                   [id |-> id, path |-> job[c].path, version |-> job[c].version, fresh |-> fresh]
                     \in Answers(Len(drive))
              /\ \A fresh \in BOOLEAN :
                   [id |-> Len(drive) + 1, path |-> job[c].path, version |-> job[c].version, fresh |-> fresh]
                     \in Answers(Len(drive) + 1)
  <2>1. job[c] \in Job
    BY <1>10 DEF DriveTypeOK
  <2>2. job[c].path \in Path /\ job[c].version \in Nat \cup {None} /\ job[c].alone \in BOOLEAN
    BY <2>1 DEF Job
  <2>3. Sent(c) \in Content
    BY <1>10, <2>2 DEF Sent, Content, DriveTypeOK
  <2> QED
    BY <1>0, <2>1, <2>2, <2>3 DEF Answers
<1>11. ASSUME NEW c \in Client, UpdateFile(c) PROVE Types
  <2>1. at[c] = "update" /\ job[c].id \in DOMAIN drive /\ local[job[c].path] # None
    BY <1>11 DEF UpdateFile, DriveTypeOK
  <2>2. CASE drive' = [drive EXCEPT ![job[c].id].content = Sent(c)] /\ Returns(c, job[c].id)
    <3>1. drive' \in Seq(OnDrive) /\ Len(drive') = Len(drive)
      BY <1>10, <2>1, <2>2, FileChanged
    <3>2. faults' \in 0 .. MaxFaults /\ UNCHANGED <<local, creators, edits>>
      BY <1>11 DEF UpdateFile, DriveTypeOK
    <3>3. [id |-> job[c].id, path |-> job[c].path, version |-> job[c].version, fresh |-> job[c].alone]
            \in Answers(Len(drive'))
      BY <1>0, <1>10, <2>1, <3>1 DEF Job
    <3> QED
      BY <1>0, <1>4, <2>1, <2>2, <3>1, <3>2, <3>3 DEF Returns
  <2>3. CASE DriveFails(c) /\ UNCHANGED <<drive, job>>
    BY <1>6, <1>11, <2>3 DEF UpdateFile
  <2> QED
    BY <1>11, <2>2, <2>3 DEF UpdateFile
<1>12. ASSUME NEW c \in Client, CreateFile(c) PROVE Types
  <2>1. at[c] = "create" /\ local[job[c].path] # None
    BY <1>12 DEF CreateFile
  <2>2. drive' = Append(drive, [exists |-> TRUE, content |-> Sent(c)]) /\ Returns(c, Len(drive) + 1)
    BY <1>12 DEF CreateFile
  <2>3. [exists |-> TRUE, content |-> Sent(c)] \in OnDrive
    BY <1>10, <2>1 DEF OnDrive
  <2>4. drive' \in Seq(OnDrive) /\ Len(drive') = Len(drive) + 1
    BY <1>0, <2>2, <2>3
  <2>5. faults' \in 0 .. MaxFaults /\ UNCHANGED <<local, creators, edits>>
    BY <1>12 DEF CreateFile, DriveTypeOK
  <2>6. [id |-> Len(drive) + 1, path |-> job[c].path, version |-> job[c].version, fresh |-> job[c].alone]
          \in Answers(Len(drive'))
    BY <1>10, <2>1, <2>4 DEF Job
  <2>7. Len(drive') >= Len(drive) /\ "idle" \in {"idle", "find"} /\ at[c] # "idle"
    BY <1>0, <2>1, <2>4
  <2> QED
    BY <1>4, <2>2, <2>4, <2>5, <2>6, <2>7 DEF Returns
<1>13. ASSUME NEW c \in Client, DeleteByName(c) PROVE Types
  <2>1. PICK f \in Files : drive' = [drive EXCEPT ![f].exists = FALSE]
    BY <1>13 DEF DeleteByName
  <2>2. drive' \in Seq(OnDrive) /\ Len(drive') = Len(drive)
    <3>1. f \in DOMAIN drive /\ drive[f].content \in Content
      BY <1>0, OnDriveType
    <3> QED
      BY <2>1, <3>1, FileChanged
  <2>3. /\ faults' \in 0 .. MaxFaults /\ UNCHANGED <<local, creators, edits>>
        /\ at' = at /\ Disturbs(c, None)
    BY <1>13 DEF DeleteByName, DriveTypeOK
  <2> QED
    BY <1>0, <1>4, <2>2, <2>3
<1>14. ASSUME NEW c \in Client, DriveRequestFails(c) PROVE Types
  <2>1. /\ faults' \in 0 .. MaxFaults /\ UNCHANGED <<local, creators, edits>>
        /\ Disturbs(c, None) /\ Move(c, "idle") /\ at[c] # "idle"
        /\ at[c] \in {"update", "create"} => local[job[c].path] # None
        /\ drive' \in {drive, Unanswered(c)}
    BY GoogleDriveAssumption, <1>14 DEF DriveRequestFails, DriveTypeOK
  <2>2. at[c] \in {"delete", "update"} => job[c].id \in DOMAIN drive
    BY DEF DriveTypeOK
  <2>3. drive' \in Seq(OnDrive) /\ Len(drive') >= Len(drive)
    <3>1. CASE at[c] = "create"
      <4>1. Unanswered(c) = Append(drive, [exists |-> TRUE, content |-> Sent(c)])
        BY <3>1 DEF Unanswered
      <4>2. [exists |-> TRUE, content |-> Sent(c)] \in OnDrive
        BY <1>10, <2>1, <3>1 DEF OnDrive
      <4>3. Unanswered(c) \in Seq(OnDrive) /\ Len(Unanswered(c)) = Len(drive) + 1
        BY <1>0, <4>1, <4>2
      <4> QED
        BY <1>0, <2>1, <4>3
    <3>2. CASE at[c] = "update"
      <4>1. Unanswered(c) = [drive EXCEPT ![job[c].id].content = Sent(c)]
        BY <3>2 DEF Unanswered
      <4>2. job[c].id \in DOMAIN drive /\ Sent(c) \in Content
        BY <1>10, <2>1, <2>2, <3>2
      <4> DEFINE f == job[c].id
                 content == Sent(c)
                 q == [drive EXCEPT ![f].content = content]
      <4>3. f \in DOMAIN drive /\ content \in Content /\ q = [drive EXCEPT ![f].content = content]
        BY <4>2
      <4> HIDE DEF f, content, q
      <4>5. q \in Seq(OnDrive) /\ Len(q) = Len(drive)
        BY <4>3, FileChanged
      <4>4. Unanswered(c) \in Seq(OnDrive) /\ Len(Unanswered(c)) = Len(drive)
        BY <4>1, <4>5 DEF f, content, q
      <4> QED
        BY <1>0, <2>1, <4>4
    <3>3. CASE at[c] = "delete"
      <4>1. Unanswered(c) = [drive EXCEPT ![job[c].id].exists = FALSE]
        BY <3>3 DEF Unanswered
      <4>2. job[c].id \in DOMAIN drive /\ drive[job[c].id].content \in Content
        BY <2>2, <3>3, OnDriveType
      <4>3. Unanswered(c) \in Seq(OnDrive) /\ Len(Unanswered(c)) = Len(drive)
        BY <4>1, <4>2, FileChanged
      <4> QED
        BY <1>0, <2>1, <4>3
    <3>4. CASE at[c] \notin {"create", "update", "delete"}
      <4>1. Unanswered(c) = drive
        BY <3>4 DEF Unanswered
      <4> QED
        BY <1>0, <2>1, <4>1
    <3> QED
      BY <3>1, <3>2, <3>3, <3>4
  <2> QED
    BY <1>0, <1>4, <2>1, <2>3
<1>15. ASSUME NEW p \in Path, EditLocal(p) PROVE Types
  <2>1. local' \in [Path -> Nat \cup {None}] /\ edits' \in 0 .. MaxEdits
    BY GoogleDriveAssumption, <1>15 DEF EditLocal, DriveTypeOK
  <2> QED
    BY <1>0, <1>15, <2>1 DEF EditLocal, DriveTypeOK, Types
<1>16. CASE Elsewhere
  BY <1>0, <1>16 DEF Elsewhere, DriveTypeOK, Types
<1> QED
  BY <1>3, <1>5, <1>7, <1>8, <1>9, <1>11, <1>12, <1>13, <1>14, <1>15, <1>16 DEF DriveAction, DriveStep

(* The local variables of a call: new ones know the version of the local file. *)
LEMMA JobsKeep ==
  ASSUME DriveTypeOK, NEW c \in Client, DriveAction(c)
  PROVE  /\ local' = local /\ edits' = edits
         /\ \A d \in Client : job'[d] # None =>
              \/ job[d] # None /\ job'[d].path = job[d].path /\ job'[d].version = job[d].version
              \/ job'[d].path \in Path /\ job'[d].version = local[job'[d].path]
<1> DEFINE Keeps == \A d \in Client : job'[d] # None =>
              \/ job[d] # None /\ job'[d].path = job[d].path /\ job'[d].version = job[d].version
              \/ job'[d].path \in Path /\ job'[d].version = local[job'[d].path]
<1>0. Len(drive) \in Nat /\ \A f \in Files : f \in Nat
  BY OnDriveType DEF Files
<1>1. local' = local /\ edits' = edits
  BY DEF DriveAction, DriveStep, DeleteOld, Find, NoLocalFile, UpdateFile, CreateFile, DriveRequestFails,
         DeleteByName, Upload, Get
<1>2. ASSUME NEW p \in Path, NEW id \in Nat, NEW guarded \in BOOLEAN, Begin(c, p, id, guarded)
      PROVE  Keeps
  BY <1>2, BeginsType
<1>3. ASSUME NEW answer, NEW n \in Nat, n >= Len(drive), answer \in Answers(n) \cup {None},
             Disturbs(c, answer)
      PROVE  Keeps
  BY <1>3, DisturbsType
<1>4. ASSUME Disturbs(c, None) PROVE Keeps
  <2>1. None \in Answers(Len(drive)) \cup {None} /\ Len(drive) >= Len(drive)
    BY <1>0
  <2> HIDE DEF Keeps
  <2> QED
    BY <1>0, <1>3, <1>4, <2>1
<1>5. ASSUME job[c] # None, NEW x \in Job, x.path = job[c].path, x.version = job[c].version,
             job' = [job EXCEPT ![c] = x]
      PROVE  Keeps
  BY <1>5 DEF DriveTypeOK
<1>6. ASSUME job' = job PROVE Keeps
  BY <1>6
<1>7. ASSUME NEW id \in 1 .. Len(drive) + 1, Returns(c, id), at[c] # "idle" PROVE Keeps
  <2>1. job[c] \in Job
    BY <1>7 DEF DriveTypeOK
  <2>2. [id |-> id, path |-> job[c].path, version |-> job[c].version, fresh |-> job[c].alone]
          \in Answers(Len(drive) + 1)
    BY <2>1 DEF Answers, Job
  <2>3. Len(drive) + 1 \in Nat /\ Len(drive) + 1 >= Len(drive)
    BY <1>0
  <2> QED
    BY <1>3, <1>7, <2>2, <2>3 DEF Returns
<1> HIDE DEF Keeps
<1>8. ASSUME NEW p \in Path, Upload(c, p) PROVE Keeps
  <2>1. \E id \in Nat : Begin(c, p, id, FALSE)
    BY <1>0, <1>8 DEF Upload, Found
  <2> QED
    BY <1>2, <2>1
<1>9. ASSUME NEW p \in Path, NEW forced \in BOOLEAN, Get(c, p, forced) PROVE Keeps
  <2>1. \E id \in Nat, guarded \in BOOLEAN : Begin(c, p, id, guarded)
    BY <1>0, <1>9 DEF Get
  <2> QED
    BY <1>2, <2>1
<1>10. ASSUME Find(c) PROVE Keeps
  <2>1. job[c] # None /\ job[c] \in Job
    BY <1>10 DEF Find, DriveTypeOK
  <2>2. CASE \E f \in Files : job' = [job EXCEPT ![c].id = f]
    <3>1. PICK f \in Files : job' = [job EXCEPT ![c].id = f]
      BY <2>2
    <3>2. [job[c] EXCEPT !.id = f] \in Job
      BY <1>0, <2>1 DEF Job
    <3>3. /\ [job[c] EXCEPT !.id = f].path = job[c].path
          /\ [job[c] EXCEPT !.id = f].version = job[c].version
          /\ job' = [job EXCEPT ![c] = [job[c] EXCEPT !.id = f]]
      BY <2>1, <3>1 DEF Job
    <3> QED
      BY <1>5, <2>1, <3>2, <3>3
  <2> QED
    BY <1>6, <1>10, <2>2 DEF Find
<1>11. ASSUME NoLocalFile(c) PROVE Keeps
  <2>1. job[c] # None /\ job[c] \in Job
    BY <1>11 DEF NoLocalFile, DriveTypeOK
  <2>2. CASE job' = [job EXCEPT ![c].guarded = FALSE]
    <3>1. [job[c] EXCEPT !.guarded = FALSE] \in Job
      BY <2>1 DEF Job
    <3>2. /\ [job[c] EXCEPT !.guarded = FALSE].path = job[c].path
          /\ [job[c] EXCEPT !.guarded = FALSE].version = job[c].version
          /\ job' = [job EXCEPT ![c] = [job[c] EXCEPT !.guarded = FALSE]]
      BY <2>1, <2>2 DEF Job
    <3> QED
      BY <1>5, <2>1, <3>1, <3>2
  <2> QED
    BY <1>6, <1>11, <2>2 DEF NoLocalFile
<1>12. ASSUME DeleteOld(c) \/ DeleteByName(c) \/ DriveRequestFails(c) PROVE Keeps
  BY <1>4, <1>6, <1>12 DEF DeleteOld, DeleteByName, DriveRequestFails
<1>13. ASSUME UpdateFile(c) PROVE Keeps
  <2>1. at[c] = "update" /\ job[c].id \in 1 .. Len(drive) + 1
    BY <1>0, <1>13, OnDriveType DEF UpdateFile, DriveTypeOK
  <2> QED
    BY <1>6, <1>7, <1>13, <2>1 DEF UpdateFile
<1>14. ASSUME CreateFile(c) PROVE Keeps
  <2>1. at[c] = "create" /\ Len(drive) + 1 \in 1 .. Len(drive) + 1 /\ Returns(c, Len(drive) + 1)
    BY <1>0, <1>14 DEF CreateFile
  <2> QED
    BY <1>7, <2>1
<1> QED
  BY <1>1, <1>8, <1>9, <1>10, <1>11, <1>12, <1>13, <1>14 DEF DriveAction, DriveStep, Keeps

LEMMA LocalNext ==
  ASSUME DriveTypeOK, LocalInv,
         \/ \E c \in Client : DriveAction(c)
         \/ \E p \in Path : EditLocal(p)
         \/ Elsewhere
  PROVE  LocalInv'
<1>0. edits \in Nat /\ local \in [Path -> Nat \cup {None}] /\ None \notin Int
      /\ \A c \in Client : job[c] # None => job[c].version \in Nat \cup {None} /\ job[c].path \in Path
  BY GoogleDriveAssumption DEF DriveTypeOK, Job
<1>1. ASSUME NEW c \in Client, DriveAction(c) PROVE LocalInv'
  <2>1. /\ local' = local /\ edits' = edits
        /\ \A d \in Client : job'[d] # None =>
              \/ job[d] # None /\ job'[d].path = job[d].path /\ job'[d].version = job[d].version
              \/ job'[d].path \in Path /\ job'[d].version = local[job'[d].path]
    BY <1>1, JobsKeep
  <2> QED
    BY <1>0, <2>1 DEF LocalInv
<1>2. ASSUME NEW p \in Path, EditLocal(p) PROVE LocalInv'
  <2>1. edits' = edits + 1 /\ job' = job
    BY <1>2 DEF EditLocal
  <2>2. \A q \in Path : local'[q] # None =>
          local'[q] = edits + 2 \/ (local[q] # None /\ local'[q] = local[q])
    BY <1>0, <1>2 DEF EditLocal
  <2> QED
    BY <1>0, <2>1, <2>2 DEF LocalInv
<1>3. CASE Elsewhere
  BY <1>3 DEF Elsewhere, LocalInv
<1> QED
  BY <1>1, <1>2, <1>3

(* What a call returns is fresh only if it has just sent the file itself. *)
LEMMA ResultsKeep ==
  ASSUME DriveTypeOK, NEW c \in Client, DriveAction(c)
  PROVE  \A d \in Client : result'[d] # None /\ result'[d].fresh =>
           \/ result[d] # None /\ result'[d] = result[d] /\ drive' = drive
           \/ /\ drive'[result'[d].id].content = Sent(c)
              /\ result'[d].path = job[c].path /\ result'[d].version = job[c].version
              /\ job[c] # None /\ local[job[c].path] # None
<1> DEFINE Keeps == \A d \in Client : result'[d] # None /\ result'[d].fresh =>
           \/ result[d] # None /\ result'[d] = result[d] /\ drive' = drive
           \/ /\ drive'[result'[d].id].content = Sent(c)
              /\ result'[d].path = job[c].path /\ result'[d].version = job[c].version
              /\ job[c] # None /\ local[job[c].path] # None
<1>0. Len(drive) \in Nat /\ DOMAIN drive = 1 .. Len(drive) /\ Len(drive) >= Len(drive)
  BY OnDriveType
<1>1. ASSUME result' = result, drive' = drive PROVE Keeps
  BY <1>1
<1>2. ASSUME drive' = drive, NEW x, result' = [result EXCEPT ![c] = x],
             x = None \/ ~x.fresh
      PROVE  Keeps
  BY <1>2 DEF DriveTypeOK
<1>3. ASSUME Disturbs(c, None) PROVE Keeps
  <2>1. /\ result'[c] = None
        /\ \A d \in Client \ {c} : result'[d] # None => ~result'[d].fresh
    BY <1>0, <1>3, DisturbsType
  <2> QED
    BY <2>1
<1>4. ASSUME NEW id \in 1 .. Len(drive) + 1, Returns(c, id), at[c] # "idle", local[job[c].path] # None,
             drive'[id].content = Sent(c)
      PROVE  Keeps
  <2> DEFINE answer == [id |-> id, path |-> job[c].path, version |-> job[c].version, fresh |-> job[c].alone]
  <2>1. job[c] \in Job /\ job[c] # None
    BY <1>4 DEF DriveTypeOK
  <2>2. answer \in Answers(Len(drive) + 1)
    BY <2>1 DEF Answers, Job
  <2>3. Len(drive) + 1 \in Nat /\ Len(drive) + 1 >= Len(drive)
    BY <1>0
  <2>4. Disturbs(c, answer)
    BY <1>4 DEF Returns
  <2>5. answer.id = id /\ answer.path = job[c].path /\ answer.version = job[c].version
    OBVIOUS
  <2> HIDE DEF answer
  <2>6. /\ result'[c] = answer
        /\ \A d \in Client \ {c} : result'[d] # None => ~result'[d].fresh
    BY <2>2, <2>3, <2>4, DisturbsType
  <2> QED
    BY <1>4, <2>1, <2>5, <2>6
<1> HIDE DEF Keeps
<1>5. ASSUME NEW p \in Path, Upload(c, p) PROVE Keeps
  BY <1>1, <1>5 DEF Upload
<1>6. ASSUME NEW p \in Path, NEW forced \in BOOLEAN, Get(c, p, forced) PROVE Keeps
  <2>1. drive' = drive
    BY <1>6 DEF Get
  <2>2. CASE result' = result
    BY <1>1, <2>1, <2>2
  <2>3. ASSUME NEW f \in Files,
               result' = [result EXCEPT ![c] = [id |-> f, path |-> p, version |-> local[p], fresh |-> FALSE]]
        PROVE  Keeps
    <3> DEFINE x == [id |-> f, path |-> p, version |-> local[p], fresh |-> FALSE]
    <3>1. ~x.fresh
      OBVIOUS
    <3> HIDE DEF x
    <3>2. result' = [result EXCEPT ![c] = x]
      BY <2>3 DEF x
    <3> QED
      BY <1>2, <2>1, <3>1, <3>2
  <2> QED
    BY <1>6, <2>2, <2>3 DEF Get
<1>7. ASSUME Find(c) PROVE Keeps
  BY <1>1, <1>7 DEF Find
<1>8. ASSUME DriveFails(c), drive' = drive PROVE Keeps
  BY <1>2, <1>8 DEF DriveFails
<1>9. ASSUME NoLocalFile(c) PROVE Keeps
  BY <1>1, <1>8, <1>9 DEF NoLocalFile
<1>10. ASSUME DeleteOld(c) \/ DeleteByName(c) \/ DriveRequestFails(c) PROVE Keeps
  BY <1>3, <1>8, <1>10 DEF DeleteOld, DeleteByName, DriveRequestFails
<1>11. ASSUME UpdateFile(c) PROVE Keeps
  <2> DEFINE f == job[c].id
  <2>1. at[c] = "update" /\ local[job[c].path] # None /\ f \in DOMAIN drive
    BY <1>11 DEF UpdateFile, DriveTypeOK
  <2>2. CASE drive' = [drive EXCEPT ![f].content = Sent(c)] /\ Returns(c, f)
    <3>1. drive[f] \in OnDrive
      BY <2>1, OnDriveType
    <3>2. drive' = [drive EXCEPT ![f] = [drive[f] EXCEPT !.content = Sent(c)]]
      BY <2>2
    <3>3. [drive[f] EXCEPT !.content = Sent(c)].content = Sent(c)
      BY <3>1 DEF OnDrive
    <3> HIDE DEF f
    <3>4. drive'[f].content = Sent(c)
      BY <2>1, <3>2, <3>3
    <3>5. f \in 1 .. Len(drive) + 1
      BY <1>0, <2>1
    <3> QED
      BY <1>4, <2>1, <2>2, <3>4, <3>5
  <2> QED
    BY <1>8, <1>11, <2>2 DEF UpdateFile
<1>12. ASSUME CreateFile(c) PROVE Keeps
  <2>1. /\ at[c] = "create" /\ local[job[c].path] # None /\ Returns(c, Len(drive) + 1)
        /\ drive' = Append(drive, [exists |-> TRUE, content |-> Sent(c)])
    BY <1>12 DEF CreateFile
  <2>2. drive'[Len(drive) + 1].content = Sent(c) /\ Len(drive) + 1 \in 1 .. Len(drive) + 1
    <3>1. drive \in Seq(OnDrive)
      BY OnDriveType
    <3>2. drive'[Len(drive) + 1] = [exists |-> TRUE, content |-> Sent(c)]
      BY <2>1, <3>1
    <3> QED
      BY <1>0, <3>2
  <2> QED
    BY <1>4, <2>1, <2>2
<1> QED
  BY <1>5, <1>6, <1>7, <1>9, <1>10, <1>11, <1>12 DEF DriveAction, DriveStep, Keeps

LEMMA FreshNext ==
  ASSUME DriveTypeOK, LocalInv, FreshInv,
         \/ \E c \in Client : DriveAction(c)
         \/ \E p \in Path : EditLocal(p)
         \/ Elsewhere
  PROVE  FreshInv'
<1>1. ASSUME NEW c \in Client, DriveAction(c) PROVE FreshInv'
  <2> SUFFICES ASSUME NEW d \in Client, result'[d] # None, result'[d].fresh
               PROVE  /\ drive'[result'[d].id].content.path = result'[d].path
                      /\ result'[d].version # None =>
                           drive'[result'[d].id].content.version >= result'[d].version
    BY DEF FreshInv
  <2>1. CASE result[d] # None /\ result'[d] = result[d] /\ drive' = drive
    BY <2>1 DEF FreshInv
  <2>2. CASE /\ drive'[result'[d].id].content = Sent(c)
             /\ result'[d].path = job[c].path /\ result'[d].version = job[c].version
             /\ job[c] # None /\ local[job[c].path] # None
    <3>1. job[c].version # None => local[job[c].path] >= job[c].version
      <4>1. job[c].version \in Nat \cup {None} /\ local[job[c].path] \in Nat
        BY <2>2 DEF DriveTypeOK, Job
      <4> QED
        BY <2>2, <4>1 DEF LocalInv
    <3> QED
      BY <2>2, <3>1 DEF Sent
  <2> QED
    BY <1>1, <2>1, <2>2, ResultsKeep
<1>2. ASSUME NEW p \in Path, EditLocal(p) PROVE FreshInv'
  BY <1>2 DEF EditLocal, FreshInv
<1>3. CASE Elsewhere
  BY <1>3 DEF Elsewhere, FreshInv
<1> QED
  BY <1>1, <1>2, <1>3

(* What a step of Drive does to the files of the name, and to who creates one. *)
Fewer ==
  /\ Files' \subseteq Files /\ creators' = creators
  /\ \A d \in Client : at'[d] = "create" => at[d] = "create"

Sets(c) ==
  /\ Files = {} /\ Files' = {}
  /\ creators' = (creators \/ \E d \in Client \ {c} : at[d] = "create")
  /\ \A d \in Client \ {c} : at'[d] = at[d]

Makes(c) ==
  /\ at[c] = "create" /\ at'[c] = "idle" /\ creators' = creators
  /\ \A d \in Client \ {c} : at'[d] = at[d]
  /\ Files' \subseteq Files \cup {Len(drive) + 1}

LEMMA FilesKeep ==
  ASSUME DriveTypeOK, NEW c \in Client, DriveAction(c)
  PROVE  Fewer \/ Sets(c) \/ Makes(c)
<1>0. /\ Len(drive) \in Nat /\ DOMAIN drive = 1 .. Len(drive) /\ Files' = {f \in DOMAIN drive' : drive'[f].exists}
      /\ at \in [Client -> {"idle", "delete", "find", "update", "create"}]
  BY OnDriveType DEF Files, DriveTypeOK
<1>1. ASSUME NEW to \in {"idle", "find", "delete", "update"}, Move(c, to)
      PROVE  \A d \in Client : at'[d] = "create" => at[d] = "create"
  BY <1>0, <1>1 DEF Move
<1>2. ASSUME drive' = drive PROVE Files' = Files
  BY <1>2 DEF Files
<1>3. ASSUME NEW f \in DOMAIN drive,
             \/ drive' = [drive EXCEPT ![f].exists = FALSE]
             \/ \E content \in Content : drive' = [drive EXCEPT ![f].content = content]
      PROVE  Files' \subseteq Files
  <2>1. /\ Len(drive') = Len(drive) /\ drive' \in Seq(OnDrive)
        /\ \A g \in DOMAIN drive : g # f => drive'[g] = drive[g]
        /\ drive'[f].exists => drive[f].exists
    BY <1>3, FileChanged
  <2>2. DOMAIN drive' = DOMAIN drive
    BY <1>0, <2>1
  <2> QED
    BY <1>0, <2>1, <2>2 DEF Files
<1>4. ASSUME at[c] # "idle", local[job[c].path] # None
      PROVE  Sent(c) \in Content
  <2>1. job[c].path \in Path /\ local[job[c].path] \in Nat
    BY <1>4 DEF DriveTypeOK, Job
  <2> QED
    BY <2>1 DEF Sent, Content
<1>5. ASSUME drive' = Append(drive, [exists |-> TRUE, content |-> Sent(c)])
      PROVE  Files' \subseteq Files \cup {Len(drive) + 1}
  <2>1. drive \in Seq(OnDrive)
    BY OnDriveType
  <2>2. /\ DOMAIN drive' = 1 .. Len(drive) + 1
        /\ \A g \in DOMAIN drive : drive'[g] = drive[g]
    BY <1>0, <1>5, <2>1
  <2>3. DOMAIN drive' = DOMAIN drive \cup {Len(drive) + 1}
    BY <1>0, <2>2
  <2> QED
    BY <1>0, <2>2, <2>3 DEF Files
<1>6. ASSUME Move(c, "create"), Files = {}, drive' = drive,
             creators' = (creators \/ \E d \in Client \ {c} : at[d] = "create")
      PROVE  Sets(c)
  BY <1>0, <1>2, <1>6 DEF Move, Sets
<1>7. ASSUME NEW p \in Path, Upload(c, p) PROVE Fewer \/ Sets(c)
  <2>1. drive' = drive /\ Files' = Files
    BY <1>2, <1>7 DEF Upload
  <2>2. CASE Move(c, "update") /\ UNCHANGED creators
    BY <1>1, <2>1, <2>2 DEF Fewer
  <2> QED
    BY <1>6, <1>7, <2>1, <2>2 DEF Upload, Found
<1>8. ASSUME NEW p \in Path, NEW forced \in BOOLEAN, Get(c, p, forced) PROVE Fewer
  <2>1. Files' = Files /\ creators' = creators
    BY <1>2, <1>8 DEF Get
  <2>2. Move(c, "delete") \/ Move(c, "find") \/ at' = at
    BY <1>8 DEF Get
  <2> QED
    BY <1>1, <2>1, <2>2 DEF Fewer
<1>9. ASSUME Find(c) PROVE Fewer \/ Sets(c)
  <2>1. drive' = drive /\ Files' = Files
    BY <1>2, <1>9 DEF Find
  <2>2. CASE Move(c, "update") /\ UNCHANGED creators
    BY <1>1, <2>1, <2>2 DEF Fewer
  <2> QED
    BY <1>6, <1>9, <2>1, <2>2 DEF Find
<1>10. ASSUME NoLocalFile(c) PROVE Fewer
  <2>1. Files' = Files /\ creators' = creators
    BY <1>2, <1>10 DEF NoLocalFile
  <2>2. Move(c, "idle") \/ Move(c, "find")
    BY <1>10 DEF NoLocalFile, DriveFails
  <2> QED
    BY <1>1, <2>1, <2>2 DEF Fewer
<1>11. ASSUME DeleteOld(c) PROVE Fewer
  <2>1. creators' = creators /\ job[c].id \in DOMAIN drive
    BY <1>11 DEF DeleteOld, DriveTypeOK
  <2>2. drive' = [drive EXCEPT ![job[c].id].exists = FALSE] \/ drive' = drive
    BY <1>11 DEF DeleteOld
  <2>3. Move(c, "idle") \/ Move(c, "find")
    BY <1>11 DEF DeleteOld, DriveFails
  <2>4. Files' \subseteq Files
    BY <1>2, <1>3, <2>1, <2>2
  <2> QED
    BY <1>1, <2>1, <2>3, <2>4 DEF Fewer
<1>12. ASSUME DeleteByName(c) PROVE Fewer
  <2>1. creators' = creators /\ at' = at
    BY <1>12 DEF DeleteByName
  <2>2. \E f \in DOMAIN drive : drive' = [drive EXCEPT ![f].exists = FALSE]
    BY <1>12 DEF DeleteByName, Files
  <2>3. Files' \subseteq Files
    BY <1>3, <2>2
  <2> QED
    BY <2>1, <2>3 DEF Fewer
<1>13. ASSUME UpdateFile(c) PROVE Fewer
  <2>1. /\ creators' = creators /\ job[c].id \in DOMAIN drive /\ Sent(c) \in Content
        /\ Move(c, "idle")
    BY <1>4, <1>13 DEF UpdateFile, DriveTypeOK, DriveFails, Returns
  <2>2. drive' = [drive EXCEPT ![job[c].id].content = Sent(c)] \/ drive' = drive
    BY <1>13 DEF UpdateFile
  <2>3. Files' \subseteq Files
    BY <1>2, <1>3, <2>1, <2>2
  <2> QED
    BY <1>1, <2>1, <2>3 DEF Fewer
<1>14. ASSUME at[c] = "create", Move(c, "idle"), creators' = creators,
              drive' = Append(drive, [exists |-> TRUE, content |-> Sent(c)])
       PROVE  Makes(c)
  BY <1>0, <1>5, <1>14 DEF Makes, Move
<1>15. ASSUME CreateFile(c) PROVE Makes(c)
  BY <1>14, <1>15 DEF CreateFile, Returns
<1>16. ASSUME DriveRequestFails(c) PROVE Fewer \/ Makes(c)
  <2>1. /\ creators' = creators /\ Move(c, "idle") /\ at[c] # "idle"
        /\ at[c] \in {"update", "create"} => Sent(c) \in Content
        /\ at[c] \in {"delete", "update"} => job[c].id \in DOMAIN drive
    BY <1>4, <1>16 DEF DriveRequestFails, DriveTypeOK
  <2>2. CASE drive' = drive
    BY <1>1, <1>2, <2>1, <2>2 DEF Fewer
  <2>3. CASE drive' = Unanswered(c)
    <3>1. CASE at[c] = "create"
      <4>1. drive' = Append(drive, [exists |-> TRUE, content |-> Sent(c)])
        BY <2>3, <3>1 DEF Unanswered
      <4> QED
        BY <1>14, <2>1, <3>1, <4>1
    <3>2. CASE at[c] # "create"
      <4>1. \/ at[c] = "update" /\ drive' = [drive EXCEPT ![job[c].id].content = Sent(c)]
            \/ at[c] = "delete" /\ drive' = [drive EXCEPT ![job[c].id].exists = FALSE]
            \/ drive' = drive
        BY <1>0, <2>3, <3>2 DEF Unanswered
      <4>2. Files' \subseteq Files
        BY <1>2, <1>3, <2>1, <4>1
      <4> QED
        BY <1>1, <2>1, <4>2 DEF Fewer
    <3> QED
      BY <3>1, <3>2
  <2> QED
    BY <1>16, <2>2, <2>3 DEF DriveRequestFails
<1> QED
  BY <1>7, <1>8, <1>9, <1>10, <1>11, <1>12, <1>13, <1>15, <1>16 DEF DriveAction, DriveStep

LEMMA OneNext ==
  ASSUME DriveTypeOK, OneInv,
         \/ \E c \in Client : DriveAction(c)
         \/ \E p \in Path : EditLocal(p)
         \/ Elsewhere
  PROVE  OneInv'
<1>1. ASSUME NEW c \in Client, DriveAction(c) PROVE OneInv'
  <2>1. CASE Fewer
    BY <2>1 DEF Fewer, OneInv
  <2>2. CASE Sets(c)
    BY <2>2 DEF Sets, OneInv
  <2>3. CASE Makes(c)
    <3> SUFFICES ASSUME ~creators
                 PROVE  /\ \A f, g \in Files' : f = g
                        /\ \A d \in Client : at'[d] # "create"
      BY <2>3 DEF Makes, OneInv
    <3>1. Files = {} /\ \A d \in Client \ {c} : at[d] # "create"
      BY <2>3 DEF Makes, OneInv
    <3> QED
      BY <2>3, <3>1 DEF Makes
  <2> QED
    BY <1>1, <2>1, <2>2, <2>3, FilesKeep
<1>2. ASSUME UNCHANGED <<drive, at, creators>> PROVE OneInv'
  BY <1>2 DEF OneInv, Files
<1> QED
  BY <1>1, <1>2 DEF EditLocal, Elsewhere

LEMMA DriveNext ==
  ASSUME DriveInv,
         \/ \E c \in Client : DriveAction(c)
         \/ \E p \in Path : EditLocal(p)
         \/ Elsewhere
  PROVE  DriveInv'
BY DriveTypes, LocalNext, FreshNext, OneNext DEF DriveInv

LEMMA OneFile == DriveInv => OneFileOfTheName
<1> SUFFICES ASSUME DriveInv, ~creators PROVE Cardinality(Files) <= 1
  BY DEF OneFileOfTheName
<1>1. \A f, g \in Files : f = g
  BY DEF DriveInv, OneInv
<1>2. CASE Files = {}
  BY <1>2, FS_EmptySet
<1>3. ASSUME NEW f \in Files PROVE Cardinality(Files) <= 1
  <2>1. Files = {f}
    BY <1>1
  <2> QED
    BY <2>1, FS_Singleton
<1> QED
  BY <1>2, <1>3

-----------------------------------------------------------------------------
(* What a request does to the slides of a presentation.                   *)

\* r is q with x in between at n, or without the element there.
Inserts(r, q, n, x) ==
  /\ Len(r) = Len(q) + 1 /\ r[n] = x
  /\ \A i \in 1 .. Len(q) : \E j \in 1 .. Len(q) + 1 : r[j] = q[i]
  /\ \A j \in 1 .. Len(q) + 1 : j # n => \E i \in 1 .. Len(q) : r[j] = q[i]

Removes(r, q, n) ==
  /\ Len(r) = Len(q) - 1
  /\ \A i \in 1 .. Len(q) : i # n => \E j \in 1 .. Len(q) - 1 : r[j] = q[i]
  /\ \A j \in 1 .. Len(q) - 1 : \E i \in 1 .. Len(q) : r[j] = q[i]

(* The elements of two sequences, one after the other. *)
LEMMA Joined ==
  ASSUME NEW S, NEW a \in Seq(S), NEW b \in Seq(S), NEW s, s = a \o b
  PROVE  /\ s \in Seq(S) /\ Len(s) = Len(a) + Len(b)
         /\ \A i \in 1 .. Len(a) : s[i] = a[i]
         /\ \A i \in 1 .. Len(b) : s[Len(a) + i] = b[i]
OBVIOUS

(* An element that is inserted at n moves the later ones on. *)
LEMMA InsertedAt ==
  ASSUME NEW S, NEW q \in Seq(S), NEW n \in 1 .. Len(q) + 1, NEW x \in S,
         NEW r, r = InsertAt(q, n, x)
  PROVE  /\ r \in Seq(S) /\ Len(r) = Len(q) + 1 /\ r[n] = x
         /\ \A i \in 1 .. Len(q) : i < n => r[i] = q[i]
         /\ \A i \in 1 .. Len(q) : i >= n => r[i + 1] = q[i]
<1> DEFINE a == SubSeq(q, 1, n - 1)
           b == SubSeq(q, n, Len(q))
<1>1. /\ Len(q) \in Nat /\ n \in Nat
      /\ a \in Seq(S) /\ Len(a) = n - 1 /\ \A i \in 1 .. n - 1 : a[i] = q[i]
  OBVIOUS
<1>2. b \in Seq(S) /\ Len(b) = Len(q) - n + 1 /\ \A i \in 1 .. Len(q) - n + 1 : b[i] = q[i + n - 1]
  <2>1. CASE n = Len(q) + 1
    BY <2>1
  <2>2. CASE n <= Len(q)
    BY <2>2
  <2> QED
    BY <1>1, <2>1, <2>2
<1>3. InsertAt(q, n, x) = a \o <<x>> \o b
  BY DEF InsertAt
<1> HIDE DEF a, b
<1> DEFINE ax == a \o <<x>>
<1>4. /\ ax \in Seq(S) /\ Len(ax) = n /\ ax[n] = x
      /\ \A i \in 1 .. n - 1 : ax[i] = q[i]
  BY <1>1
<1> HIDE DEF ax
<1> DEFINE w == ax \o b
<1>5. /\ w \in Seq(S) /\ Len(w) = Len(q) + 1
      /\ \A i \in 1 .. n : w[i] = ax[i]
      /\ \A i \in 1 .. Len(q) - n + 1 : w[n + i] = b[i]
  <2>1. ax \in Seq(S) /\ b \in Seq(S) /\ Len(ax) = n /\ Len(b) = Len(q) - n + 1 /\ w = ax \o b
    BY <1>2, <1>4
  <2> HIDE DEF w
  <2>2. /\ w \in Seq(S) /\ Len(w) = Len(ax) + Len(b)
        /\ \A i \in 1 .. Len(ax) : w[i] = ax[i]
        /\ \A i \in 1 .. Len(b) : w[Len(ax) + i] = b[i]
    BY <2>1, Joined
  <2>3. Len(w) = Len(q) + 1
    BY <1>1, <2>1, <2>2
  <2>4. \A i \in 1 .. n : w[i] = ax[i]
    BY <2>1, <2>2, Zenon
  <2>5. \A i \in 1 .. Len(q) - n + 1 : w[n + i] = b[i]
    BY <2>1, <2>2, Zenon
  <2> QED
    BY <2>2, <2>3, <2>4, <2>5
<1>6. InsertAt(q, n, x) = w
  BY <1>3 DEF ax
<1> HIDE DEF w
<1>7. w[n] = x
  BY <1>4, <1>5
<1>8. \A i \in 1 .. Len(q) : i < n => w[i] = q[i]
  BY <1>1, <1>4, <1>5
<1>9. \A i \in 1 .. Len(q) : i >= n => w[i + 1] = q[i]
  <2> TAKE i \in 1 .. Len(q)
  <2> HAVE i >= n
  <2> DEFINE k == i - n + 1
  <2>1. k \in 1 .. Len(q) - n + 1 /\ n + k = i + 1 /\ k + n - 1 = i
    BY <1>1
  <2> HIDE DEF k
  <2>2. w[n + k] = b[k] /\ b[k] = q[k + n - 1]
    BY <1>2, <1>5, <2>1
  <2> QED
    BY <2>1, <2>2
<1>20. r = w
  BY <1>6
<1> QED
  BY <1>20, <1>5, <1>6, <1>7, <1>8, <1>9

(* And no other element comes in. *)
LEMMA Inserted ==
  ASSUME NEW S, NEW q \in Seq(S), NEW n \in 1 .. Len(q) + 1, NEW x \in S
  PROVE  InsertAt(q, n, x) \in Seq(S) /\ Inserts(InsertAt(q, n, x), q, n, x)
<1> PICK r : r = InsertAt(q, n, x)
  OBVIOUS
<1>1. Len(q) \in Nat /\ n \in Nat
  OBVIOUS
<1>2. /\ r \in Seq(S) /\ Len(r) = Len(q) + 1 /\ r[n] = x
      /\ \A i \in 1 .. Len(q) : i < n => r[i] = q[i]
      /\ \A i \in 1 .. Len(q) : i >= n => r[i + 1] = q[i]
  BY InsertedAt
<1>5. r \in Seq(S) /\ Len(r) = Len(q) + 1 /\ r[n] = x
  BY <1>2
<1>8. \A i \in 1 .. Len(q) : i < n => r[i] = q[i]
  BY <1>2
<1>9. \A i \in 1 .. Len(q) : i >= n => r[i + 1] = q[i]
  BY <1>2
<1>11. \A i \in 1 .. Len(q) : \E j \in 1 .. Len(q) + 1 : r[j] = q[i]
  <2> TAKE i \in 1 .. Len(q)
  <2>1. i \in 1 .. Len(q) + 1 /\ i + 1 \in 1 .. Len(q) + 1 /\ (i < n \/ i >= n)
    BY <1>1
  <2> QED
    BY <1>8, <1>9, <2>1
<1>10. \A j \in 1 .. Len(q) + 1 : j # n => \E i \in 1 .. Len(q) : r[j] = q[i]
  <2> TAKE j \in 1 .. Len(q) + 1
  <2> HAVE j # n
  <2>1. CASE j < n
    <3>1. j \in 1 .. Len(q)
      BY <1>1, <2>1
    <3> QED
      BY <1>8, <2>1, <3>1
  <2>2. CASE j > n
    <3>1. j - 1 \in 1 .. Len(q) /\ j - 1 >= n /\ (j - 1) + 1 = j
      BY <1>1, <2>2
    <3> QED
      BY <1>9, <2>2, <3>1
  <2> QED
    BY <1>1, <2>1, <2>2
<1>12. Inserts(r, q, n, x)
  BY <1>5, <1>10, <1>11 DEF Inserts
<1> QED
  BY <1>5, <1>12

(* An element that is removed at n has the later ones move up. *)
LEMMA RemovedAt ==
  ASSUME NEW S, NEW q \in Seq(S), NEW n \in 1 .. Len(q),
         NEW r, r = RemoveAt(q, n)
  PROVE  /\ r \in Seq(S) /\ Len(r) = Len(q) - 1
         /\ \A j \in 1 .. Len(q) - 1 : j < n => r[j] = q[j]
         /\ \A j \in 1 .. Len(q) - 1 : j >= n => r[j] = q[j + 1]
<1> DEFINE a == SubSeq(q, 1, n - 1)
           b == SubSeq(q, n + 1, Len(q))
<1>1. /\ Len(q) \in Nat /\ n \in Nat
      /\ a \in Seq(S) /\ Len(a) = n - 1 /\ \A i \in 1 .. n - 1 : a[i] = q[i]
  OBVIOUS
<1>2. b \in Seq(S) /\ Len(b) = Len(q) - n /\ \A i \in 1 .. Len(q) - n : b[i] = q[i + n]
  <2>1. CASE n = Len(q)
    BY <2>1
  <2>2. CASE n < Len(q)
    BY <2>2
  <2> QED
    BY <1>1, <2>1, <2>2
<1>3. RemoveAt(q, n) = a \o b
  BY DEF RemoveAt
<1> HIDE DEF a, b
<1> DEFINE w == a \o b
<1>4. /\ w \in Seq(S) /\ Len(w) = Len(q) - 1
      /\ \A i \in 1 .. n - 1 : w[i] = q[i]
      /\ \A i \in 1 .. Len(q) - n : w[n - 1 + i] = q[i + n]
  <2>1. /\ w \in Seq(S) /\ Len(w) = Len(a) + Len(b)
        /\ \A i \in 1 .. Len(a) : w[i] = a[i]
        /\ \A i \in 1 .. Len(b) : w[Len(a) + i] = b[i]
    <3>1. a \in Seq(S) /\ b \in Seq(S) /\ w = a \o b
      BY <1>1, <1>2
    <3> HIDE DEF w
    <3> QED
      BY <3>1, Joined
  <2>2. Len(a) = n - 1 /\ Len(b) = Len(q) - n /\ Len(q) \in Nat /\ n \in Nat
    BY <1>1, <1>2
  <2> HIDE DEF w
  <2>3. Len(w) = Len(q) - 1
    BY <2>1, <2>2
  <2>4. \A i \in 1 .. n - 1 : w[i] = q[i]
    BY <1>1, <2>1, <2>2
  <2>5. \A i \in 1 .. Len(q) - n : w[n - 1 + i] = q[i + n]
    BY <1>2, <2>1, <2>2
  <2> QED
    BY <2>1, <2>3, <2>4, <2>5
<1>5. RemoveAt(q, n) = w
  BY <1>3
<1> HIDE DEF w
<1>6. \A i \in 1 .. Len(q) : i > n => w[i - 1] = q[i]
  <2> TAKE i \in 1 .. Len(q)
  <2> HAVE i > n
  <2>1. i - n \in 1 .. Len(q) - n /\ n - 1 + (i - n) = i - 1 /\ (i - n) + n = i
    BY <1>1
  <2> QED
    BY <1>4, <2>1
<1>7. \A j \in 1 .. Len(q) - 1 : j >= n => w[j] = q[j + 1]
  <2> TAKE j \in 1 .. Len(q) - 1
  <2> HAVE j >= n
  <2>1. j + 1 \in 1 .. Len(q) /\ j + 1 > n /\ (j + 1) - 1 = j
    BY <1>1
  <2> QED
    BY <1>6, <2>1
<1>8. \A j \in 1 .. Len(q) - 1 : j < n => w[j] = q[j]
  BY <1>1, <1>4
<1>20. r = w
  BY <1>5
<1> QED
  BY <1>20, <1>4, <1>5, <1>7, <1>8

(* And it is the only one to go. *)
LEMMA Removed ==
  ASSUME NEW S, NEW q \in Seq(S), NEW n \in 1 .. Len(q)
  PROVE  RemoveAt(q, n) \in Seq(S) /\ Removes(RemoveAt(q, n), q, n)
<1> PICK r : r = RemoveAt(q, n)
  OBVIOUS
<1>1. Len(q) \in Nat /\ n \in Nat
  OBVIOUS
<1>2. /\ r \in Seq(S) /\ Len(r) = Len(q) - 1
      /\ \A j \in 1 .. Len(q) - 1 : j < n => r[j] = q[j]
      /\ \A j \in 1 .. Len(q) - 1 : j >= n => r[j] = q[j + 1]
  BY RemovedAt
<1>4. r \in Seq(S) /\ Len(r) = Len(q) - 1
  BY <1>2
<1>5. \A j \in 1 .. Len(q) - 1 : j < n => r[j] = q[j]
  BY <1>2
<1>7. \A j \in 1 .. Len(q) - 1 : j >= n => r[j] = q[j + 1]
  BY <1>2
<1>8. \A i \in 1 .. Len(q) : i # n => \E j \in 1 .. Len(q) - 1 : r[j] = q[i]
  <2> TAKE i \in 1 .. Len(q)
  <2>1. CASE i < n
    <3>1. i \in 1 .. Len(q) - 1
      BY <1>1, <2>1
    <3> QED
      BY <1>5, <2>1, <3>1
  <2>2. CASE i > n
    <3>1. i - 1 \in 1 .. Len(q) - 1 /\ i - 1 >= n /\ (i - 1) + 1 = i
      BY <1>1, <2>2
    <3> QED
      BY <1>7, <3>1
  <2> QED
    BY <1>1, <2>1, <2>2
<1>9. \A j \in 1 .. Len(q) - 1 : \E i \in 1 .. Len(q) : r[j] = q[i]
  <2> TAKE j \in 1 .. Len(q) - 1
  <2>1. CASE j >= n
    <3>1. j + 1 \in 1 .. Len(q)
      BY <1>1
    <3> QED
      BY <1>7, <2>1, <3>1
  <2>2. CASE j < n
    <3>1. j \in 1 .. Len(q)
      BY <1>1, <2>2
    <3> QED
      BY <1>5, <2>2, <3>1
  <2> QED
    BY <1>1, <2>1, <2>2
<1>10. Removes(r, q, n)
  BY <1>4, <1>8, <1>9 DEF Removes
<1> QED
  BY <1>4, <1>10

\* The promise that an image shows its file.
Shown(e) == e.of # None => e.shows.path = e.of.path /\ e.shows.version >= e.of.version

SlideOK(s) == s \in Slide /\ \A j \in DOMAIN s.elements : Shown(s.elements[j])

DeckOK(d) ==
  /\ d \in Deck /\ Len(d.slides) >= 1 /\ d.next > 1
  /\ \A i \in DOMAIN d.slides : SlideOK(d.slides[i]) /\ d.slides[i].id < d.next
  /\ \A i, j \in DOMAIN d.slides :
       d.slides[i].id = d.slides[j].id => d.slides[i].origin = d.slides[j].origin

(* Whatever a request does, a presentation stays the one it was. *)
Same(d, r) == r.exists = d.exists /\ r.first = d.first /\ r.deleted = d.deleted /\ r.next >= d.next

LEMMA DeckParts ==
  ASSUME NEW d, DeckOK(d)
  PROVE  /\ d.slides \in Seq(Slide) /\ Len(d.slides) \in Nat /\ DOMAIN d.slides = 1 .. Len(d.slides)
         /\ d.next \in Nat /\ d.first \in Nat /\ d.exists \in BOOLEAN /\ d.deleted \in SUBSET Nat
         /\ \A i \in DOMAIN d.slides : d.slides[i].id \in Nat \ {0} /\ d.slides[i].origin \in Nat \ {0}
         /\ \A id \in Ids(d) : PlaceOf(d, id) \in DOMAIN d.slides /\ d.slides[PlaceOf(d, id)].id = id
<1>1. d.slides \in Seq(Slide) /\ d.next \in Nat /\ d.first \in Nat /\ d.exists \in BOOLEAN /\ d.deleted \in SUBSET Nat
  BY DEF DeckOK, Deck
<1>2. \A i \in DOMAIN d.slides : d.slides[i].id \in Nat \ {0} /\ d.slides[i].origin \in Nat \ {0}
  BY DEF DeckOK, SlideOK, Slide
<1>3. \A id \in Ids(d) : PlaceOf(d, id) \in DOMAIN d.slides /\ d.slides[PlaceOf(d, id)].id = id
  BY DEF Ids, PlaceOf
<1> QED
  BY <1>1, <1>2, <1>3

(* The elements of a copy show what those of the original show. *)
LEMMA ElementsCopied ==
  ASSUME NEW q \in Seq(Element), \A j \in DOMAIN q : Shown(q[j]),
         NEW els, els = [i \in DOMAIN q |-> [q[i] EXCEPT !.id = None]]
  PROVE  els \in Seq(Element) /\ \A j \in DOMAIN els : Shown(els[j])
<1>1. Len(q) \in Nat /\ DOMAIN q = 1 .. Len(q) /\ \A i \in DOMAIN q : q[i] \in Element
  OBVIOUS
<1>2. \A x \in Element : /\ [x EXCEPT !.id = None] \in Element
                         /\ Shown(x) => Shown([x EXCEPT !.id = None])
  BY DEF Element, Shown
<1>3. \A i \in DOMAIN q : els[i] \in Element /\ Shown(els[i])
  BY <1>1, <1>2
<1>4. els \in [1 .. Len(q) -> Element]
  BY <1>1, <1>3
<1> QED
  BY <1>1, <1>3, <1>4

LEMMA Copied ==
  ASSUME NEW d, DeckOK(d), NEW id \in Ids(d), NEW index \in 0 .. Len(d.slides)
  PROVE  LET r == WithCopy(d, id, index) IN
         /\ DeckOK(r) /\ Same(d, r)
         /\ \A i \in DOMAIN d.slides : \E j \in DOMAIN r.slides : r.slides[j] = d.slides[i]
         /\ \E j \in DOMAIN r.slides : r.slides[j].id = d.next /\ r.slides[j].origin = d.slides[PlaceOf(d, id)].origin
<1> DEFINE old == d.slides[PlaceOf(d, id)]
           els == [i \in DOMAIN old.elements |-> [old.elements[i] EXCEPT !.id = None]]
           copy == [old EXCEPT !.id = d.next, !.elements = els]
           r == WithCopy(d, id, index)
           n == index + 1
           ins == InsertAt(d.slides, n, copy)
<1>1. /\ d.slides \in Seq(Slide) /\ Len(d.slides) \in Nat /\ DOMAIN d.slides = 1 .. Len(d.slides)
      /\ d.next \in Nat \ {0} /\ PlaceOf(d, id) \in DOMAIN d.slides /\ SlideOK(old) /\ d.next > 1
      /\ n \in 1 .. Len(d.slides) + 1 /\ d \in Deck
  BY DeckParts DEF DeckOK
<1>2. r = [d EXCEPT !.slides = ins, !.next = d.next + 1]
  BY DEF WithCopy
<1>3. els = [i \in DOMAIN old.elements |-> [old.elements[i] EXCEPT !.id = None]]
  OBVIOUS
<1>4. copy = [old EXCEPT !.id = d.next, !.elements = els]
  OBVIOUS
<1>5. ins = InsertAt(d.slides, n, copy)
  OBVIOUS
<1>6. r = WithCopy(d, id, index) /\ old = d.slides[PlaceOf(d, id)]
  OBVIOUS
<1> HIDE DEF old, els, copy, r, n, ins
<1>7. old \in Slide /\ old.elements \in Seq(Element) /\ \A j \in DOMAIN old.elements : Shown(old.elements[j])
  BY <1>1 DEF SlideOK, Slide
<1>8. els \in Seq(Element) /\ \A j \in DOMAIN els : Shown(els[j])
  BY <1>3, <1>7, ElementsCopied
<1> DEFINE next == d.next
<1>0. next \in Nat \ {0} /\ copy = [old EXCEPT !.id = next, !.elements = els] /\ next = d.next
  BY <1>1, <1>4
<1> HIDE DEF next
<1>9. copy \in Slide /\ copy.id = next /\ copy.origin = old.origin /\ copy.elements = els
  BY <1>0, <1>7, <1>8 DEF Slide
<1>10. SlideOK(copy) /\ copy.id = d.next /\ copy.origin = old.origin
  BY <1>0, <1>8, <1>9 DEF SlideOK
<1> DEFINE slides == d.slides
<1>18. /\ slides \in Seq(Slide) /\ n \in 1 .. Len(slides) + 1 /\ ins = InsertAt(slides, n, copy)
       /\ slides = d.slides
  BY <1>1, <1>5
<1> HIDE DEF slides
<1>19. ins \in Seq(Slide) /\ Inserts(ins, slides, n, copy)
  BY <1>9, <1>18, Inserted
<1>11. /\ ins \in Seq(Slide) /\ Len(ins) = Len(d.slides) + 1 /\ ins[n] = copy
       /\ \A i \in 1 .. Len(d.slides) : \E j \in 1 .. Len(d.slides) + 1 : ins[j] = d.slides[i]
       /\ \A j \in 1 .. Len(d.slides) + 1 : j # n => \E i \in 1 .. Len(d.slides) : ins[j] = d.slides[i]
  BY <1>18, <1>19 DEF Inserts
<1> DEFINE after == d.next + 1
<1>12. after \in Nat \ {0} /\ r = [d EXCEPT !.slides = ins, !.next = after] /\ after = d.next + 1
  BY <1>1, <1>2
<1> HIDE DEF after
<1>13. /\ r \in Deck /\ r.slides = ins /\ r.next = d.next + 1 /\ r.exists = d.exists
       /\ r.first = d.first /\ r.deleted = d.deleted
  BY <1>1, <1>11, <1>12 DEF Deck
<1>14. \A j \in DOMAIN ins : SlideOK(ins[j]) /\ ins[j].id < d.next + 1
  <2> TAKE j \in DOMAIN ins
  <2>1. CASE j = n
    BY <1>1, <1>10, <1>11, <2>1
  <2>2. CASE j # n
    <3>1. j \in 1 .. Len(d.slides) + 1
      BY <1>11
    <3>2. PICK i \in DOMAIN d.slides : ins[j] = d.slides[i]
      BY <1>1, <1>11, <2>2, <3>1, Zenon
    <3>3. SlideOK(d.slides[i]) /\ d.slides[i].id < d.next /\ d.slides[i].id \in Nat
      BY DeckParts DEF DeckOK
    <3> QED
      BY <1>1, <3>2, <3>3
  <2> QED
    BY <2>1, <2>2
<1>20. \A i, j \in DOMAIN ins : ins[i].id = ins[j].id => ins[i].origin = ins[j].origin
  <2>1. \A j \in DOMAIN ins : j # n =>
          \E i \in DOMAIN d.slides : ins[j] = d.slides[i] /\ d.slides[i].id # d.next
    <3> TAKE j \in DOMAIN ins
    <3> HAVE j # n
    <3>1. j \in 1 .. Len(d.slides) + 1
      BY <1>11
    <3>2. PICK i \in DOMAIN d.slides : ins[j] = d.slides[i]
      BY <1>1, <1>11, <3>1, Zenon
    <3>3. d.slides[i].id < d.next /\ d.slides[i].id \in Nat
      BY DeckParts DEF DeckOK
    <3> QED
      BY <1>1, <3>2, <3>3
  <2>2. \A i, j \in DOMAIN d.slides :
          d.slides[i].id = d.slides[j].id => d.slides[i].origin = d.slides[j].origin
    BY DEF DeckOK
  <2> TAKE i, j \in DOMAIN ins
  <2> HAVE ins[i].id = ins[j].id
  <2>3. ins[n].id = d.next
    BY <1>10, <1>11
  <2>4. CASE i = n \/ j = n
    BY <2>1, <2>3, <2>4
  <2>5. CASE i # n /\ j # n
    <3>1. PICK k \in DOMAIN d.slides : ins[i] = d.slides[k]
      BY <2>1, <2>5
    <3>2. PICK l \in DOMAIN d.slides : ins[j] = d.slides[l]
      BY <2>1, <2>5
    <3> QED
      BY <2>2, <3>1, <3>2
  <2> QED
    BY <2>4, <2>5
<1>15. DeckOK(r) /\ Same(d, r)
  BY <1>1, <1>11, <1>13, <1>14, <1>20 DEF DeckOK, Same
<1>21. DOMAIN ins = 1 .. Len(d.slides) + 1
  BY <1>1, <1>11
<1>16. \A i \in DOMAIN d.slides : \E j \in DOMAIN ins : ins[j] = d.slides[i]
  BY <1>1, <1>11, <1>21, Zenon
<1>17. n \in DOMAIN ins
  BY <1>1, <1>11
<1> QED
  BY <1>6, <1>10, <1>11, <1>13, <1>15, <1>16, <1>17

LEMMA Deleted ==
  ASSUME NEW d, DeckOK(d), NEW id \in Ids(d), Len(d.slides) > 1
  PROVE  LET r == WithoutSlide(d, id) IN
         /\ DeckOK(r) /\ Same(d, r)
         /\ \A i \in DOMAIN d.slides : i # PlaceOf(d, id) =>
              \E j \in DOMAIN r.slides : r.slides[j] = d.slides[i]
<1> DEFINE n == PlaceOf(d, id)
           r == WithoutSlide(d, id)
           rem == RemoveAt(d.slides, n)
<1>1. /\ d.slides \in Seq(Slide) /\ Len(d.slides) \in Nat /\ DOMAIN d.slides = 1 .. Len(d.slides)
      /\ d.next \in Nat \ {0} /\ n \in DOMAIN d.slides /\ d.next > 1 /\ d \in Deck
  BY DeckParts DEF DeckOK
<1>2. r = [d EXCEPT !.slides = rem]
  BY DEF WithoutSlide
<1> DEFINE m == n
<1>0. m \in 1 .. Len(d.slides) /\ rem = RemoveAt(d.slides, m) /\ m = n
  BY <1>1
<1> HIDE DEF m, n, rem
<1>9. rem \in Seq(Slide) /\ Removes(rem, d.slides, m)
  BY <1>0, <1>1, Removed
<1>3. /\ rem \in Seq(Slide) /\ Len(rem) = Len(d.slides) - 1
      /\ \A i \in 1 .. Len(d.slides) : i # n => \E j \in 1 .. Len(d.slides) - 1 : rem[j] = d.slides[i]
      /\ \A j \in 1 .. Len(d.slides) - 1 : \E i \in 1 .. Len(d.slides) : rem[j] = d.slides[i]
  BY <1>0, <1>9 DEF Removes
<1>4. /\ r \in Deck /\ r.slides = rem /\ r.next = d.next /\ r.exists = d.exists
      /\ r.first = d.first /\ r.deleted = d.deleted
  BY <1>1, <1>2, <1>3 DEF Deck
<1> HIDE DEF r
<1>5. \A j \in DOMAIN rem : SlideOK(rem[j]) /\ rem[j].id < d.next
  <2> TAKE j \in DOMAIN rem
  <2>1. j \in 1 .. Len(d.slides) - 1
    BY <1>1, <1>3
  <2>2. PICK i \in DOMAIN d.slides : rem[j] = d.slides[i]
    BY <1>1, <1>3, <2>1, Zenon
  <2> QED
    BY <2>2 DEF DeckOK
<1>10. \A i, j \in DOMAIN rem : rem[i].id = rem[j].id => rem[i].origin = rem[j].origin
  <2>1. DOMAIN rem = 1 .. Len(d.slides) - 1
    BY <1>1, <1>3
  <2>2. \A j \in DOMAIN rem : \E i \in DOMAIN d.slides : rem[j] = d.slides[i]
    BY <1>1, <1>3, <2>1, Zenon
  <2> QED
    BY <2>2 DEF DeckOK
<1>6. DeckOK(r) /\ Same(d, r)
  BY <1>1, <1>3, <1>4, <1>5, <1>10 DEF DeckOK, Same
<1>8. DOMAIN rem = 1 .. Len(d.slides) - 1
  BY <1>1, <1>3
<1>7. \A i \in DOMAIN d.slides : i # n => \E j \in DOMAIN rem : rem[j] = d.slides[i]
  BY <1>1, <1>3, <1>8, Zenon
<1> QED
  BY <1>4, <1>6, <1>7 DEF r, n

LEMMA Added ==
  ASSUME NEW d, DeckOK(d), NEW id \in Ids(d), NEW e \in Element, Shown(e)
  PROVE  LET r == WithElement(d, id, e) IN
         /\ DeckOK(r) /\ Same(d, r)
         /\ DOMAIN r.slides = DOMAIN d.slides
         /\ \A i \in DOMAIN d.slides : r.slides[i].id = d.slides[i].id /\ r.slides[i].origin = d.slides[i].origin
<1> DEFINE n == PlaceOf(d, id)
           r == WithElement(d, id, e)
           slides == d.slides
           s == slides[n]
           els == Append(s.elements, e)
           new == [s EXCEPT !.elements = els]
           all == [slides EXCEPT ![n] = new]
<1>1. /\ slides \in Seq(Slide) /\ Len(slides) \in Nat /\ DOMAIN slides = 1 .. Len(slides) /\ d \in Deck
      /\ d.next \in Nat /\ n \in DOMAIN slides /\ SlideOK(s) /\ s.id < d.next /\ s \in Slide /\ d.next > 1
  BY DeckParts DEF DeckOK
<1>2. /\ els = Append(s.elements, e) /\ new = [s EXCEPT !.elements = els]
      /\ all = [slides EXCEPT ![n] = new] /\ slides = d.slides /\ s = slides[n]
  OBVIOUS
<1>3. r = [d EXCEPT !.slides = all]
  BY DEF WithElement
<1>4. r = WithElement(d, id, e)
  OBVIOUS
<1> HIDE DEF n, r, slides, s, els, new, all
<1>5. s.elements \in Seq(Element) /\ \A j \in DOMAIN s.elements : Shown(s.elements[j])
  BY <1>1 DEF SlideOK, Slide
<1>6. els \in Seq(Element) /\ \A j \in DOMAIN els : Shown(els[j])
  BY <1>2, <1>5
<1>7. new \in Slide /\ new.id = s.id /\ new.origin = s.origin /\ new.elements = els
  BY <1>1, <1>2, <1>6 DEF Slide
<1>8. SlideOK(new)
  BY <1>6, <1>7 DEF SlideOK
<1>9. /\ all \in Seq(Slide) /\ Len(all) = Len(slides) /\ all[n] = new
      /\ \A i \in DOMAIN slides : i # n => all[i] = slides[i]
  BY <1>1, <1>2, <1>7
<1>10. /\ r \in Deck /\ r.slides = all /\ r.next = d.next /\ r.exists = d.exists
       /\ r.first = d.first /\ r.deleted = d.deleted
  BY <1>1, <1>3, <1>9 DEF Deck
<1>11. DOMAIN all = DOMAIN slides
  BY <1>1, <1>9
<1>12. \A i \in DOMAIN slides : SlideOK(slides[i]) /\ slides[i].id < d.next
  BY <1>2 DEF DeckOK
<1>13. \A i \in DOMAIN slides : /\ all[i].id = slides[i].id /\ all[i].origin = slides[i].origin
                                /\ SlideOK(all[i]) /\ all[i].id < d.next
  BY <1>1, <1>2, <1>7, <1>8, <1>9, <1>12
<1>14. Len(slides) >= 1
  BY <1>2 DEF DeckOK
<1>16. \A i, j \in DOMAIN slides :
         slides[i].id = slides[j].id => slides[i].origin = slides[j].origin
  BY <1>2 DEF DeckOK
<1>17. \A i, j \in DOMAIN all : all[i].id = all[j].id => all[i].origin = all[j].origin
  BY <1>11, <1>13, <1>16
<1>15. DeckOK(r) /\ Same(d, r)
  BY <1>1, <1>9, <1>10, <1>11, <1>13, <1>14, <1>17 DEF DeckOK, Same
<1> QED
  BY <1>2, <1>4, <1>10, <1>11, <1>13, <1>15

-----------------------------------------------------------------------------
(* The presentations, and what the programs know of them.                  *)

Object(n) == [id : 0 .. n, slides : Seq(Nat \ {0})]

Tasks == [slide : Nat, deck : Nat]

\* The slides of presentation k that a move has copied and goes on to delete.
Moving(k) == {d \in Client : pc[d] = "delete" /\ object[d].id = k}

Doomed(k) == {object[d].slides[task[d].slide] : d \in Moving(k)}

\* Each origin that delete_slide was not called for has a slide besides those.
KeptBut(d, doomed) ==
  \A origin \in (1 .. d.first) \ d.deleted :
    \E i \in DOMAIN d.slides : d.slides[i].origin = origin /\ d.slides[i].id \notin doomed

\* A payload has no id that is still to be given out; unless it is stale it is what
\* the presentation has; and the local variables of a call are in their bounds.
ClientOK(c) ==
  /\ object[c].id # 0 =>
       \A i \in DOMAIN object[c].slides : object[c].slides[i] < decks[object[c].id].next
  /\ object[c].id # 0 /\ ~stale[c] =>
       Remote(c).exists /\ object[c].slides = Snapshot(Remote(c))
  /\ pc[c] \in {"delete", "image"} =>
       object[c].id # 0 /\ task[c].slide \in DOMAIN object[c].slides
  /\ pc[c] \in {"retrieve", "clean"} => task[c].deck \in DOMAIN decks

SlidesInv ==
  /\ decks \in Seq(Deck)
  /\ object \in [Client -> Object(Len(decks))]
  /\ pc \in [Client -> Location]
  /\ task \in [Client -> Tasks]
  /\ stale \in [Client -> BOOLEAN]
  /\ refused = FALSE
  /\ calls \in 0 .. MaxCalls
  /\ \A k \in DOMAIN decks : DeckOK(decks[k])
  /\ \A c \in Client : ClientOK(c)
  /\ \A k \in DOMAIN decks : decks[k].exists => KeptBut(decks[k], Doomed(k))

LEMMA KeptFewer ==
  ASSUME NEW d, NEW more, NEW fewer, fewer \subseteq more, KeptBut(d, more)
  PROVE  KeptBut(d, fewer)
BY DEF KeptBut

(* A new presentation. *)
LEMMA NewDecks ==
  ASSUME NEW n \in Nat \ {0}, NEW placeholders \in BOOLEAN, NEW d, d = NewDeck(n, placeholders)
  PROVE  DeckOK(d) /\ d.exists /\ d.next = n + 1 /\ Snapshot(d) = [i \in 1 .. n |-> i] /\ KeptBut(d, {})
<1> DEFINE slides == [i \in 1 .. n |-> [id |-> i, origin |-> i, elements |-> <<>>]]
<1>1. \A i \in 1 .. n : /\ slides[i] = [id |-> i, origin |-> i, elements |-> <<>>]
                       /\ slides[i] \in Slide
                       /\ slides[i].id = i /\ slides[i].origin = i /\ slides[i].elements = <<>>
  <2>1. <<>> \in Seq(Element)
    OBVIOUS
  <2> QED
    BY <2>1 DEF Slide
<1>2. slides \in [1 .. n -> Slide]
  BY <1>1
<1>3. DOMAIN slides = 1 .. n
  OBVIOUS
<1>4. /\ d.slides = slides /\ d.next = n + 1 /\ d.first = n /\ d.exists /\ d.deleted = {}
      /\ d = [exists |-> TRUE, next |-> n + 1, first |-> n, placeholders |-> placeholders,
             deleted |-> {}, slides |-> slides]
  BY DEF NewDeck
<1> HIDE DEF slides
<1>5. slides \in Seq(Slide) /\ Len(slides) = n
  BY <1>2, <1>3
<1>6. d \in Deck
  <2>1. n + 1 \in Nat \ {0} /\ n \in Nat /\ {} \in SUBSET Nat /\ TRUE \in BOOLEAN
    OBVIOUS
  <2> QED
    BY <1>4, <1>5, <2>1 DEF Deck
<1>7. \A i \in 1 .. n : SlideOK(slides[i])
  <2> TAKE i \in 1 .. n
  <2>1. slides[i] \in Slide /\ slides[i].elements = <<>>
    BY <1>1
  <2> QED
    BY <2>1 DEF SlideOK
<1>8. DeckOK(d)
  BY <1>1, <1>3, <1>4, <1>5, <1>6, <1>7 DEF DeckOK
<1>9. Snapshot(d) = [i \in 1 .. n |-> i]
  BY <1>1, <1>3, <1>4 DEF Snapshot
<1>10. KeptBut(d, {})
  BY <1>1, <1>3, <1>4 DEF KeptBut
<1> QED
  BY <1>4, <1>8, <1>9, <1>10

LEMMA SlidesBegins == SlidesInit => SlidesInv
<1> SUFFICES ASSUME SlidesInit PROVE SlidesInv
  OBVIOUS
<1> DEFINE one == NewDeck(1, FALSE)
           two == NewDeck(2, FALSE)
<1>1. /\ DeckOK(one) /\ one.exists /\ KeptBut(one, {})
      /\ DeckOK(two) /\ two.exists /\ two.next = 3 /\ KeptBut(two, {})
      /\ Snapshot(two) = [i \in 1 .. 2 |-> i]
  <2>1. 1 \in Nat \ {0} /\ 2 \in Nat \ {0} /\ FALSE \in BOOLEAN /\ 2 + 1 = 3
    OBVIOUS
  <2>2. DeckOK(one) /\ one.exists /\ KeptBut(one, {})
    BY <2>1, NewDecks
  <2>3. /\ DeckOK(two) /\ two.exists /\ two.next = 2 + 1 /\ KeptBut(two, {})
        /\ Snapshot(two) = [i \in 1 .. 2 |-> i]
    BY <2>1, NewDecks
  <2> QED
    BY <2>1, <2>2, <2>3
<1>2. \/ decks = <<one>> /\ object = [c \in Client |-> [id |-> 0, slides |-> <<>>]]
      \/ decks = <<one, two>> /\ object = [c \in Client |-> [id |-> 2, slides |-> <<1, 2>>]]
  BY DEF SlidesInit
<1> HIDE DEF one, two
<1>3. \A k \in DOMAIN decks : DeckOK(decks[k]) /\ decks[k].exists /\ KeptBut(decks[k], {})
  BY <1>1, <1>2
<1>4. decks \in Seq(Deck) /\ Len(decks) \in {1, 2}
  <2>1. one \in Deck /\ two \in Deck
    BY <1>1 DEF DeckOK
  <2>2. CASE decks = <<one>>
    BY <2>1, <2>2
  <2>3. CASE decks = <<one, two>>
    BY <2>1, <2>3
  <2> QED
    BY <1>2, <2>2, <2>3
<1>5. object \in [Client -> Object(Len(decks))]
  <2>1. CASE decks = <<one>> /\ object = [c \in Client |-> [id |-> 0, slides |-> <<>>]]
    <3>1. [id |-> 0, slides |-> <<>>] \in Object(Len(decks))
      BY <2>1 DEF Object
    <3> QED
      BY <2>1, <3>1
  <2>2. CASE decks = <<one, two>> /\ object = [c \in Client |-> [id |-> 2, slides |-> <<1, 2>>]]
    <3>1. [id |-> 2, slides |-> <<1, 2>>] \in Object(Len(decks))
      BY <2>2 DEF Object
    <3> QED
      BY <2>2, <3>1
  <2> QED
    BY <1>2, <2>1, <2>2
<1>6. pc \in [Client -> Location] /\ \A c \in Client : pc[c] = "idle"
  BY DEF SlidesInit, Location
<1>7. task \in [Client -> Tasks] /\ stale \in [Client -> BOOLEAN] /\ refused = FALSE /\ calls \in 0 .. MaxCalls
  BY GoogleSlidesAssumption DEF SlidesInit, NoTask, Tasks
<1>8. \A c \in Client : ClientOK(c)
  <2> TAKE c \in Client
  <2>1. CASE object[c].id = 0
    BY <1>6, <2>1 DEF ClientOK
  <2>2. CASE object[c].id # 0
    <3>1. object[c].id = 2 /\ object[c].slides = <<1, 2>> /\ decks[2] = two
      BY <1>2, <2>2
    <3>2. <<1, 2>> = [i \in 1 .. 2 |-> i]
      OBVIOUS
    <3>3. \A i \in DOMAIN object[c].slides : object[c].slides[i] < 3
      BY <3>1
    <3> QED
      BY <1>1, <1>6, <3>1, <3>2, <3>3 DEF ClientOK, Remote
  <2> QED
    BY <2>1, <2>2
<1>9. \A k \in DOMAIN decks : decks[k].exists => KeptBut(decks[k], Doomed(k))
  <2>1. \A k \in DOMAIN decks : Doomed(k) = {}
    BY <1>6 DEF Doomed, Moving
  <2> QED
    BY <1>3, <2>1
<1> QED
  BY <1>3, <1>4, <1>5, <1>6, <1>7, <1>8, <1>9 DEF SlidesInv

\* A step of c: the other programs stay where they are.
Only(c) ==
  \A d \in Client \ {c} : object'[d] = object[d] /\ pc'[d] = pc[d] /\ task'[d] = task[d]

LEMMA DoomedFewer ==
  ASSUME NEW c \in Client, Only(c), NEW k, pc'[c] # "delete" \/ object'[c].id # k
  PROVE  Doomed(k)' \subseteq Doomed(k)
<1>1. Moving(k)' \subseteq Moving(k) \ {c}
  BY DEF Moving, Only
<1>2. \A d \in Moving(k)' : object'[d].slides[task'[d].slide] = object[d].slides[task[d].slide]
  BY <1>1 DEF Only, Moving
<1> QED
  BY <1>1, <1>2 DEF Doomed

(* What a step of one program is to show for the invariant. *)
LEMMA StepOfOne ==
  ASSUME SlidesInv, NEW c \in Client, Only(c),
         decks' \in Seq(Deck), Len(decks') >= Len(decks),
         \A k \in DOMAIN decks' : DeckOK(decks'[k]),
         \A k \in DOMAIN decks' : decks'[k].exists => KeptBut(decks'[k], Doomed(k)'),
         \A k \in DOMAIN decks : decks'[k].next >= decks[k].next,
         object' \in [Client -> Object(Len(decks'))],
         pc' \in [Client -> Location], task' \in [Client -> Tasks], stale' \in [Client -> BOOLEAN],
         \A d \in Client \ {c} : ~stale'[d] =>
           /\ ~stale[d]
           /\ object[d].id # 0 => /\ decks'[object[d].id].exists = decks[object[d].id].exists
                                  /\ Snapshot(decks'[object[d].id]) = Snapshot(decks[object[d].id]),
         refused' = FALSE, calls' \in 0 .. MaxCalls,
         ClientOK(c)'
  PROVE  SlidesInv'
<1>1. /\ Len(decks) \in Nat /\ Len(decks') \in Nat
      /\ DOMAIN decks = 1 .. Len(decks) /\ DOMAIN decks' = 1 .. Len(decks')
  BY DEF SlidesInv
<1>2. \A d \in Client \ {c} : ClientOK(d)'
  <2> TAKE d \in Client \ {c}
  <2>1. object'[d] = object[d] /\ pc'[d] = pc[d] /\ task'[d] = task[d] /\ ClientOK(d)
        /\ object[d] \in Object(Len(decks))
    BY DEF Only, SlidesInv
  <2>2. object[d].id # 0 => object[d].id \in DOMAIN decks
    BY <1>1, <2>1 DEF Object
  <2>3. ASSUME object[d].id # 0
        PROVE  \A i \in DOMAIN object[d].slides : object[d].slides[i] < decks'[object[d].id].next
    <3> TAKE i \in DOMAIN object[d].slides
    <3>1. /\ object[d].slides[i] < decks[object[d].id].next
          /\ decks'[object[d].id].next >= decks[object[d].id].next
      BY <2>1, <2>2, <2>3 DEF ClientOK
    <3>2. /\ object[d].slides[i] \in Nat
          /\ decks[object[d].id].next \in Nat
      BY <1>1, <2>1, <2>2, <2>3, DeckParts DEF Object, SlidesInv
    <3>3. object[d].id \in DOMAIN decks'
      BY <1>1, <2>2, <2>3
    <3>4. decks'[object[d].id].next \in Nat
      BY <3>3, DeckParts
    <3> QED
      BY <3>1, <3>2, <3>4
  <2>4. ASSUME object[d].id # 0, ~stale'[d]
        PROVE  /\ decks'[object[d].id].exists
               /\ object[d].slides = Snapshot(decks'[object[d].id])
    BY <2>1, <2>4 DEF ClientOK, Remote
  <2>5. pc[d] \in {"delete", "image"} => object[d].id # 0 /\ task[d].slide \in DOMAIN object[d].slides
    BY <2>1 DEF ClientOK
  <2>6. pc[d] \in {"retrieve", "clean"} => task[d].deck \in DOMAIN decks'
    BY <1>1, <2>1 DEF ClientOK
  <2> QED
    BY <2>1, <2>3, <2>4, <2>5, <2>6 DEF ClientOK, Remote, Snapshot
<1>3. \A d \in Client : ClientOK(d)'
  BY <1>2
<1> QED
  BY <1>3 DEF SlidesInv, Object

(* A step that leaves the slides of all presentations as they are, and may     *)
(* add a presentation, or bind the object of the program to one.               *)
LEMMA Turn ==
  ASSUME SlidesInv, NEW c \in Client, Only(c), pc'[c] # "delete",
         decks' \in Seq(Deck), Len(decks') >= Len(decks),
         \A k \in DOMAIN decks' : DeckOK(decks'[k]),
         \A k \in DOMAIN decks : /\ Same(decks[k], decks'[k])
                                 /\ decks'[k].slides = decks[k].slides,
         \A k \in DOMAIN decks' \ DOMAIN decks : KeptBut(decks'[k], {}),
         object' \in [Client -> Object(Len(decks'))],
         pc' \in [Client -> Location], task' \in [Client -> Tasks], stale' \in [Client -> BOOLEAN],
         \A d \in Client \ {c} : stale'[d] = stale[d],
         refused' = FALSE, calls' \in 0 .. MaxCalls,
         ClientOK(c)'
  PROVE  SlidesInv'
<1>1. /\ Len(decks) \in Nat /\ Len(decks') \in Nat
      /\ DOMAIN decks = 1 .. Len(decks) /\ DOMAIN decks' = 1 .. Len(decks')
  BY DEF SlidesInv
<1>2. ASSUME NEW k \in DOMAIN decks', decks'[k].exists
      PROVE  KeptBut(decks'[k], Doomed(k)')
  <2>1. CASE k \in DOMAIN decks
    <3>1. KeptBut(decks[k], Doomed(k))
      BY <1>2, <2>1 DEF SlidesInv, Same
    <3>2. KeptBut(decks'[k], Doomed(k))
      BY <2>1, <3>1 DEF KeptBut, Same
    <3>3. Doomed(k)' \subseteq Doomed(k)
      BY DoomedFewer
    <3> QED
      BY <3>2, <3>3, KeptFewer
  <2>2. CASE k \notin DOMAIN decks
    <3>1. \A d \in Client : object[d].id \in 0 .. Len(decks)
      BY DEF SlidesInv, Object
    <3>2. Moving(k)' = {}
      BY <1>1, <2>2, <3>1 DEF Moving, Only
    <3>3. Doomed(k)' = {}
      BY <3>2 DEF Doomed
    <3> QED
      BY <2>2, <3>3
  <2> QED
    BY <2>1, <2>2
<1>3. \A k \in DOMAIN decks : decks'[k].next >= decks[k].next
  BY DEF Same
<1>4. \A d \in Client \ {c} : ~stale'[d] =>
        /\ ~stale[d]
        /\ object[d].id # 0 => /\ decks'[object[d].id].exists = decks[object[d].id].exists
                               /\ Snapshot(decks'[object[d].id]) = Snapshot(decks[object[d].id])
  <2> TAKE d \in Client \ {c}
  <2>1. object[d].id # 0 => object[d].id \in DOMAIN decks
    BY <1>1 DEF SlidesInv, Object
  <2> QED
    BY <2>1 DEF Same, Snapshot
<1> QED
  BY <1>2, <1>3, <1>4, StepOfOne

(* Where a step takes a program, and the local variables it leaves. *)
LEMMA Located ==
  ASSUME SlidesInv, NEW c \in Client, NEW to \in Location, NEW t \in Tasks,
         pc' = [pc EXCEPT ![c] = to], task' = [task EXCEPT ![c] = t]
  PROVE  /\ pc' \in [Client -> Location] /\ task' \in [Client -> Tasks]
         /\ pc'[c] = to /\ task'[c] = t
         /\ \A d \in Client \ {c} : pc'[d] = pc[d] /\ task'[d] = task[d]
BY DEF SlidesInv

(* The presentations stay, or one comes in; the objects stay bound.            *)
LEMMA Stays ==
  ASSUME SlidesInv, NEW c \in Client, NEW to \in Location \ {"delete"}, NEW t \in Tasks,
         pc' = [pc EXCEPT ![c] = to], task' = [task EXCEPT ![c] = t],
         \/ decks' = decks
         \/ \E d : DeckOK(d) /\ KeptBut(d, {}) /\ decks' = Append(decks, d),
         object' = object, stale' = stale, refused' = FALSE, calls' \in 0 .. MaxCalls,
         to = "image" => object[c].id # 0 /\ t.slide \in DOMAIN object[c].slides,
         to \in {"retrieve", "clean"} => t.deck \in DOMAIN decks'
  PROVE  SlidesInv'
<1>1. /\ decks' \in Seq(Deck) /\ Len(decks') >= Len(decks) /\ Len(decks') \in Nat /\ Len(decks) \in Nat
      /\ DOMAIN decks \subseteq DOMAIN decks'
      /\ \A k \in DOMAIN decks : decks'[k] = decks[k]
      /\ \A k \in DOMAIN decks' \ DOMAIN decks : DeckOK(decks'[k]) /\ KeptBut(decks'[k], {})
  <2>1. CASE decks' = decks
    BY <2>1 DEF SlidesInv
  <2>2. CASE \E d : DeckOK(d) /\ KeptBut(d, {}) /\ decks' = Append(decks, d)
    <3>1. PICK d : DeckOK(d) /\ KeptBut(d, {}) /\ decks' = Append(decks, d)
      BY <2>2
    <3>2. d \in Deck /\ decks \in Seq(Deck)
      BY <3>1 DEF DeckOK, SlidesInv
    <3> QED
      BY <3>1, <3>2
  <2> QED
    BY <2>1, <2>2
<1>2. /\ pc' \in [Client -> Location] /\ task' \in [Client -> Tasks]
      /\ pc'[c] = to /\ task'[c] = t
      /\ \A d \in Client \ {c} : pc'[d] = pc[d] /\ task'[d] = task[d]
  BY Located
<1>3. Only(c) /\ stale' \in [Client -> BOOLEAN] /\ object' \in [Client -> Object(Len(decks'))]
  BY <1>1, <1>2 DEF Only, SlidesInv, Object
<1>4. \A k \in DOMAIN decks : DeckOK(decks[k]) /\ decks[k].next \in Nat
  BY DeckParts DEF SlidesInv
<1>5. \A k \in DOMAIN decks' : DeckOK(decks'[k])
  BY <1>1, <1>4
<1>6. \A k \in DOMAIN decks : /\ Same(decks[k], decks'[k])
                              /\ decks'[k].slides = decks[k].slides
  BY <1>1, <1>4 DEF Same
<1>7. ClientOK(c)'
  <2>1. object[c].id # 0 => object[c].id \in DOMAIN decks
    BY <1>1 DEF SlidesInv, Object
  <2>2. ClientOK(c)
    BY DEF SlidesInv
  <2> QED
    BY <1>1, <1>2, <2>1, <2>2 DEF ClientOK, Remote, Snapshot
<1> QED
  BY <1>1, <1>2, <1>3, <1>5, <1>6, <1>7, Turn

(* The object of the program is bound to presentation k.                       *)
LEMMA Binding ==
  ASSUME SlidesInv, NEW c \in Client, NEW k \in DOMAIN decks, NEW t \in Tasks,
         NEW slides \in Seq(Nat \ {0}),
         pc' = [pc EXCEPT ![c] = "idle"], task' = [task EXCEPT ![c] = t],
         NEW new, new = [decks[k] EXCEPT !.placeholders = FALSE],
         decks' = decks \/ decks' = [decks EXCEPT ![k] = new],
         object' = [object EXCEPT ![c] = [id |-> k, slides |-> slides]],
         stale' \in [Client -> BOOLEAN], \A e \in Client \ {c} : stale'[e] = stale[e],
         \A i \in DOMAIN slides : slides[i] < decks[k].next,
         ~stale'[c] => decks[k].exists /\ slides = Snapshot(decks[k]),
         refused' = FALSE, calls' \in 0 .. MaxCalls
  PROVE  SlidesInv'
<1>1. /\ pc' \in [Client -> Location] /\ task' \in [Client -> Tasks]
      /\ pc'[c] = "idle" /\ task'[c] = t
      /\ \A d \in Client \ {c} : pc'[d] = pc[d] /\ task'[d] = task[d]
  BY Located DEF Location
<1>2. decks \in Seq(Deck) /\ \A j \in DOMAIN decks : DeckOK(decks[j]) /\ decks[j] \in Deck /\ decks[j].next \in Nat
  BY DeckParts DEF SlidesInv, DeckOK
<1>3. /\ new \in Deck /\ new.slides = decks[k].slides /\ new.exists = decks[k].exists
      /\ new.next = decks[k].next /\ new.first = decks[k].first /\ new.deleted = decks[k].deleted
  BY <1>2 DEF Deck
<1>4. DeckOK(new)
  BY <1>2, <1>3 DEF DeckOK
<1>6. /\ decks' \in Seq(Deck) /\ Len(decks') = Len(decks) /\ Len(decks) \in Nat
      /\ DOMAIN decks' = DOMAIN decks
      /\ \A j \in DOMAIN decks : decks'[j] = decks[j] \/ (j = k /\ decks'[j] = new)
  <2>1. CASE decks' = decks
    BY <1>2, <2>1
  <2>2. CASE decks' = [decks EXCEPT ![k] = new]
    BY <1>2, <1>3, <2>2, Replacing
  <2> QED
    BY <2>1, <2>2
<1>7. \A j \in DOMAIN decks : /\ DeckOK(decks'[j]) /\ Same(decks[j], decks'[j])
                              /\ decks'[j].slides = decks[j].slides /\ decks'[j].next = decks[j].next
  <2> TAKE j \in DOMAIN decks
  <2>1. CASE decks'[j] = decks[j]
    BY <1>2, <2>1 DEF Same
  <2>2. CASE j = k /\ decks'[j] = new
    BY <1>2, <1>3, <1>4, <2>2 DEF Same
  <2> QED
    BY <1>6, <2>1, <2>2
<1> DEFINE o == [id |-> k, slides |-> slides]
<1>8. o \in Object(Len(decks)) /\ o.id = k /\ o.slides = slides /\ k # 0
  BY <1>6 DEF Object
<1> HIDE DEF o
<1>9. /\ object' \in [Client -> Object(Len(decks'))] /\ object'[c] = o
      /\ \A d \in Client \ {c} : object'[d] = object[d]
  <2>1. object' = [object EXCEPT ![c] = o] /\ object \in [Client -> Object(Len(decks))]
    BY DEF o, SlidesInv
  <2> QED
    BY <1>6, <1>8, <2>1
<1>11. ClientOK(c)'
  <2>1. \A i \in DOMAIN slides : slides[i] < decks'[k].next
    BY <1>7
  <2>2. ~stale'[c] => decks'[k].exists /\ slides = Snapshot(decks'[k])
    BY <1>7 DEF Same, Snapshot
  <2> QED
    BY <1>1, <1>8, <1>9, <2>1, <2>2 DEF ClientOK, Remote, Snapshot
<1>12. Only(c)
  BY <1>1, <1>9 DEF Only
<1>13. /\ Len(decks') >= Len(decks) /\ decks' \in Seq(Deck) /\ pc'[c] # "delete"
       /\ \A j \in DOMAIN decks' : DeckOK(decks'[j])
       /\ \A j \in DOMAIN decks' \ DOMAIN decks : KeptBut(decks'[j], {})
       /\ object' \in [Client -> Object(Len(decks'))]
  BY <1>1, <1>6, <1>7, <1>9
<1>14. \A j \in DOMAIN decks : Same(decks[j], decks'[j]) /\ decks'[j].slides = decks[j].slides
  BY <1>7
<1> QED
  BY <1>1, <1>11, <1>12, <1>13, <1>14, Turn

(* A payload that is read holds what the presentation has.                     *)
LEMMA SnapshotOK ==
  ASSUME NEW d, DeckOK(d)
  PROVE  /\ Snapshot(d) \in Seq(Nat \ {0}) /\ DOMAIN Snapshot(d) = DOMAIN d.slides
         /\ Len(Snapshot(d)) = Len(d.slides)
         /\ \A i \in DOMAIN d.slides : /\ Snapshot(d)[i] = d.slides[i].id
                                       /\ Snapshot(d)[i] \in Ids(d) /\ Snapshot(d)[i] < d.next
<1>1. /\ Len(d.slides) \in Nat /\ DOMAIN d.slides = 1 .. Len(d.slides)
      /\ \A i \in DOMAIN d.slides : d.slides[i].id \in Nat \ {0}
  BY DeckParts
<1>2. Snapshot(d) \in [1 .. Len(d.slides) -> Nat \ {0}]
  BY <1>1 DEF Snapshot
<1>3. \A i \in DOMAIN d.slides : Snapshot(d)[i] = d.slides[i].id /\ d.slides[i].id \in Ids(d)
  BY DEF Snapshot, Ids
<1> QED
  BY <1>1, <1>2, <1>3 DEF DeckOK

LEMMA Gone ==
  ASSUME SlidesInv, NEW c \in Client, NEW k \in DOMAIN decks, object[c].id = k, NEW t \in Tasks,
         pc' = [pc EXCEPT ![c] = "create"], task' = [task EXCEPT ![c] = t],
         NEW new, new = [decks[k] EXCEPT !.exists = FALSE],
         decks' = [decks EXCEPT ![k] = new], object' = object,
         stale' = [e \in Client |-> stale[e] \/ object[e].id = k],
         refused' = FALSE, calls' \in 0 .. MaxCalls
  PROVE  SlidesInv'
<1>1. /\ pc' \in [Client -> Location] /\ task' \in [Client -> Tasks]
      /\ pc'[c] = "create" /\ task'[c] = t
      /\ \A d \in Client \ {c} : pc'[d] = pc[d] /\ task'[d] = task[d]
  BY Located DEF Location
<1>2. decks \in Seq(Deck) /\ \A j \in DOMAIN decks : DeckOK(decks[j]) /\ decks[j] \in Deck /\ decks[j].next \in Nat
  BY DeckParts DEF SlidesInv, DeckOK
<1>3. /\ new \in Deck /\ new.slides = decks[k].slides /\ ~new.exists
      /\ new.next = decks[k].next /\ new.first = decks[k].first /\ new.deleted = decks[k].deleted
  BY <1>2 DEF Deck
<1>4. DeckOK(new)
  BY <1>2, <1>3 DEF DeckOK
<1>6. /\ decks' \in Seq(Deck) /\ Len(decks') = Len(decks) /\ Len(decks) \in Nat
      /\ DOMAIN decks' = DOMAIN decks /\ decks'[k] = new
      /\ \A j \in DOMAIN decks : j # k => decks'[j] = decks[j]
  <2>1. decks \in Seq(Deck) /\ new \in Deck
    BY <1>2, <1>3
  <2> QED
    BY <2>1, Replacing
<1>7. \A j \in DOMAIN decks : DeckOK(decks'[j]) /\ decks'[j].next = decks[j].next /\ decks'[j].next >= decks[j].next
  <2> TAKE j \in DOMAIN decks
  <2>1. decks'[j] = new \/ decks'[j] = decks[j]
    BY <1>6
  <2>2. decks'[j].next = decks[j].next
    BY <1>3, <1>6
  <2>3. decks'[j].next >= decks[j].next
    BY <1>2, <2>2
  <2>4. DeckOK(decks'[j])
    BY <1>2, <1>4, <2>1
  <2> QED
    BY <2>2, <2>3, <2>4
<1>8. Only(c)
  BY <1>1 DEF Only
<1>9. ASSUME NEW j \in DOMAIN decks', decks'[j].exists PROVE KeptBut(decks'[j], Doomed(j)')
  <2>1. j # k /\ decks'[j] = decks[j] /\ KeptBut(decks[j], Doomed(j))
    BY <1>3, <1>6, <1>9 DEF SlidesInv
  <2>2. Doomed(j)' \subseteq Doomed(j)
    BY <1>1, <1>8, DoomedFewer
  <2> QED
    BY <2>1, <2>2, KeptFewer
<1>10. object' \in [Client -> Object(Len(decks'))] /\ stale' \in [Client -> BOOLEAN]
  BY <1>6 DEF SlidesInv
<1>13. Len(decks') >= Len(decks)
  BY <1>6
<1>11. ASSUME NEW d \in Client, ~stale'[d]
       PROVE  /\ ~stale[d]
              /\ object[d].id # 0 => /\ decks'[object[d].id].exists = decks[object[d].id].exists
                                     /\ Snapshot(decks'[object[d].id]) = Snapshot(decks[object[d].id])
  <2>1. ~stale[d] /\ object[d].id # k
    BY <1>11
  <2>2. object[d].id # 0 => object[d].id \in DOMAIN decks
    BY <1>6 DEF SlidesInv, Object
  <2> QED
    BY <1>6, <2>1, <2>2 DEF Snapshot
<1>12. ClientOK(c)'
  <2>1. ClientOK(c) /\ stale'[c] /\ decks'[k].next = decks[k].next
    BY <1>7 DEF SlidesInv
  <2> QED
    BY <1>1, <2>1 DEF ClientOK
<1> QED
  BY <1>1, <1>6, <1>7, <1>8, <1>9, <1>10, <1>11, <1>12, <1>13, StepOfOne

(* What a program with an object knows.                                        *)
LEMMA Payload ==
  ASSUME SlidesInv, NEW c \in Client, object[c].id # 0
  PROVE  /\ object[c].id \in DOMAIN decks /\ Remote(c) = decks[object[c].id]
         /\ DeckOK(Remote(c)) /\ object[c].slides \in Seq(Nat \ {0})
         /\ \A i \in DOMAIN object[c].slides : object[c].slides[i] < Remote(c).next
         /\ Remote(c).exists => KeptBut(Remote(c), Doomed(object[c].id))
         /\ ~stale[c] => /\ Remote(c).exists /\ Len(object[c].slides) = Len(Remote(c).slides)
                         /\ \A i \in DOMAIN object[c].slides : object[c].slides[i] \in Ids(Remote(c))
<1>1. object[c].id \in DOMAIN decks /\ object[c].slides \in Seq(Nat \ {0}) /\ Remote(c) = decks[object[c].id]
  BY DEF SlidesInv, Object, Remote
<1>2. DeckOK(Remote(c)) /\ (Remote(c).exists => KeptBut(Remote(c), Doomed(object[c].id))) /\ ClientOK(c)
  BY <1>1 DEF SlidesInv
<1>3. \A i \in DOMAIN object[c].slides : object[c].slides[i] < Remote(c).next
  BY <1>1, <1>2 DEF ClientOK
<1>4. ~stale[c] => Remote(c).exists /\ object[c].slides = Snapshot(Remote(c))
  BY <1>2 DEF ClientOK
<1>5. /\ DOMAIN Snapshot(Remote(c)) = DOMAIN Remote(c).slides
      /\ Len(Snapshot(Remote(c))) = Len(Remote(c).slides)
      /\ \A i \in DOMAIN Remote(c).slides : Snapshot(Remote(c))[i] \in Ids(Remote(c))
  BY <1>2, SnapshotOK
<1> QED
  BY <1>1, <1>2, <1>3, <1>4, <1>5

LEMMA DoomedBelow ==
  ASSUME SlidesInv, NEW k \in DOMAIN decks
  PROVE  \A x \in Doomed(k) : x < decks[k].next
<1>1. \A d \in Moving(k) : object[d].slides[task[d].slide] < decks[k].next
  <2> TAKE d \in Moving(k)
  <2>1. d \in Client /\ pc[d] = "delete" /\ object[d].id = k /\ ClientOK(d)
    BY DEF Moving, SlidesInv
  <2> QED
    BY <2>1 DEF ClientOK
<1> QED
  BY <1>1 DEF Doomed

LEMMA DoomedMore ==
  ASSUME NEW c \in Client, Only(c), object' = object, NEW k
  PROVE  Doomed(k)' \subseteq Doomed(k) \cup {object[c].slides[task'[c].slide]}
<1>1. Moving(k)' \subseteq Moving(k) \cup {c}
  BY DEF Moving, Only
<1>2. \A d \in Moving(k)' : d # c => task'[d] = task[d] /\ d \in Moving(k)
  BY <1>1 DEF Only, Moving
<1> QED
  BY <1>2 DEF Doomed

(* A request is carried out.                                                   *)
LEMMA Requested ==
  ASSUME SlidesInv, NEW c \in Client, NEW to \in {"idle", "delete"}, NEW t \in Tasks, NEW d, NEW k,
         k = object[c].id, k # 0, object' = object,
         pc' = [pc EXCEPT ![c] = to], task' = [task EXCEPT ![c] = t],
         decks' = [decks EXCEPT ![k] = d],
         DeckOK(d), d.exists = Remote(c).exists, d.next >= Remote(c).next,
         stale' \in [Client -> BOOLEAN],
         \A e \in Client : ~stale'[e] =>
           ~stale[e] /\ (object[e].id = object[c].id => Snapshot(d) = Snapshot(Remote(c))),
         to = "delete" => t.slide \in DOMAIN object[c].slides,
         d.exists => KeptBut(d, Doomed(k)'),
         refused' = FALSE, calls' \in 0 .. MaxCalls
  PROVE  SlidesInv'
<1>1. /\ k \in DOMAIN decks /\ k # 0 /\ Remote(c) = decks[k] /\ DeckOK(decks[k])
      /\ \A i \in DOMAIN object[c].slides : object[c].slides[i] < decks[k].next
      /\ object[c].slides \in Seq(Nat \ {0})
      /\ decks \in Seq(Deck) /\ d \in Deck
  BY Payload DEF SlidesInv, DeckOK
<1>2. /\ pc' \in [Client -> Location] /\ task' \in [Client -> Tasks]
      /\ pc'[c] = to /\ task'[c] = t
      /\ \A e \in Client \ {c} : pc'[e] = pc[e] /\ task'[e] = task[e]
  BY Located DEF Location
<1>4. /\ decks' \in Seq(Deck) /\ Len(decks') = Len(decks) /\ Len(decks) \in Nat
      /\ DOMAIN decks' = DOMAIN decks /\ decks'[k] = d
      /\ \A j \in DOMAIN decks : j # k => decks'[j] = decks[j]
  <2>1. decks \in Seq(Deck) /\ d \in Deck /\ k \in DOMAIN decks
    BY <1>1
  <2> QED
    BY <2>1, Replacing
<1>5. Only(c)
  BY <1>2 DEF Only
<1>6. \A j \in DOMAIN decks : DeckOK(decks[j]) /\ decks[j].next \in Nat
  BY DeckParts DEF SlidesInv
<1>7. \A j \in DOMAIN decks : DeckOK(decks'[j]) /\ decks'[j].next >= decks[j].next
  <2> TAKE j \in DOMAIN decks
  <2>1. CASE j = k
    BY <1>1, <1>4, <2>1
  <2>2. CASE j # k
    <3>1. decks'[j] = decks[j]
      BY <1>4, <2>2
    <3> QED
      BY <1>6, <3>1
  <2> QED
    BY <2>1, <2>2
<1>8. ASSUME NEW j \in DOMAIN decks', decks'[j].exists PROVE KeptBut(decks'[j], Doomed(j)')
  <2>1. CASE j = k
    BY <1>4, <1>8, <2>1
  <2>2. CASE j # k
    <3>1. decks'[j] = decks[j] /\ KeptBut(decks[j], Doomed(j))
      BY <1>4, <1>8, <2>2 DEF SlidesInv
    <3>2. Doomed(j)' \subseteq Doomed(j)
      BY <1>5, <2>2, DoomedFewer
    <3> QED
      BY <3>1, <3>2, KeptFewer
  <2> QED
    BY <2>1, <2>2
<1>9. \A e \in Client : ~stale'[e] =>
        /\ ~stale[e]
        /\ object[e].id # 0 => /\ decks'[object[e].id].exists = decks[object[e].id].exists
                               /\ Snapshot(decks'[object[e].id]) = Snapshot(decks[object[e].id])
  <2> TAKE e \in Client
  <2> HAVE ~stale'[e]
  <2>1. object[e].id # 0 => object[e].id \in DOMAIN decks
    BY <1>4 DEF SlidesInv, Object
  <2>2. CASE object[e].id = k
    BY <1>1, <1>4, <2>2
  <2>3. CASE object[e].id # k
    BY <1>4, <2>1, <2>3
  <2> QED
    BY <2>2, <2>3
<1>10. \A e \in Client \ {c} : ~stale'[e] =>
        /\ ~stale[e]
        /\ object[e].id # 0 => /\ decks'[object[e].id].exists = decks[object[e].id].exists
                               /\ Snapshot(decks'[object[e].id]) = Snapshot(decks[object[e].id])
  BY <1>9
<1>11. ClientOK(c)'
  <2>1. \A i \in DOMAIN object[c].slides : object[c].slides[i] < decks'[k].next
    <3> TAKE i \in DOMAIN object[c].slides
    <3>1. object[c].slides[i] \in Nat /\ object[c].slides[i] < decks[k].next
      BY <1>1
    <3>2. decks[k].next \in Nat /\ decks'[k].next \in Nat /\ decks'[k].next >= decks[k].next
      BY <1>1, <1>4, <1>6, <1>7, DeckParts
    <3> QED
      BY <3>1, <3>2
  <2>2. ~stale'[c] => decks'[k].exists /\ object[c].slides = Snapshot(decks'[k])
    <3> HAVE ~stale'[c]
    <3>1. ~stale[c] /\ ClientOK(c)
      BY DEF SlidesInv
    <3>2. Remote(c).exists /\ object[c].slides = Snapshot(Remote(c))
      BY <1>1, <3>1 DEF ClientOK
    <3> QED
      BY <1>4, <3>2
  <2> QED
    BY <1>1, <1>2, <2>1, <2>2 DEF ClientOK, Remote, Snapshot
<1>12. object' \in [Client -> Object(Len(decks'))] /\ Len(decks') >= Len(decks)
  BY <1>4 DEF SlidesInv
<1>13. \A j \in DOMAIN decks' : DeckOK(decks'[j])
  BY <1>4, <1>7
<1> QED
  BY <1>2, <1>4, <1>5, <1>7, <1>8, <1>10, <1>11, <1>12, <1>13, StepOfOne

(* A call ends, and nothing else changes.                                      *)
LEMMA Ended ==
  ASSUME SlidesInv, NEW c \in Client, NEW from, End(c, from),
         UNCHANGED <<decks, object, stale>>, refused' = FALSE, calls' \in 0 .. MaxCalls
  PROVE  SlidesInv'
<1>1. pc' = [pc EXCEPT ![c] = "idle"] /\ task' = [task EXCEPT ![c] = NoTask]
  BY DEF End, Goto, SetTask
<1>2. NoTask \in Tasks /\ "idle" \in Location \ {"delete"}
  BY DEF NoTask, Tasks, Location
<1> QED
  BY <1>1, <1>2, Stays

LEMMA CopiesKeep ==
  ASSUME SlidesInv, NEW c \in Client, object[c].id # 0, pc[c] = "idle", NEW n, NEW position,
         NEW to \in {"idle", "delete"}, NEW t \in Tasks, to = "delete" => t.slide = n,
         Copies(c, n, position, to, t), calls' \in 0 .. MaxCalls
  PROVE  SlidesInv'
<1> DEFINE index == IF position = None THEN Len(object[c].slides) ELSE position - 1
           id == object[c].slides[n]
           accepted == id \in Ids(Remote(c)) /\ index <= Len(Remote(c).slides)
           R == Remote(c)
           d == WithCopy(R, id, index)
<1>0. PICK k : k = object[c].id
  OBVIOUS
<1>1. /\ n \in DOMAIN object[c].slides /\ index \in 0 .. Len(object[c].slides)
      /\ Request(c, accepted, d, TRUE, to, t) \/ Refusal(c, accepted, FALSE)
  BY DEF Copies
<1>2. /\ k \in DOMAIN decks /\ R = decks[k] /\ DeckOK(R) /\ k # 0
      /\ id \in Nat /\ id < R.next /\ Len(object[c].slides) \in Nat
      /\ R.exists => KeptBut(R, Doomed(k))
      /\ ~stale[c] => R.exists /\ Len(object[c].slides) = Len(R.slides) /\ id \in Ids(R)
  <2>1. object[c].slides \in Seq(Nat \ {0}) /\ id \in Nat
    BY <1>1, Payload
  <2> QED
    BY <1>0, <1>1, <2>1, Payload
<1>3. accepted = (id \in Ids(R) /\ index <= Len(R.slides)) /\ R = Remote(c)
      /\ id = object[c].slides[n] /\ d = WithCopy(R, id, index)
  OBVIOUS
<1> HIDE DEF index, id, accepted, R, d
<1>4. CASE Refusal(c, accepted, FALSE)
  <2>1. UNCHANGED <<decks, object, stale>> /\ End(c, pc[c])
    BY <1>4 DEF Refusal
  <2>2. refused' = FALSE
    <3>1. ~stale[c] => R.exists /\ accepted
      <4> HAVE ~stale[c]
      <4>1. index <= Len(R.slides) /\ id \in Ids(R) /\ R.exists
        BY <1>1, <1>2
      <4> QED
        BY <1>3, <4>1
    <3> QED
      BY <1>3, <1>4, <3>1 DEF Refusal, SlidesInv
  <2> QED
    BY <2>1, <2>2, Ended
<1>5. CASE Request(c, accepted, d, TRUE, to, t)
  <2>1. /\ R.exists /\ id \in Ids(R) /\ index <= Len(R.slides)
        /\ decks' = [decks EXCEPT ![k] = d] /\ object' = object /\ refused' = refused
        /\ stale' = [e \in Client |-> stale[e] \/ object[e].id = k]
        /\ pc' = [pc EXCEPT ![c] = to] /\ task' = [task EXCEPT ![c] = t]
    BY <1>0, <1>3, <1>5 DEF Request, Goto, SetTask
  <2>2. index \in 0 .. Len(R.slides)
    BY <1>1, <1>2, <2>1, DeckParts
  <2>3. /\ DeckOK(d) /\ Same(R, d)
        /\ \A i \in DOMAIN R.slides : \E j \in DOMAIN d.slides : d.slides[j] = R.slides[i]
        /\ \E j \in DOMAIN d.slides :
             d.slides[j].id = R.next /\ d.slides[j].origin = R.slides[PlaceOf(R, id)].origin
    <3>1. DeckOK(R) /\ id \in Ids(R) /\ d = WithCopy(R, id, index)
      BY <1>2, <1>3, <2>1
    <3> QED
      BY <2>2, <3>1, Copied
  <2>4. Only(c) /\ pc'[c] = to /\ task'[c] = t
    BY <2>1, Located DEF Only, Location
  <2>5. \A x \in Doomed(k)' : x < R.next /\ x \in Doomed(k) \cup {id}
    <3>1. \A x \in Doomed(k) : x < R.next
      BY <1>2, DoomedBelow
    <3>2. CASE to = "idle"
      <4>1. Doomed(k)' \subseteq Doomed(k)
        BY <2>4, <3>2, DoomedFewer
      <4> QED
        BY <3>1, <4>1
    <3>3. CASE to = "delete"
      <4>1. Doomed(k)' \subseteq Doomed(k) \cup {object[c].slides[task'[c].slide]}
        BY <2>1, <2>4, DoomedMore
      <4> QED
        BY <1>2, <1>3, <2>4, <3>1, <3>3, <4>1
    <3> QED
      BY <3>2, <3>3
  <2>6. KeptBut(d, Doomed(k)')
    <3> SUFFICES ASSUME NEW origin \in (1 .. R.first) \ R.deleted
                 PROVE  \E j \in DOMAIN d.slides :
                          d.slides[j].origin = origin /\ d.slides[j].id \notin Doomed(k)'
      BY <2>3 DEF KeptBut, Same
    <3>1. PICK i \in DOMAIN R.slides : R.slides[i].origin = origin /\ R.slides[i].id \notin Doomed(k)
      BY <1>2, <2>1 DEF KeptBut
    <3>2. CASE R.slides[i].id # id
      <4>1. R.slides[i].id \notin Doomed(k)'
        BY <2>5, <3>1, <3>2
      <4> QED
        BY <2>3, <3>1, <4>1
    <3>3. CASE R.slides[i].id = id
      <4>1. R.slides[PlaceOf(R, id)].origin = origin
        <5>1. PlaceOf(R, id) \in DOMAIN R.slides /\ R.slides[PlaceOf(R, id)].id = id
          BY <1>2, <2>1, DeckParts
        <5> QED
          BY <1>2, <3>1, <3>3, <5>1 DEF DeckOK
      <4>2. R.next \notin Doomed(k)'
        <5>1. R.next \in Nat
          BY <1>2, DeckParts
        <5> QED
          BY <2>5, <5>1
      <4> QED
        BY <2>3, <4>1, <4>2
    <3> QED
      BY <3>2, <3>3
  <2>7. /\ d.exists = R.exists /\ d.next >= R.next
        /\ stale' \in [Client -> BOOLEAN]
        /\ \A e \in Client : ~stale'[e] => ~stale[e] /\ (object[e].id = k => Snapshot(d) = Snapshot(R))
        /\ to = "delete" => t.slide \in DOMAIN object[c].slides
        /\ refused' = FALSE
    BY <1>1, <2>1, <2>3 DEF Same, SlidesInv
  <2> QED
    <3>1. /\ k = object[c].id /\ k # 0 /\ object' = object /\ DeckOK(d)
          /\ pc' = [pc EXCEPT ![c] = to] /\ task' = [task EXCEPT ![c] = t]
          /\ decks' = [decks EXCEPT ![k] = d]
      BY <1>0, <1>2, <2>1, <2>3
    <3>2. /\ d.exists = Remote(c).exists /\ d.next >= Remote(c).next
          /\ \A e \in Client : ~stale'[e] =>
               ~stale[e] /\ (object[e].id = object[c].id => Snapshot(d) = Snapshot(Remote(c)))
      BY <1>0, <1>3, <2>7
    <3> QED
      BY <2>6, <2>7, <3>1, <3>2, Requested
<1> QED
  BY <1>1, <1>4, <1>5

LEMMA DeletesKeep ==
  ASSUME SlidesInv, NEW c \in Client, object[c].id # 0, NEW n, NEW explicit \in BOOLEAN,
         ~explicit => pc[c] = "delete" /\ task[c].slide = n,
         Deletes(c, n, explicit, "idle", NoTask), calls' \in 0 .. MaxCalls
  PROVE  SlidesInv'
<1> DEFINE id == object[c].slides[n]
           R == Remote(c)
           accepted == id \in Ids(R) /\ Len(R.slides) > 1
           origin == R.slides[PlaceOf(R, id)].origin
           without == WithoutSlide(R, id)
           d == IF explicit THEN [without EXCEPT !.deleted = @ \cup {origin}] ELSE without
<1>0. PICK k : k = object[c].id
  OBVIOUS
<1>1. /\ n \in DOMAIN object[c].slides /\ Len(object[c].slides) # 1
      /\ Request(c, accepted, d, TRUE, "idle", NoTask) \/ Refusal(c, accepted, FALSE)
  BY DEF Deletes
<1>2. /\ k \in DOMAIN decks /\ R = decks[k] /\ DeckOK(R) /\ k # 0
      /\ Len(object[c].slides) \in Nat /\ Len(object[c].slides) >= 1
      /\ R.exists => KeptBut(R, Doomed(k))
      /\ ~stale[c] => R.exists /\ Len(object[c].slides) = Len(R.slides) /\ id \in Ids(R)
  <2>1. object[c].slides \in Seq(Nat \ {0}) /\ id \in Nat
    BY <1>1, Payload
  <2> QED
    BY <1>0, <1>1, <2>1, Payload
<1>3. /\ accepted = (id \in Ids(R) /\ Len(R.slides) > 1) /\ R = Remote(c)
      /\ id = object[c].slides[n] /\ without = WithoutSlide(R, id)
      /\ origin = R.slides[PlaceOf(R, id)].origin
      /\ d = IF explicit THEN [without EXCEPT !.deleted = without.deleted \cup {origin}] ELSE without
  OBVIOUS
<1> HIDE DEF id, accepted, R, d, without, origin
<1>4. CASE Refusal(c, accepted, FALSE)
  <2>1. UNCHANGED <<decks, object, stale>> /\ End(c, pc[c])
    BY <1>4 DEF Refusal
  <2>2. refused' = FALSE
    <3>1. ~stale[c] => R.exists /\ accepted
      <4> HAVE ~stale[c]
      <4>1. /\ Len(object[c].slides) = Len(R.slides) /\ id \in Ids(R) /\ R.exists
            /\ Len(object[c].slides) >= 1 /\ Len(object[c].slides) \in Nat
        BY <1>2
      <4>2. Len(object[c].slides) # 1
        BY <1>1
      <4>3. \A l \in Nat : l >= 1 /\ l # 1 => l > 1
        OBVIOUS
      <4>4. Len(object[c].slides) > 1
        BY <4>1, <4>2, <4>3, Zenon
      <4> QED
        BY <1>3, <4>1, <4>4
    <3> QED
      BY <1>3, <1>4, <3>1 DEF Refusal, SlidesInv
  <2> QED
    BY <2>1, <2>2, Ended
<1>5. CASE Request(c, accepted, d, TRUE, "idle", NoTask)
  <2>1. /\ R.exists /\ id \in Ids(R) /\ Len(R.slides) > 1
        /\ decks' = [decks EXCEPT ![k] = d] /\ object' = object /\ refused' = refused
        /\ stale' = [e \in Client |-> stale[e] \/ object[e].id = k]
        /\ pc' = [pc EXCEPT ![c] = "idle"] /\ task' = [task EXCEPT ![c] = NoTask]
    BY <1>0, <1>3, <1>5 DEF Request, Goto, SetTask
  <2>2. /\ DeckOK(without) /\ Same(R, without)
        /\ \A i \in DOMAIN R.slides : i # PlaceOf(R, id) =>
             \E j \in DOMAIN without.slides : without.slides[j] = R.slides[i]
    BY <1>2, <1>3, <2>1, Deleted
  <2>3. origin \in Nat /\ R.deleted \in SUBSET Nat /\ PlaceOf(R, id) \in DOMAIN R.slides
        /\ R.slides[PlaceOf(R, id)].id = id
    BY <1>2, <1>3, <2>1, DeckParts
  <2>4. /\ DeckOK(d) /\ d.exists = R.exists /\ d.next >= R.next /\ d.first = R.first
        /\ d.slides = without.slides
        /\ d.deleted = IF explicit THEN R.deleted \cup {origin} ELSE R.deleted
    <3>1. CASE explicit
      <4> DEFINE all == R.deleted \cup {origin}
      <4>1. d = [without EXCEPT !.deleted = all] /\ all \in SUBSET Nat
        BY <1>3, <2>2, <2>3, <3>1 DEF Same
      <4> HIDE DEF all
      <4>2. without \in Deck
        BY <2>2 DEF DeckOK
      <4>3. /\ d \in Deck /\ d.slides = without.slides /\ d.exists = without.exists
            /\ d.next = without.next /\ d.first = without.first /\ d.deleted = all
        BY <4>1, <4>2 DEF Deck
      <4>4. DeckOK(d)
        BY <2>2, <4>3 DEF DeckOK
      <4> QED
        BY <2>2, <3>1, <4>3, <4>4 DEF Same, all
    <3>2. CASE ~explicit
      BY <1>3, <2>2, <3>2 DEF Same
    <3> QED
      BY <3>1, <3>2
  <2>5. Only(c) /\ pc'[c] = "idle"
    <3>1. NoTask \in Tasks /\ "idle" \in Location
      BY DEF NoTask, Tasks, Location
    <3> QED
      BY <2>1, <3>1, Located DEF Only
  <2>6. Doomed(k)' \subseteq Doomed(k)
    BY <2>5, DoomedFewer
  <2>7. ~explicit => id \in Doomed(k)
    BY <1>0, <1>3 DEF Doomed, Moving
  <2>8. KeptBut(d, Doomed(k)')
    <3> SUFFICES ASSUME NEW o \in (1 .. R.first) \ R.deleted, explicit => o # origin
                 PROVE  \E j \in DOMAIN without.slides :
                          without.slides[j].origin = o /\ without.slides[j].id \notin Doomed(k)'
      BY <2>4 DEF KeptBut
    <3>1. PICK i \in DOMAIN R.slides : R.slides[i].origin = o /\ R.slides[i].id \notin Doomed(k)
      BY <1>2, <2>1 DEF KeptBut
    <3>2. i # PlaceOf(R, id)
      BY <1>3, <2>3, <2>7, <3>1
    <3>3. R.slides[i].id \notin Doomed(k)'
      BY <2>6, <3>1
    <3> QED
      BY <2>2, <3>1, <3>2, <3>3
  <2>9. /\ stale' \in [Client -> BOOLEAN]
        /\ \A e \in Client : ~stale'[e] => ~stale[e] /\ (object[e].id = k => Snapshot(d) = Snapshot(R))
        /\ refused' = FALSE /\ NoTask \in Tasks /\ "idle" # "delete" /\ "idle" \in {"idle", "delete"}
    BY <2>1 DEF SlidesInv, NoTask, Tasks
  <2> QED
    BY <1>0, <1>2, <1>3, <2>1, <2>4, <2>8, <2>9, Requested
<1> QED
  BY <1>1, <1>4, <1>5

LEMMA CreatesKeep ==
  ASSUME SlidesInv, NEW c \in Client, object[c].id # 0, NEW n, ~stale[c] => n \in DOMAIN object[c].slides,
         NEW default \in BOOLEAN, NEW shows, NEW of,
         NEW e, e = [id |-> IF default THEN c ELSE None, shows |-> shows, of |-> of],
         e \in Element, Shown(e),
         Creates(c, n, default, shows, of), calls' \in 0 .. MaxCalls
  PROVE  SlidesInv'
<1> DEFINE id == object[c].slides[n]
           R == Remote(c)
           taken == default /\ c \in ElementIds(R)
           accepted == id \in Ids(R) /\ ~taken
           d == WithElement(R, id, e)
<1>0. PICK k : k = object[c].id
  OBVIOUS
<1>1. Request(c, accepted, d, FALSE, "idle", NoTask) \/ Refusal(c, accepted, taken)
  BY DEF Creates
<1>2. /\ k \in DOMAIN decks /\ R = decks[k] /\ DeckOK(R) /\ k # 0
      /\ R.exists => KeptBut(R, Doomed(k))
      /\ ~stale[c] => R.exists /\ id \in Ids(R)
  BY <1>0, Payload
<1>3. /\ accepted = (id \in Ids(R) /\ ~taken) /\ R = Remote(c)
      /\ d = WithElement(R, id, e)
  OBVIOUS
<1> HIDE DEF id, accepted, R, d, taken
<1>4. CASE Refusal(c, accepted, taken)
  <2>1. UNCHANGED <<decks, object, stale>> /\ End(c, pc[c])
    BY <1>4 DEF Refusal
  <2>2. refused' = FALSE
    <3>1. ~stale[c] => R.exists /\ (accepted \/ taken)
      <4> HAVE ~stale[c]
      <4>1. id \in Ids(R) /\ R.exists
        BY <1>2
      <4> QED
        BY <1>3, <4>1
    <3> QED
      BY <1>3, <1>4, <3>1 DEF Refusal, SlidesInv
  <2> QED
    BY <2>1, <2>2, Ended
<1>5. CASE Request(c, accepted, d, FALSE, "idle", NoTask)
  <2>1. /\ R.exists /\ id \in Ids(R)
        /\ decks' = [decks EXCEPT ![k] = d] /\ object' = object /\ refused' = refused
        /\ stale' = [f \in Client |-> stale[f] \/ FALSE]
        /\ pc' = [pc EXCEPT ![c] = "idle"] /\ task' = [task EXCEPT ![c] = NoTask]
    BY <1>0, <1>3, <1>5 DEF Request, Goto, SetTask
  <2>2. /\ DeckOK(d) /\ Same(R, d) /\ DOMAIN d.slides = DOMAIN R.slides
        /\ \A i \in DOMAIN R.slides : d.slides[i].id = R.slides[i].id /\ d.slides[i].origin = R.slides[i].origin
    <3>1. DeckOK(R) /\ id \in Ids(R) /\ d = WithElement(R, id, e)
      BY <1>2, <1>3, <2>1
    <3> QED
      BY <3>1, Added
  <2>3. Snapshot(d) = Snapshot(R)
    BY <2>2 DEF Snapshot
  <2>4. Only(c) /\ pc'[c] = "idle"
    <3>1. NoTask \in Tasks /\ "idle" \in Location
      BY DEF NoTask, Tasks, Location
    <3> QED
      BY <2>1, <3>1, Located DEF Only
  <2>5. Doomed(k)' \subseteq Doomed(k)
    BY <2>4, DoomedFewer
  <2>6. KeptBut(d, Doomed(k)')
    <3>1. KeptBut(R, Doomed(k)')
      BY <1>2, <2>1, <2>5, KeptFewer
    <3> QED
      BY <2>2, <3>1 DEF KeptBut, Same
  <2>7. /\ stale' \in [Client -> BOOLEAN] /\ \A f \in Client : ~stale'[f] => ~stale[f]
        /\ refused' = FALSE /\ NoTask \in Tasks /\ "idle" # "delete" /\ "idle" \in {"idle", "delete"}
    BY <2>1 DEF SlidesInv, NoTask, Tasks
  <2>8. /\ k = object[c].id /\ k # 0 /\ object' = object /\ DeckOK(d)
        /\ pc' = [pc EXCEPT ![c] = "idle"] /\ task' = [task EXCEPT ![c] = NoTask]
        /\ decks' = [decks EXCEPT ![k] = d]
    BY <1>0, <1>2, <2>1, <2>2
  <2>9. d.exists = Remote(c).exists /\ d.next >= Remote(c).next /\ Snapshot(d) = Snapshot(Remote(c))
    BY <1>3, <2>2, <2>3 DEF Same
  <2> QED
    BY <2>6, <2>7, <2>8, <2>9, Requested
<1> QED
  BY <1>1, <1>4, <1>5

-----------------------------------------------------------------------------
(* The images, and the files that they are made from.                      *)

\* insert_image is called for a file that there is, and what it asks Drive for is
\* a version of it.
ImageInv ==
  \A c \in Client : pc[c] = "image" =>
    IF at[c] = "idle" THEN result[c] # None => result[c].version # None
    ELSE job[c].version # None

\* A step of Drive that is not of d's leaves d where it is, and its versions.
Kept(d) ==
  /\ at'[d] = at[d]
  /\ job[d] # None => job'[d] # None /\ job'[d].version = job[d].version
  /\ result'[d] # None => result[d] # None /\ result'[d].version = result[d].version

LEMMA DisturbsVersions ==
  ASSUME DriveTypeOK, NEW c \in Client, NEW answer, Disturbs(c, answer)
  PROVE  /\ result'[c] = answer
         /\ \A d \in Client \ {c} : result'[d] # None => result[d] # None /\ result'[d].version = result[d].version
         /\ \A d \in Client : job[d] # None => job'[d] # None /\ job'[d].version = job[d].version
<1>1. \A d \in Client \ {c} : result'[d] = Stale(result[d])
  BY DEF Disturbs
<1>2. \A d \in Client : result[d] # None =>
        result[d] \in Answers(Len(drive)) /\ [result[d] EXCEPT !.fresh = FALSE].version = result[d].version
  <2> TAKE d \in Client
  <2> HAVE result[d] # None
  <2>1. result[d] \in Answers(Len(drive))
    BY DEF DriveTypeOK, Answers
  <2> QED
    BY <2>1 DEF Answers
<1>3. \A d \in Client \ {c} : result'[d] # None => result[d] # None /\ result'[d].version = result[d].version
  BY <1>1, <1>2 DEF Stale
<1>4. result'[c] = answer
  BY DEF Disturbs
<1>5. \A d \in Client : job[d] # None =>
        [job[d] EXCEPT !.alone = FALSE] \in Job /\ [job[d] EXCEPT !.alone = FALSE].version = job[d].version
  BY DEF DriveTypeOK, Job
<1>6. None \notin Job
  BY GoogleDriveAssumption
<1>7. \A d \in Client : job'[d] = IF d # c /\ job[d] # None THEN [job[d] EXCEPT !.alone = FALSE] ELSE job[d]
  BY DEF Disturbs
<1>8. \A d \in Client : job[d] # None => job'[d] # None /\ job'[d].version = job[d].version
  BY <1>5, <1>6, <1>7
<1> QED
  BY <1>3, <1>4, <1>8

(* The other programs keep the versions they have.                         *)
LEMMA VersionsKeep ==
  ASSUME DriveTypeOK, NEW c \in Client, DriveAction(c)
  PROVE  \A d \in Client \ {c} : Kept(d)
<1> DEFINE Keeps == \A d \in Client \ {c} : Kept(d)
<1>0. /\ at \in [Client -> {"idle", "delete", "find", "update", "create"}]
      /\ job \in [Client -> Job \cup {None}] /\ DOMAIN result = Client
      /\ \A f \in Files : f \in Nat
  BY OnDriveType DEF DriveTypeOK, Files
<1>1. ASSUME NEW to, Move(c, to) PROVE \A d \in Client \ {c} : at'[d] = at[d]
  BY <1>0, <1>1 DEF Move
<1>2. ASSUME NEW answer, Disturbs(c, answer), \A d \in Client \ {c} : at'[d] = at[d] PROVE Keeps
  BY <1>2, DisturbsVersions DEF Kept
<1>3. ASSUME \A d \in Client \ {c} : at'[d] = at[d] /\ job'[d] = job[d] /\ result'[d] = result[d] PROVE Keeps
  BY <1>3 DEF Kept
<1>4. ASSUME NEW p, NEW id, NEW guarded, Begin(c, p, id, guarded)
      PROVE  \A d \in Client \ {c} : job'[d] = job[d]
  BY <1>0, <1>4 DEF Begin
<1> HIDE DEF Keeps
<1>5. ASSUME DriveFails(c), job' = job PROVE Keeps
  BY <1>0, <1>1, <1>3, <1>5 DEF DriveFails
<1>6. ASSUME NEW p \in Path, Upload(c, p) PROVE Keeps
  <2>1. result' = result /\ Found(c, p, FALSE)
    BY <1>6 DEF Upload
  <2>2. \A d \in Client \ {c} : job'[d] = job[d] /\ at'[d] = at[d]
    BY <1>0, <1>1, <2>1 DEF Found, Begin
  <2> QED
    BY <1>3, <2>1, <2>2
<1>7. ASSUME NEW p \in Path, NEW forced \in BOOLEAN, Get(c, p, forced) PROVE Keeps
  <2>1. \A d \in Client \ {c} : at'[d] = at[d]
    BY <1>0, <1>1, <1>7 DEF Get
  <2>2. \A d \in Client \ {c} : job'[d] = job[d] /\ result'[d] = result[d]
    BY <1>0, <1>7 DEF Get, Begin
  <2> QED
    BY <1>3, <2>1, <2>2
<1>8. ASSUME Find(c) PROVE Keeps
  <2>1. result' = result /\ \A d \in Client \ {c} : at'[d] = at[d]
    BY <1>1, <1>8 DEF Find
  <2>2. \A d \in Client \ {c} : job'[d] = job[d]
    BY <1>0, <1>8 DEF Find
  <2> QED
    BY <1>3, <2>1, <2>2
<1>9. ASSUME NoLocalFile(c) PROVE Keeps
  <2>1. CASE DriveFails(c) /\ job' = job
    BY <1>5, <2>1
  <2>2. CASE job' = [job EXCEPT ![c].guarded = FALSE] /\ Move(c, "find") /\ result' = result
    <3>1. \A d \in Client \ {c} : job'[d] = job[d]
      BY <1>0, <2>2
    <3> QED
      BY <1>1, <1>3, <2>2, <3>1
  <2> QED
    BY <1>9, <2>1, <2>2 DEF NoLocalFile
<1>10. ASSUME DeleteOld(c) \/ UpdateFile(c) \/ CreateFile(c) \/ DriveRequestFails(c) \/ DeleteByName(c)
       PROVE  Keeps
  <2>1. CASE DriveFails(c) /\ job' = job
    BY <1>5, <2>1
  <2>2. CASE /\ \E answer : Disturbs(c, answer)
             /\ at' = at \/ Move(c, "idle") \/ Move(c, "find")
    BY <1>1, <1>2, <2>2
  <2> QED
    BY <1>10, <2>1, <2>2 DEF DeleteOld, UpdateFile, CreateFile, DriveRequestFails, DeleteByName, Returns
<1> QED
  BY <1>6, <1>7, <1>8, <1>9, <1>10 DEF DriveAction, DriveStep, Keeps

(* A call of Drive returns the version that it was made for.               *)
LEMMA StepAnswers ==
  ASSUME DriveTypeOK, NEW c \in Client, DriveStep(c)
  PROVE  /\ at[c] # "idle" /\ job[c] # None
         /\ IF at'[c] = "idle" THEN result'[c] # None => result'[c].version = job[c].version
            ELSE job'[c] # None /\ job'[c].version = job[c].version
<1> DEFINE Answered == IF at'[c] = "idle" THEN result'[c] # None => result'[c].version = job[c].version
                       ELSE job'[c] # None /\ job'[c].version = job[c].version
<1>0. /\ at \in [Client -> {"idle", "delete", "find", "update", "create"}]
      /\ job \in [Client -> Job \cup {None}] /\ DOMAIN result = Client
  BY DEF DriveTypeOK
<1>1. at[c] # "idle" /\ job[c] # None /\ job[c] \in Job
  <2>1. at[c] # "idle"
    BY DEF DriveStep, DeleteOld, Find, NoLocalFile, UpdateFile, CreateFile, DriveRequestFails
  <2> QED
    BY <1>0, <2>1 DEF DriveTypeOK
<1>2. ASSUME NEW to, Move(c, to) PROVE at'[c] = to
  BY <1>0, <1>2 DEF Move
<1>3. ASSUME DriveFails(c) PROVE Answered
  BY <1>0, <1>2, <1>3 DEF DriveFails
<1>4. ASSUME Disturbs(c, None) PROVE Answered
  BY <1>1, <1>4, DisturbsVersions
<1>5. ASSUME NEW id, Returns(c, id) PROVE Answered
  <2> DEFINE answer == [id |-> id, path |-> job[c].path, version |-> job[c].version, fresh |-> job[c].alone]
  <2>1. at'[c] = "idle" /\ Disturbs(c, answer) /\ answer.version = job[c].version
    BY <1>2, <1>5 DEF Returns
  <2> HIDE DEF answer
  <2>2. result'[c] = answer
    BY <2>1, DisturbsVersions
  <2> QED
    BY <2>1, <2>2
<1>6. ASSUME NEW r \in Job, r.version = job[c].version, job' = [job EXCEPT ![c] = r], at'[c] # "idle"
      PROVE  Answered
  BY <1>0, <1>6, GoogleDriveAssumption
<1> HIDE DEF Answered
<1>7. ASSUME DeleteOld(c) PROVE Answered
  BY <1>3, <1>4, <1>7 DEF DeleteOld
<1>8. ASSUME Find(c) PROVE Answered
  <2>1. at'[c] # "idle"
    BY <1>2, <1>8 DEF Find
  <2>2. CASE job' = job
    BY <1>1, <2>1, <2>2 DEF Answered
  <2>3. ASSUME NEW f \in Files, job' = [job EXCEPT ![c].id = f] PROVE Answered
    <3>1. f \in Nat
      BY OnDriveType DEF Files
    <3> DEFINE r == [job[c] EXCEPT !.id = f]
    <3>2. r \in Job /\ r.version = job[c].version
      BY <1>1, <3>1 DEF Job
    <3>3. job' = [job EXCEPT ![c] = r]
      BY <2>3
    <3> HIDE DEF r
    <3> QED
      BY <1>6, <2>1, <3>2, <3>3
  <2> QED
    BY <1>8, <2>2, <2>3 DEF Find
<1>9. ASSUME NoLocalFile(c) PROVE Answered
  <2>1. CASE DriveFails(c)
    BY <1>3, <2>1
  <2>2. CASE job' = [job EXCEPT ![c].guarded = FALSE] /\ Move(c, "find")
    <3> DEFINE r == [job[c] EXCEPT !.guarded = FALSE]
    <3>1. r \in Job /\ r.version = job[c].version
      BY <1>1 DEF Job
    <3>2. job' = [job EXCEPT ![c] = r] /\ at'[c] # "idle"
      BY <1>2, <2>2
    <3> HIDE DEF r
    <3> QED
      BY <1>6, <3>1, <3>2
  <2> QED
    BY <1>9, <2>1, <2>2 DEF NoLocalFile
<1>10. ASSUME UpdateFile(c) \/ CreateFile(c) \/ DriveRequestFails(c) PROVE Answered
  <2>1. DriveFails(c) \/ Disturbs(c, None) \/ \E id : Returns(c, id)
    BY <1>10 DEF UpdateFile, CreateFile, DriveRequestFails
  <2> QED
    BY <1>3, <1>4, <1>5, <2>1
<1> QED
  BY <1>1, <1>7, <1>8, <1>9, <1>10 DEF DriveStep, Answered

LEMMA GetAnswers ==
  ASSUME DriveTypeOK, NEW c \in Client, NEW p \in Path, NEW forced \in BOOLEAN, Get(c, p, forced)
  PROVE  IF at'[c] = "idle" THEN result'[c] # None => result'[c].version = local[p]
         ELSE job'[c].version = local[p]
<1>0. /\ at \in [Client -> {"idle", "delete", "find", "update", "create"}]
      /\ DOMAIN job = Client /\ DOMAIN result = Client /\ at[c] = "idle"
  BY DEF DriveTypeOK, Get
<1>1. ASSUME NEW id, NEW guarded, Begin(c, p, id, guarded) PROVE job'[c].version = local[p]
  BY <1>0, <1>1 DEF Begin
<1>2. job'[c].version = local[p]
  BY <1>1 DEF Get
<1>3. at' = at => result'[c].version = local[p]
  <2> HAVE at' = at
  <2>1. ~Move(c, "delete") /\ ~Move(c, "find")
    BY <1>0 DEF Move
  <2>2. PICK f \in Files : result' = [result EXCEPT ![c] = [id |-> f, path |-> p, version |-> local[p], fresh |-> FALSE]]
    BY <2>1 DEF Get
  <2> QED
    BY <1>0, <2>2
<1>4. at' = at \/ at'[c] # "idle"
  BY <1>0 DEF Get, Move
<1> QED
  BY <1>2, <1>3, <1>4

-----------------------------------------------------------------------------
(* The steps of the programs.                                              *)

GoogleInv == DriveInv /\ SlidesInv /\ ImageInv

LEMMA OneMore ==
  ASSUME SlidesInv, NEW c \in Client, Call(c)
  PROVE  calls' \in 0 .. MaxCalls
BY GoogleSlidesAssumption DEF SlidesInv, Call

LEMMA OnlyCalls ==
  ASSUME SlidesInv, UNCHANGED <<decks, object, pc, task, stale, refused>>, calls' \in 0 .. MaxCalls
  PROVE  SlidesInv'
<1>1. ASSUME NEW c \in Client PROVE ClientOK(c)'
  <2>1. ClientOK(c)
    BY DEF SlidesInv
  <2> QED
    BY <2>1 DEF ClientOK, Remote, Snapshot
<1>2. \A k \in DOMAIN decks : decks[k].exists => KeptBut(decks'[k], Doomed(k)')
  BY DEF SlidesInv, Doomed, Moving
<1> QED
  BY <1>1, <1>2 DEF SlidesInv

LEMMA GetDeckKeeps ==
  ASSUME SlidesInv, NEW c \in Client, NEW template \in BOOLEAN, GetDeck(c, template)
  PROVE  SlidesInv'
<1>1. calls' \in 0 .. MaxCalls /\ decks' = decks /\ object' = object /\ stale' = stale /\ refused' = FALSE
  BY OneMore DEF GetDeck, SlidesInv
<1>2. \E to \in Location \ {"delete", "image", "clean"}, t \in Tasks :
        /\ pc' = [pc EXCEPT ![c] = to] /\ task' = [task EXCEPT ![c] = t]
        /\ to = "retrieve" => t.deck \in DOMAIN decks
  <2>1. CASE \E d \in Named : Goto(c, "idle", "retrieve") /\ SetTask(c, [NoTask EXCEPT !.deck = d])
    <3>1. PICK d \in Named : Goto(c, "idle", "retrieve") /\ SetTask(c, [NoTask EXCEPT !.deck = d])
      BY <2>1
    <3>2. d \in DOMAIN decks /\ d \in Nat
      BY DEF Named, SlidesInv
    <3>3. [NoTask EXCEPT !.deck = d] \in Tasks /\ [NoTask EXCEPT !.deck = d].deck = d
      BY <3>2 DEF NoTask, Tasks
    <3>4. "retrieve" \in Location \ {"delete", "image", "clean"}
      BY DEF Location
    <3> QED
      BY <3>1, <3>2, <3>3, <3>4 DEF Goto, SetTask
  <2>2. CASE Goto(c, "idle", IF template THEN "template" ELSE "create") /\ SetTask(c, NoTask)
    <3>1. NoTask \in Tasks /\ {"template", "create"} \subseteq Location \ {"delete", "image", "clean"}
      BY DEF NoTask, Tasks, Location
    <3> QED
      BY <2>2, <3>1 DEF Goto, SetTask
  <2> QED
    BY <2>1, <2>2 DEF GetDeck
<1>3. PICK to \in Location \ {"delete", "image", "clean"}, t \in Tasks :
        /\ pc' = [pc EXCEPT ![c] = to] /\ task' = [task EXCEPT ![c] = t]
        /\ to = "retrieve" => t.deck \in DOMAIN decks
  BY <1>2
<1> QED
  BY <1>1, <1>3, Stays

LEMMA RetrieveKeeps ==
  ASSUME SlidesInv, NEW c \in Client, Retrieve(c)
  PROVE  SlidesInv'
<1> DEFINE k == task[c].deck
<1>1. /\ End(c, "retrieve") /\ pc[c] = "retrieve" /\ decks' = decks /\ refused' = FALSE /\ calls' \in 0 .. MaxCalls
      /\ pc' = [pc EXCEPT ![c] = "idle"] /\ task' = [task EXCEPT ![c] = NoTask]
  BY DEF Retrieve, End, Goto, SetTask, SlidesInv
<1>2. CASE decks[k].exists
  <2>1. PICK n : n = k
    OBVIOUS
  <2>2. n \in DOMAIN decks /\ DeckOK(decks[n]) /\ decks[n].exists
    BY <1>1, <1>2, <2>1 DEF SlidesInv, ClientOK
  <2>3. /\ object' = [object EXCEPT ![c] = [id |-> n, slides |-> Snapshot(decks[n])]]
        /\ stale' = [stale EXCEPT ![c] = FALSE]
    BY <1>2, <2>1 DEF Retrieve, Binds
  <2>4. PICK slides : slides = Snapshot(decks[n])
    OBVIOUS
  <2>5. slides \in Seq(Nat \ {0}) /\ \A i \in DOMAIN slides : slides[i] < decks[n].next
    BY <2>2, <2>4, SnapshotOK
  <2>6. NoTask \in Tasks /\ object' = [object EXCEPT ![c] = [id |-> n, slides |-> slides]]
    BY <2>3, <2>4 DEF NoTask, Tasks
  <2>7. stale' \in [Client -> BOOLEAN] /\ \A e \in Client \ {c} : stale'[e] = stale[e]
    BY <2>3 DEF SlidesInv
  <2> QED
    BY <1>1, <2>2, <2>4, <2>5, <2>6, <2>7, Binding
<1>3. CASE ~decks[k].exists
  <2>1. UNCHANGED <<decks, object, stale>>
    BY <1>3 DEF Retrieve
  <2> QED
    BY <1>1, <2>1, Ended
<1> QED
  BY <1>2, <1>3

LEMMA NewDeckComes ==
  ASSUME SlidesInv, NEW c \in Client, NEW to \in {"retrieve", "clean", "idle"}, NEW t \in Tasks,
         to # "idle" => t.deck = Len(decks) + 1,
         NEW n \in {1, 2}, NEW placeholders \in BOOLEAN,
         decks' = Append(decks, NewDeck(n, placeholders)),
         pc' = [pc EXCEPT ![c] = to], task' = [task EXCEPT ![c] = t],
         UNCHANGED <<object, stale, refused, calls>>
  PROVE  SlidesInv'
<1>1. PICK d : d = NewDeck(n, placeholders)
  OBVIOUS
<1>2. DeckOK(d) /\ KeptBut(d, {})
  BY <1>1, NewDecks
<1>3. decks' = Append(decks, d) /\ decks \in Seq(Deck) /\ d \in Deck
  BY <1>1, <1>2 DEF SlidesInv, DeckOK
<1>4. to # "idle" => t.deck \in DOMAIN decks'
  BY <1>3
<1>5. to \in Location \ {"delete"} /\ to # "image" /\ refused' = FALSE /\ calls' \in 0 .. MaxCalls
  BY DEF Location, SlidesInv
<1> QED
  BY <1>2, <1>3, <1>4, <1>5, Stays

LEMMA CreatingKeeps ==
  ASSUME SlidesInv, NEW c \in Client, CopyTemplate(c) \/ CreateNew(c)
  PROVE  SlidesInv'
<1>1. Len(decks) + 1 \in Nat
  BY DEF SlidesInv
<1>2. CASE CopyTemplate(c)
  <2> DEFINE t == [NoTask EXCEPT !.deck = Len(decks) + 1]
  <2>1. t \in Tasks /\ t.deck = Len(decks) + 1
    BY <1>1 DEF NoTask, Tasks
  <2>2. /\ decks' = Append(decks, NewDeck(2, FALSE)) /\ UNCHANGED <<object, stale, refused, calls>>
        /\ pc' = [pc EXCEPT ![c] = "retrieve"] /\ task' = [task EXCEPT ![c] = t]
    BY <1>2 DEF CopyTemplate, Goto, SetTask
  <2> HIDE DEF t
  <2>3. PICK placeholders \in BOOLEAN : decks' = Append(decks, NewDeck(2, placeholders))
    BY <2>2
  <2> QED
    BY <2>1, <2>2, <2>3, NewDeckComes
<1>3. CASE CreateNew(c)
  <2> DEFINE t == [task[c] EXCEPT !.deck = Len(decks) + 1]
  <2>1. t \in Tasks /\ t.deck = Len(decks) + 1
    <3>1. task[c] \in Tasks
      BY DEF SlidesInv
    <3> QED
      BY <1>1, <3>1 DEF Tasks
  <2>2. /\ decks' = Append(decks, NewDeck(1, TRUE)) /\ UNCHANGED <<object, stale, refused, calls>>
        /\ pc' = [pc EXCEPT ![c] = "clean"] /\ task' = [task EXCEPT ![c] = t]
    BY <1>3 DEF CreateNew, Goto, SetTask
  <2> HIDE DEF t
  <2>3. PICK placeholders \in BOOLEAN : decks' = Append(decks, NewDeck(1, placeholders))
    BY <2>2
  <2> QED
    BY <2>1, <2>2, <2>3, NewDeckComes
<1> QED
  BY <1>2, <1>3

LEMMA RemovePlaceholdersKeeps ==
  ASSUME SlidesInv, NEW c \in Client, RemovePlaceholders(c)
  PROVE  SlidesInv'
<1>1. PICK d : d = task[c].deck
  OBVIOUS
<1>2. /\ End(c, "clean") /\ pc[c] = "clean" /\ refused' = FALSE /\ calls' \in 0 .. MaxCalls
      /\ pc' = [pc EXCEPT ![c] = "idle"] /\ task' = [task EXCEPT ![c] = NoTask]
  BY DEF RemovePlaceholders, End, Goto, SetTask, SlidesInv
<1>3. d \in DOMAIN decks /\ DeckOK(decks[d]) /\ decks[d].next > 1
  BY <1>1, <1>2 DEF SlidesInv, ClientOK, DeckOK
<1>4. CASE decks[d].exists
  <2>1. /\ decks' = [decks EXCEPT ![d].placeholders = FALSE]
        /\ object' = [object EXCEPT ![c] = [id |-> d, slides |-> <<1>>]]
        /\ stale' = [stale EXCEPT ![c] = Len(decks[d].slides) # 1 \/ decks[d].slides[1].id # 1]
    BY <1>1, <1>4 DEF RemovePlaceholders
  <2>2. /\ stale' \in [Client -> BOOLEAN] /\ \A e \in Client \ {c} : stale'[e] = stale[e]
        /\ ~stale'[c] => Len(decks[d].slides) = 1 /\ decks[d].slides[1].id = 1
    BY <2>1 DEF SlidesInv
  <2>3. ~stale'[c] => <<1>> = Snapshot(decks[d])
    <3> HAVE ~stale'[c]
    <3>4. DOMAIN decks[d].slides = 1 .. Len(decks[d].slides)
      BY <1>3, DeckParts
    <3>1. Len(decks[d].slides) = 1 /\ decks[d].slides[1].id = 1 /\ DOMAIN decks[d].slides = 1 .. 1
      BY <2>2, <3>4
    <3>2. Snapshot(decks[d]) = [i \in 1 .. 1 |-> decks[d].slides[i].id]
      BY <3>1 DEF Snapshot
    <3>3. <<1>> = [i \in 1 .. 1 |-> 1]
      OBVIOUS
    <3> QED
      BY <3>1, <3>2, <3>3
  <2>4. NoTask \in Tasks /\ <<1>> \in Seq(Nat \ {0}) /\ \A i \in DOMAIN <<1>> : <<1>>[i] < decks[d].next
    BY <1>3 DEF NoTask, Tasks
  <2>5. PICK slides : slides = <<1>>
    OBVIOUS
  <2>6. /\ slides \in Seq(Nat \ {0}) /\ \A i \in DOMAIN slides : slides[i] < decks[d].next
        /\ ~stale'[c] => decks[d].exists /\ slides = Snapshot(decks[d])
        /\ object' = [object EXCEPT ![c] = [id |-> d, slides |-> slides]]
    BY <1>4, <2>1, <2>3, <2>4, <2>5
  <2>7. PICK new : new = [decks[d] EXCEPT !.placeholders = FALSE]
    OBVIOUS
  <2>8. decks' = [decks EXCEPT ![d] = new]
    BY <2>1, <2>7
  <2> QED
    BY <1>2, <1>3, <2>2, <2>4, <2>6, <2>7, <2>8, Binding
<1>5. CASE ~decks[d].exists
  <2>1. UNCHANGED <<decks, object, stale>>
    BY <1>1, <1>5 DEF RemovePlaceholders
  <2> QED
    BY <1>2, <2>1, Ended
<1> QED
  BY <1>4, <1>5

LEMMA ResetKeeps ==
  ASSUME SlidesInv, NEW c \in Client, Reset(c)
  PROVE  SlidesInv'
<1>1. object[c].id # 0 /\ object' = object /\ refused' = refused /\ refused' = FALSE /\ calls' \in 0 .. MaxCalls
  BY OneMore DEF Reset, SlidesInv
<1>2. PICK k : k = object[c].id
  OBVIOUS
<1>3. k \in DOMAIN decks /\ Remote(c) = decks[k]
  BY <1>1, <1>2, Payload
<1>4. CASE Remote(c).exists
  <2>1. PICK new : new = [decks[k] EXCEPT !.exists = FALSE]
    OBVIOUS
  <2>2. decks' = [decks EXCEPT ![k].exists = FALSE]
    BY <1>2, <1>4 DEF Reset
  <2>3. decks' = [decks EXCEPT ![k] = new]
    BY <2>1, <2>2
  <2>4. /\ stale' = [e \in Client |-> stale[e] \/ object[e].id = k]
        /\ pc' = [pc EXCEPT ![c] = "create"] /\ task' = [task EXCEPT ![c] = NoTask]
    BY <1>2, <1>4 DEF Reset, Goto, SetTask
  <2>5. NoTask \in Tasks
    BY DEF NoTask, Tasks
  <2> QED
    BY <1>1, <1>2, <1>3, <2>1, <2>3, <2>4, <2>5, Gone
<1>5. CASE ~Remote(c).exists
  <2>1. UNCHANGED <<pc, task, decks, stale>>
    BY <1>5 DEF Reset
  <2> QED
    BY <1>1, <2>1, OnlyCalls
<1> QED
  BY <1>4, <1>5

LEMMA CopySlideKeeps ==
  ASSUME SlidesInv, NEW c \in Client, NEW n, NEW position, CopySlide(c, n, position)
  PROVE  SlidesInv'
<1>1. object[c].id # 0 /\ pc[c] = "idle" /\ calls' \in 0 .. MaxCalls
  BY OneMore DEF CopySlide, OnObject
<1>2. NoTask \in Tasks
  BY DEF NoTask, Tasks
<1>3. PICK m : Copies(c, m, position, "idle", NoTask)
  BY DEF CopySlide
<1>4. "idle" \in {"idle", "delete"} /\ "idle" # "delete"
  OBVIOUS
<1> QED
  BY <1>1, <1>2, <1>3, <1>4, CopiesKeep

LEMMA DeleteSlideKeeps ==
  ASSUME SlidesInv, NEW c \in Client, NEW n, DeleteSlide(c, n)
  PROVE  SlidesInv'
<1>1. object[c].id # 0 /\ calls' \in 0 .. MaxCalls /\ Deletes(c, n, TRUE, "idle", NoTask)
  BY OneMore DEF DeleteSlide, OnObject
<1>2. ASSUME NEW explicit \in BOOLEAN, explicit, Deletes(c, n, explicit, "idle", NoTask) PROVE SlidesInv'
  BY <1>1, <1>2, DeletesKeep
<1> QED
  BY <1>1, <1>2

LEMMA MoveSlideKeeps ==
  ASSUME SlidesInv, NEW c \in Client, NEW n \in Nat, NEW position, MoveSlide(c, n, position)
  PROVE  SlidesInv'
<1>1. object[c].id # 0 /\ pc[c] = "idle" /\ calls' \in 0 .. MaxCalls
  BY OneMore DEF MoveSlide, OnObject
<1> DEFINE t == [NoTask EXCEPT !.slide = n]
<1>2. t \in Tasks /\ t.slide = n
  BY DEF NoTask, Tasks
<1>3. Copies(c, n, position, "delete", t)
  BY DEF MoveSlide
<1> HIDE DEF t
<1>4. "delete" \in {"idle", "delete"}
  OBVIOUS
<1> QED
  BY <1>1, <1>2, <1>3, <1>4, CopiesKeep

LEMMA MoveDeletesKeeps ==
  ASSUME SlidesInv, NEW c \in Client, MoveDeletes(c)
  PROVE  SlidesInv'
<1>1. pc[c] = "delete" /\ object[c].id # 0 /\ calls' = calls /\ calls' \in 0 .. MaxCalls
  BY DEF MoveDeletes, SlidesInv, ClientOK
<1>2. CASE Deletes(c, task[c].slide, FALSE, "idle", NoTask)
  <2>1. ASSUME NEW explicit \in BOOLEAN, ~explicit, NEW n, n = task[c].slide,
               Deletes(c, n, explicit, "idle", NoTask)
        PROVE  SlidesInv'
    BY <1>1, <2>1, DeletesKeep
  <2> QED
    BY <1>2, <2>1
<1>3. CASE End(c, "delete") /\ UNCHANGED <<decks, object, stale, refused>>
  BY <1>1, <1>3, Ended DEF SlidesInv
<1> QED
  BY <1>2, <1>3 DEF MoveDeletes

LEMMA InsertTextKeeps ==
  ASSUME SlidesInv, NEW c \in Client, NEW n, NEW default \in BOOLEAN, InsertText(c, n, default)
  PROVE  SlidesInv'
<1>1. object[c].id # 0 /\ calls' \in 0 .. MaxCalls
  BY OneMore DEF InsertText, OnObject
<1>2. PICK m : /\ Creates(c, m, default, None, None)
               /\ m = IF n = None THEN Len(object[c].slides) ELSE n
  BY DEF InsertText
<1>3. ~stale[c] => m \in DOMAIN object[c].slides
  <2> HAVE ~stale[c]
  <2>1. CASE n # None
    BY <1>2, <2>1 DEF InsertText
  <2>2. CASE n = None
    <3>1. /\ object[c].slides \in Seq(Nat \ {0}) /\ Len(object[c].slides) = Len(Remote(c).slides)
          /\ DeckOK(Remote(c))
      BY <1>1, Payload
    <3>2. Len(object[c].slides) >= 1
      BY <3>1 DEF DeckOK
    <3> QED
      BY <1>2, <2>2, <3>1, <3>2
  <2> QED
    BY <2>1, <2>2
<1>4. PICK e : e = [id |-> IF default THEN c ELSE None, shows |-> None, of |-> None]
  OBVIOUS
<1>5. e \in Element /\ Shown(e)
  BY <1>4 DEF Element, Shown
<1>6. PICK shows, of : shows = None /\ of = None
  OBVIOUS
<1>7. Creates(c, m, default, shows, of) /\ e = [id |-> IF default THEN c ELSE None, shows |-> shows, of |-> of]
  BY <1>2, <1>4, <1>6
<1> QED
  BY <1>1, <1>3, <1>5, <1>7, CreatesKeep

LEMMA InsertImageKeeps ==
  ASSUME SlidesInv, NEW c \in Client, NEW n \in Nat, NEW p \in Path, NEW forced \in BOOLEAN,
         InsertImage(c, n, p, forced)
  PROVE  SlidesInv'
<1>1. /\ object[c].id # 0 /\ n \in DOMAIN object[c].slides /\ calls' \in 0 .. MaxCalls
      /\ UNCHANGED <<decks, object, stale, refused>> /\ refused' = FALSE
  BY OneMore DEF InsertImage, OnObject, SlidesInv
<1> DEFINE t == [NoTask EXCEPT !.slide = n]
<1>2. t \in Tasks /\ t.slide = n
  BY DEF NoTask, Tasks
<1>3. pc' = [pc EXCEPT ![c] = "image"] /\ task' = [task EXCEPT ![c] = t]
  BY DEF InsertImage, Goto, SetTask
<1> HIDE DEF t
<1>4. "image" \in Location \ {"delete"} /\ "image" \notin {"retrieve", "clean"}
  BY DEF Location
<1> QED
  BY <1>1, <1>2, <1>3, <1>4, Stays

(* An image shows what the file on Drive has; with a result that is fresh it   *)
(* has the file that was sent, or a newer one.                                 *)
LEMMA PlaceImageKeeps ==
  ASSUME GoogleInv, NEW c \in Client, PlaceImage(c)
  PROVE  SlidesInv'
<1> DEFINE r == result[c]
           of == IF r.fresh THEN [path |-> r.path, version |-> r.version] ELSE None
           e == [id |-> None, shows |-> drive[r.id].content, of |-> of]
<1>1. /\ pc[c] = "image" /\ at[c] = "idle" /\ calls' = calls /\ calls' \in 0 .. MaxCalls /\ SlidesInv
      /\ object[c].id # 0 /\ task[c].slide \in DOMAIN object[c].slides
  BY DEF PlaceImage, GoogleInv, SlidesInv, ClientOK
<1>2. CASE r # None /\ Creates(c, task[c].slide, FALSE, drive[r.id].content, of)
  <2>1. /\ r \in Answers(Len(drive)) /\ r.version # None
        /\ drive[r.id].content \in Content
        /\ r.fresh => /\ drive[r.id].content.path = r.path
                      /\ drive[r.id].content.version >= r.version
    <3>1. DriveTypeOK /\ FreshInv /\ ImageInv
      BY DEF GoogleInv, DriveInv
    <3>2. r \in Answers(Len(drive)) /\ r.version # None
      BY <1>1, <1>2, <3>1 DEF DriveTypeOK, Answers, ImageInv
    <3>3. r.id \in DOMAIN drive
      BY <3>1, <3>2, OnDriveType DEF Answers
    <3> QED
      BY <1>2, <3>1, <3>2, <3>3, OnDriveType DEF FreshInv
  <2>2. /\ of # None => /\ r.fresh /\ of = [path |-> r.path, version |-> r.version]
                       /\ of \in Content /\ of.path = r.path /\ of.version = r.version
        /\ of \in Content \cup {None}
    <3>1. [path |-> r.path, version |-> r.version] \in Content
      BY <2>1 DEF Answers, Content
    <3> QED
      BY <3>1
  <2>3. PICK m, shows : m = task[c].slide /\ shows = drive[r.id].content
    OBVIOUS
  <2>4. PICK o : o = of
    OBVIOUS
  <2>5. PICK el : el = [id |-> None, shows |-> shows, of |-> o]
    OBVIOUS
  <2> HIDE DEF r, of
  <2>6. el \in Element /\ el.shows = shows /\ el.of = o
    BY <2>1, <2>2, <2>3, <2>4, <2>5 DEF Element
  <2>7. Shown(el)
    BY <2>1, <2>2, <2>3, <2>4, <2>6 DEF Shown
  <2>8. ~stale[c] => m \in DOMAIN object[c].slides
    BY <1>1, <2>3
  <2>9. Creates(c, m, FALSE, shows, o)
    BY <1>2, <2>3, <2>4
  <2>10. ASSUME NEW default \in BOOLEAN, ~default, Creates(c, m, default, shows, o)
         PROVE  SlidesInv'
    <3>1. el = [id |-> IF default THEN c ELSE None, shows |-> shows, of |-> o]
      BY <2>5, <2>10
    <3> QED
      BY <1>1, <2>6, <2>7, <2>8, <2>10, <3>1, CreatesKeep
  <2> QED
    BY <2>9, <2>10
<1>3. CASE End(c, "image") /\ UNCHANGED <<decks, object, stale, refused>>
  <2>1. refused' = FALSE
    BY <1>1, <1>3 DEF SlidesInv
  <2> QED
    BY <1>1, <1>3, <2>1, Ended
<1> QED
  BY <1>2, <1>3 DEF PlaceImage

LEMMA RequestFailsKeeps ==
  ASSUME SlidesInv, NEW c \in Client, RequestFails(c)
  PROVE  SlidesInv'
<1>1. /\ End(c, pc[c]) /\ UNCHANGED <<object, stale, refused, calls>> /\ refused' = FALSE /\ calls' \in 0 .. MaxCalls
      /\ pc' = [pc EXCEPT ![c] = "idle"] /\ task' = [task EXCEPT ![c] = NoTask]
  BY DEF RequestFails, End, Goto, SetTask, SlidesInv
<1>2. CASE decks' = decks
  BY <1>1, <1>2, Ended
<1>3. CASE decks' = Append(decks, NewDeck(1, TRUE)) \/ decks' = Append(decks, NewDeck(2, FALSE))
  <2>1. PICK n \in {1, 2}, placeholders \in BOOLEAN : decks' = Append(decks, NewDeck(n, placeholders))
    <3>1. 1 \in {1, 2} /\ 2 \in {1, 2} /\ TRUE \in BOOLEAN /\ FALSE \in BOOLEAN
      OBVIOUS
    <3> QED
      BY <1>3, <3>1, Zenon
  <2>2. "idle" \in {"retrieve", "clean", "idle"} /\ NoTask \in Tasks
    BY DEF NoTask, Tasks
  <2> QED
    BY <1>1, <2>1, <2>2, NewDeckComes
<1> QED
  BY <1>2, <1>3 DEF RequestFails

(* A step of a call of Slides: it asks nothing of Drive, or is the call of     *)
(* drive.get in insert_image.                                              *)
Quiet(c) ==
  /\ Elsewhere
  /\ \E to \in Location \ {"image"} : pc' = [pc EXCEPT ![c] = to]

Asking(c) == \E n \in Position, p \in Path, forced \in BOOLEAN : InsertImage(c, n, p, forced)

LEMMA RequestsAreQuiet ==
  ASSUME GoogleInv, NEW c \in Client, NEW accepted, NEW d, NEW structural,
         NEW to \in {"idle", "delete"}, NEW t, NEW expected,
         Request(c, accepted, d, structural, to, t) \/ Refusal(c, accepted, expected)
  PROVE  Quiet(c)
<1>1. faults \in 0 .. MaxFaults
  BY DEF GoogleInv, DriveInv, DriveTypeOK
<1>2. Elsewhere
  BY <1>1 DEF Request, Refusal, Elsewhere, driveVars
<1>3. pc' = [pc EXCEPT ![c] = to] \/ pc' = [pc EXCEPT ![c] = "idle"]
  BY DEF Request, Refusal, End, Goto
<1> QED
  BY <1>2, <1>3 DEF Quiet, Location

LEMMA StepsAreQuiet ==
  ASSUME GoogleInv, NEW c \in Client, SlidesStep(c)
  PROVE  Asking(c) \/ Quiet(c)
<1>1. faults \in 0 .. MaxFaults /\ faults \in Nat /\ MaxFaults \in Nat
  BY GoogleDriveAssumption DEF GoogleInv, DriveInv, DriveTypeOK
<1>2. ASSUME UNCHANGED driveVars, NEW to \in Location \ {"image"}, pc' = [pc EXCEPT ![c] = to]
      PROVE  Quiet(c)
  BY <1>1, <1>2 DEF Quiet, Elsewhere, driveVars
<1>3. {"idle", "retrieve", "create", "template", "clean", "delete"} \subseteq Location \ {"image"}
  BY DEF Location
<1>4. ASSUME NEW template \in BOOLEAN, GetDeck(c, template) PROVE Quiet(c)
  BY <1>2, <1>3, <1>4 DEF GetDeck, Goto
<1>5. CASE Retrieve(c) \/ RemovePlaceholders(c)
  BY <1>2, <1>3, <1>5 DEF Retrieve, RemovePlaceholders, End, Goto
<1>6. CASE CopyTemplate(c) \/ CreateNew(c)
  BY <1>2, <1>3, <1>6 DEF CopyTemplate, CreateNew, Goto
<1>7. CASE Reset(c)
  <2>1. pc' = [pc EXCEPT ![c] = "create"] \/ pc' = [pc EXCEPT ![c] = "idle"]
    <3>1. CASE pc[c] = "idle" /\ pc' = pc
      BY <3>1 DEF GoogleInv, SlidesInv
    <3> QED
      BY <1>7, <3>1 DEF Reset, Goto
  <2>2. UNCHANGED driveVars
    BY <1>7 DEF Reset
  <2> QED
    BY <1>2, <1>3, <2>1, <2>2
<1>8. ASSUME NEW n, NEW position, NEW to \in {"idle", "delete"}, NEW t, Copies(c, n, position, to, t)
      PROVE  Quiet(c)
  BY <1>8, RequestsAreQuiet DEF Copies
<1>9. ASSUME NEW n, NEW explicit, Deletes(c, n, explicit, "idle", NoTask)
      PROVE  Quiet(c)
  <2>1. "idle" \in {"idle", "delete"}
    OBVIOUS
  <2> QED
    BY <1>9, <2>1, RequestsAreQuiet DEF Deletes
<1>10. ASSUME NEW n, NEW default, NEW shows, NEW of, Creates(c, n, default, shows, of)
       PROVE  Quiet(c)
  <2>1. "idle" \in {"idle", "delete"}
    OBVIOUS
  <2> QED
    BY <1>10, <2>1, RequestsAreQuiet DEF Creates
<1>11. ASSUME NEW n, NEW position, CopySlide(c, n, position) PROVE Quiet(c)
  <2>1. "idle" \in {"idle", "delete"}
    OBVIOUS
  <2> QED
    BY <1>8, <1>11, <2>1 DEF CopySlide
<1>12. ASSUME NEW n, DeleteSlide(c, n) PROVE Quiet(c)
  BY <1>9, <1>12 DEF DeleteSlide
<1>13. ASSUME NEW n, NEW position, MoveSlide(c, n, position) PROVE Quiet(c)
  BY <1>8, <1>13 DEF MoveSlide
<1>14. ASSUME NEW n, NEW default, InsertText(c, n, default) PROVE Quiet(c)
  BY <1>10, <1>14 DEF InsertText
<1>15. CASE MoveDeletes(c)
  <2>1. CASE End(c, "delete") /\ UNCHANGED driveVars
    BY <1>2, <1>3, <2>1 DEF End, Goto
  <2> QED
    BY <1>9, <1>15, <2>1 DEF MoveDeletes
<1>16. CASE PlaceImage(c)
  <2>1. CASE End(c, "image") /\ UNCHANGED driveVars
    BY <1>2, <1>3, <2>1 DEF End, Goto
  <2> QED
    BY <1>10, <1>16, <2>1 DEF PlaceImage
<1>17. CASE RequestFails(c)
  <2>1. UNCHANGED <<local, drive, at, job, result, creators, edits>> /\ faults' \in 0 .. MaxFaults
    BY <1>1, <1>17 DEF RequestFails
  <2>2. pc' = [pc EXCEPT ![c] = "idle"]
    BY <1>17 DEF RequestFails, End, Goto
  <2> QED
    BY <1>3, <2>1, <2>2 DEF Quiet, Elsewhere
<1> QED
  BY <1>4, <1>5, <1>6, <1>7, <1>11, <1>12, <1>13, <1>14, <1>15, <1>16, <1>17 DEF SlidesStep, Asking

(* A program that calls Drive itself.                                      *)
Driving(c) ==
  /\ pc[c] = "idle" /\ Call(c) /\ UNCHANGED <<decks, object, pc, task, stale, refused>>
  /\ (\E p \in Path : Upload(c, p)) \/ DeleteByName(c)

LEMMA DriveCalls ==
  ASSUME NEW c \in Client, DriveCall(c)
  PROVE  Driving(c) \/ (DriveStep(c) /\ UNCHANGED slidesVars)
BY DEF DriveCall, Driving

LEMMA SlidesNext ==
  ASSUME GoogleInv, Next
  PROVE  SlidesInv'
<1>1. SlidesInv /\ Position \subseteq Nat
  BY GoogleSlidesAssumption DEF GoogleInv
<1>2. ASSUME UNCHANGED slidesVars PROVE SlidesInv'
  BY <1>1, <1>2, OnlyCalls DEF slidesVars, SlidesInv
<1>3. ASSUME NEW c \in Client, SlidesStep(c) PROVE SlidesInv'
  <2>1. ASSUME NEW template \in BOOLEAN, GetDeck(c, template) PROVE SlidesInv'
    BY <1>1, <2>1, GetDeckKeeps
  <2>2. CASE Retrieve(c) \/ CopyTemplate(c) \/ CreateNew(c) \/ RemovePlaceholders(c) \/ Reset(c)
    BY <1>1, <2>2, RetrieveKeeps, CreatingKeeps, RemovePlaceholdersKeeps, ResetKeeps
  <2>3. ASSUME NEW n, NEW position, CopySlide(c, n, position) PROVE SlidesInv'
    BY <1>1, <2>3, CopySlideKeeps
  <2>4. ASSUME NEW n \in Position, DeleteSlide(c, n) PROVE SlidesInv'
    BY <1>1, <2>4, DeleteSlideKeeps
  <2>5. ASSUME NEW n \in Position, NEW position \in Position, MoveSlide(c, n, position) PROVE SlidesInv'
    <3>1. n \in Nat
      BY <1>1
    <3> QED
      BY <1>1, <2>5, <3>1, MoveSlideKeeps
  <2>6. ASSUME NEW n, NEW default \in BOOLEAN, InsertText(c, n, default) PROVE SlidesInv'
    BY <1>1, <2>6, InsertTextKeeps
  <2>7. ASSUME NEW n \in Position, NEW p \in Path, NEW forced \in BOOLEAN, InsertImage(c, n, p, forced)
        PROVE  SlidesInv'
    <3>1. n \in Nat
      BY <1>1
    <3> QED
      BY <1>1, <2>7, <3>1, InsertImageKeeps
  <2>8. CASE MoveDeletes(c) \/ PlaceImage(c) \/ RequestFails(c)
    BY <1>1, <2>8, MoveDeletesKeeps, PlaceImageKeeps, RequestFailsKeeps
  <2> QED
    BY <1>3, <2>1, <2>2, <2>3, <2>4, <2>5, <2>6, <2>7, <2>8 DEF SlidesStep
<1>4. ASSUME NEW c \in Client, DriveCall(c) PROVE SlidesInv'
  <2>1. CASE Driving(c)
    <3>1. calls' \in 0 .. MaxCalls
      BY <1>1, <2>1, OneMore DEF Driving
    <3> QED
      BY <1>1, <2>1, <3>1, OnlyCalls DEF Driving
  <2> QED
    BY <1>2, <1>4, <2>1, DriveCalls
<1> QED
  BY <1>2, <1>3, <1>4 DEF Next

LEMMA DriveKeeps ==
  ASSUME GoogleInv, Next
  PROVE  DriveInv'
<1>1. DriveInv
  BY DEF GoogleInv
<1>2. ASSUME NEW c \in Client, DriveAction(c) PROVE DriveInv'
  BY <1>1, <1>2, DriveNext
<1>3. ASSUME NEW c \in Client, SlidesStep(c) PROVE DriveInv'
  <2>1. CASE Quiet(c)
    BY <1>1, <2>1, DriveNext DEF Quiet
  <2>2. CASE Asking(c)
    <3>1. DriveAction(c)
      BY <2>2 DEF Asking, InsertImage, DriveAction
    <3> QED
      BY <1>2, <3>1
  <2> QED
    BY <1>3, <2>1, <2>2, StepsAreQuiet
<1>4. ASSUME NEW c \in Client, DriveCall(c) PROVE DriveInv'
  <2>1. DriveAction(c)
    BY <1>4, DriveCalls DEF Driving, DriveAction
  <2> QED
    BY <1>2, <2>1
<1>5. ASSUME NEW p \in Path, EditLocal(p) PROVE DriveInv'
  BY <1>1, <1>5, DriveNext
<1> QED
  BY <1>3, <1>4, <1>5 DEF Next

LEMMA ImagesNext ==
  ASSUME GoogleInv, Next
  PROVE  ImageInv'
<1>1. /\ DriveTypeOK /\ ImageInv /\ pc \in [Client -> Location]
      /\ \A d \in Client : at[d] # "idle" => job[d] # None
  BY DEF GoogleInv, DriveInv, SlidesInv, DriveTypeOK
\* A program that the step is not of.
<1>2. ASSUME NEW d \in Client, Kept(d), pc'[d] = pc[d]
      PROVE  pc'[d] = "image" => IF at'[d] = "idle" THEN result'[d] # None => result'[d].version # None
                                 ELSE job'[d].version # None
  BY <1>1, <1>2 DEF ImageInv, Kept
<1>3. ASSUME NEW c \in Client, SlidesStep(c) PROVE ImageInv'
  <2>1. CASE Quiet(c)
    <3>1. \A d \in Client : Kept(d)
      BY <2>1 DEF Quiet, Elsewhere, Kept
    <3>2. pc'[c] # "image" /\ \A d \in Client \ {c} : pc'[d] = pc[d]
      BY <1>1, <2>1 DEF Quiet
    <3> QED
      BY <1>2, <3>1, <3>2 DEF ImageInv
  <2>2. ASSUME NEW n \in Position, NEW p \in Path, NEW forced \in BOOLEAN, InsertImage(c, n, p, forced)
        PROVE  ImageInv'
    <3>1. Get(c, p, forced) /\ local[p] # None /\ \A d \in Client \ {c} : pc'[d] = pc[d]
      BY <1>1, <2>2 DEF InsertImage, Goto
    <3>2. DriveAction(c)
      BY <3>1 DEF DriveAction
    <3>3. \A d \in Client \ {c} : Kept(d)
      BY <1>1, <3>2, VersionsKeep
    <3>4. IF at'[c] = "idle" THEN result'[c] # None => result'[c].version # None
          ELSE job'[c].version # None
      BY <1>1, <3>1, GetAnswers
    <3> QED
      BY <1>2, <3>1, <3>3, <3>4 DEF ImageInv
  <2> QED
    BY <1>3, <2>1, <2>2, StepsAreQuiet DEF Asking
<1>4. ASSUME NEW c \in Client, DriveCall(c) PROVE ImageInv'
  <2>1. DriveAction(c) /\ pc' = pc
    BY <1>4, DriveCalls DEF Driving, DriveAction, slidesVars
  <2>2. \A d \in Client \ {c} : Kept(d)
    BY <1>1, <2>1, VersionsKeep
  <2>3. CASE pc[c] = "idle"
    BY <1>2, <2>1, <2>2, <2>3 DEF ImageInv
  <2>4. CASE DriveStep(c)
    <3>1. /\ at[c] # "idle" /\ job[c] # None
          /\ IF at'[c] = "idle" THEN result'[c] # None => result'[c].version = job[c].version
             ELSE job'[c] # None /\ job'[c].version = job[c].version
      BY <1>1, <2>4, StepAnswers
    <3>2. pc[c] = "image" => IF at'[c] = "idle" THEN result'[c] # None => result'[c].version # None
                             ELSE job'[c].version # None
      BY <1>1, <3>1 DEF ImageInv
    <3> QED
      BY <1>2, <2>1, <2>2, <3>2 DEF ImageInv
  <2> QED
    BY <1>4, <2>3, <2>4, DriveCalls DEF Driving
<1>5. ASSUME NEW p \in Path, EditLocal(p), UNCHANGED slidesVars PROVE ImageInv'
  BY <1>1, <1>5 DEF EditLocal, slidesVars, ImageInv
<1> QED
  BY <1>3, <1>4, <1>5 DEF Next

-----------------------------------------------------------------------------
(* What follows from the invariant.                                        *)

LEMMA GoogleBegins == PartsInit => GoogleInv
<1> SUFFICES ASSUME PartsInit PROVE GoogleInv
  OBVIOUS
<1>1. DriveInit /\ SlidesInit
  BY DEF PartsInit, Init
<1>2. ImageInv
  BY <1>1 DEF SlidesInit, ImageInv
<1> QED
  BY <1>1, <1>2, DriveBegins, SlidesBegins DEF GoogleInv

LEMMA GoogleNext == GoogleInv /\ [PartsNext]_<<part, vars, sheetsVars>> => GoogleInv'
<1> SUFFICES ASSUME GoogleInv, [PartsNext]_<<part, vars, sheetsVars>> PROVE GoogleInv'
  OBVIOUS
<1>1. CASE Next
  BY <1>1, DriveKeeps, SlidesNext, ImagesNext DEF GoogleInv
<1>2. CASE UNCHANGED vars
  <2>1. DriveInv'
    <3>1. Elsewhere
      BY <1>2 DEF Elsewhere, vars, driveVars, GoogleInv, DriveInv, DriveTypeOK
    <3> QED
      BY <3>1, DriveNext DEF GoogleInv
  <2>2. SlidesInv'
    BY <1>2, OnlyCalls DEF vars, slidesVars, GoogleInv, SlidesInv
  <2>3. ImageInv'
    BY <1>2 DEF vars, driveVars, slidesVars, GoogleInv, ImageInv
  <2> QED
    BY <2>1, <2>2, <2>3 DEF GoogleInv
<1> QED
  BY <1>1, <1>2 DEF PartsNext

LEMMA WordsKept == GoogleInv => SlidesAreAsMeant
<1> SUFFICES ASSUME GoogleInv PROVE SlidesAreAsMeant
  OBVIOUS
<1>1. SlidesInv /\ DriveTypeOK
  BY DEF GoogleInv, DriveInv
<1>2. TypeOK
  <2>1. \A c \in Client : pc[c] \in {"delete", "image"} => object[c].id # 0
    BY <1>1 DEF SlidesInv, ClientOK
  <2> QED
    BY <1>1, <2>1 DEF TypeOK, SlidesInv, Object, Tasks
<1>3. NothingLost
  <2> SUFFICES ASSUME NEW d \in DOMAIN decks, decks[d].exists,
                      NEW origin \in (1 .. decks[d].first) \ decks[d].deleted
               PROVE  \E s \in ToSet(decks[d].slides) : s.origin = origin
    BY DEF NothingLost
  <2>1. PICK i \in DOMAIN decks[d].slides : decks[d].slides[i].origin = origin
    BY <1>1 DEF SlidesInv, KeptBut
  <2>2. decks[d].slides[i] \in ToSet(decks[d].slides)
    BY DEF ToSet
  <2> QED
    BY <2>1, <2>2
<1> QED
  BY <1>1, <1>2, <1>3 DEF SlidesAreAsMeant, ChecksSuffice, SlidesInv

LEMMA FilesKept == GoogleInv => FilesAreTheirs
<1> SUFFICES ASSUME GoogleInv PROVE FilesAreTheirs
  OBVIOUS
<1>1. OneFileOfTheName
  BY OneFile DEF GoogleInv
<1>2. ImagesShowTheirFile
  <2> SUFFICES ASSUME NEW d \in DOMAIN decks, NEW s \in ToSet(decks[d].slides), NEW e \in ToSet(s.elements)
               PROVE  Shown(e)
    BY DEF ImagesShowTheirFile, Shown
  <2>1. PICK i \in DOMAIN decks[d].slides : s = decks[d].slides[i]
    BY DEF ToSet
  <2>2. SlideOK(s)
    BY <2>1 DEF GoogleInv, SlidesInv, DeckOK
  <2>3. PICK j \in DOMAIN s.elements : e = s.elements[j]
    BY DEF ToSet
  <2> QED
    BY <2>2, <2>3 DEF SlideOK
<1> QED
  BY <1>1, <1>2 DEF FilesAreTheirs

(* However many programs edit however many presentations, with requests that   *)
(* fail, are lost or go by a payload that is out of date: no move loses a      *)
(* slide, and as long as no slide came or went since the payload was read the  *)
(* service accepts what the checks let through (slides, move_slide and         *)
(* update).                                                                *)
THEOREM SlidesKeepTheirWord == PartsSpec => []SlidesAreAsMeant
<1>1. PartsInit => GoogleInv
  BY GoogleBegins
<1>2. GoogleInv /\ [PartsNext]_<<part, vars, sheetsVars>> => GoogleInv'
  BY GoogleNext
<1>3. GoogleInv => SlidesAreAsMeant
  BY WordsKept
<1> QED
  BY <1>1, <1>2, <1>3, PTL DEF PartsSpec

(* Uploads leave one file of a name on Drive, unless two programs found none   *)
(* and were creating it together; and an image in any slide shows the file it  *)
(* was made from, as it was at the call or later, if no other program came in  *)
(* between (google.py, Drive.upload and get; slides, insert_image).        *)
THEOREM FilesStayTheirs == PartsSpec => []FilesAreTheirs
<1>1. PartsInit => GoogleInv
  BY GoogleBegins
<1>2. GoogleInv /\ [PartsNext]_<<part, vars, sheetsVars>> => GoogleInv'
  BY GoogleNext
<1>3. GoogleInv => FilesAreTheirs
  BY FilesKept
<1> QED
  BY <1>1, <1>2, <1>3, PTL DEF PartsSpec
-----------------------------------------------------------------------------
(* GoogleSheets: calls reach the tabs they are meant for, the checks of    *)
(* Sheets suffice, a payload is what it is taken for, and a name has one   *)
(* spreadsheet.                                                            *)

\* The ids and titles of a spreadsheet's tabs are each given once, and not again;
\* what was meant for a tab that nobody came in the way of has reached it.
TabsOK(f) ==
  /\ \A i, j \in DOMAIN f.tabs : i # j => f.tabs[i].id # f.tabs[j].id /\ f.tabs[i].title # f.tabs[j].title
  /\ \A i \in DOMAIN f.tabs :
       /\ f.tabs[i].id < f.next
       /\ f.tabs[i].title \in Nat => f.tabs[i].title < f.next
       /\ f.tabs[i].deed # None /\ f.tabs[i].deed.undisturbed => f.tabs[i].deed.reached = f.tabs[i].deed.meant

\* A payload o that shows the spreadsheet f as it is.
Shows(o, f) == f.exists /\ o.tabs = Sheets!Snapshot(f)

\* A Sheet object s that nobody came in the way of is of the tab at its index.
SheetOK(fs, o, s) ==
  s # None /\ s.current =>
    /\ o.id # 0 /\ Shows(o, fs[o.id])
    /\ s.index + 1 \in DOMAIN o.tabs
    /\ o.tabs[s.index + 1] = [id |-> s.id, title |-> s.title]

\* The tab that is made for a frame is at the position that was asked for.
Placed(f, t) ==
  LET n == IF t.position = None THEN Len(f.tabs) ELSE t.position IN
  f.exists /\ n \in DOMAIN f.tabs /\ f.tabs[n].id = t.id

\* A copy can have the place and the title that it is to have.
Arrangeable(f, t) ==
  /\ f.exists
  /\ t.id \in Sheets!Ids(f)
  /\ t.title \notin Sheets!Titles(f)
  /\ t.position # None => t.position - 1 <= Len(f.tabs)

\* A program with its object o, its Sheet s and the local variables t of its call,
\* at l: what it knows of the spreadsheets fs, if no other has changed its own since.
ProgramOK(fs, o, s, l, t, changed, crossing) ==
  /\ o.id # 1
  /\ o.id = 0 => o.tabs = <<>>
  /\ l \in {"arrange", "refresh", "write"} => o.id # 0
  /\ l = "retrieve" => t.id \in DOMAIN fs \ {1}
  /\ l \in {"idle", "retrieve", "template", "arrange"} => t.then = "return"
  /\ l = "write" => t.then = "frame"
  /\ l \in {"idle", "retrieve", "template", "write"} /\ o.id # 0 /\ ~changed => Shows(o, fs[o.id])
  /\ l = "refresh" /\ ~changed => fs[o.id].exists
  /\ l = "arrange" /\ ~changed => Arrangeable(fs[o.id], t)
  /\ t.then = "frame" => l \in {"refresh", "write"}
  /\ t.then = "frame" /\ ~crossing => Placed(fs[o.id], t)
  /\ l = "write" /\ ~crossing => Shows(o, fs[o.id])
  /\ t.then = "rebind" => l = "refresh" /\ s # None
  /\ t.then = "reset" => l = "create"
  /\ SheetOK(fs, o, s)

\* Who creates the spreadsheet has found none and is the only one.
OneSheetInv ==
  ~raced =>
    /\ \A f, g \in Sheets!Namesakes : f = g
    /\ \A c, d \in Client : Sheets!Creating(c) /\ Sheets!Creating(d) => c = d
    /\ \A c \in Client : Sheets!Creating(c) => Sheets!Namesakes = {}

Objects(n) == [id : 0 .. n, tabs : Seq(Sheets!CachedTab)]

SheetCall == [title : Title \cup {None}, position : Nat \cup {None}, id : Nat,
              then : {"return", "rebind", "frame", "framed", "reset"}]

SheetsTypes ==
  /\ files \in Seq(Sheets!File)
  /\ sheets \in [Client -> Objects(Len(files))]
  /\ sheet \in [Client -> Sheets!SheetObject \cup {None}]
  /\ location \in [Client -> Sheets!Location]
  /\ call \in [Client -> SheetCall]
  /\ disturbed \in [Client -> BOOLEAN]
  /\ crossed \in [Client -> BOOLEAN]
  /\ raced \in BOOLEAN
  /\ called \in 0 .. MaxCalled
  /\ failed \in 0 .. MaxFailed

SheetsKnown ==
  /\ SheetsTypes
  /\ 1 \in DOMAIN files
  /\ \A k \in DOMAIN files : TabsOK(files[k])
  /\ \A c \in Client :
       ProgramOK(files, sheets[c], sheet[c], location[c], call[c], disturbed[c], crossed[c])
  /\ rejected = FALSE

SheetsInv == SheetsKnown /\ OneSheetInv

-----------------------------------------------------------------------------
(* What the constants are. *)
LEMMA SheetsConstants ==
  /\ None \notin Title /\ None \notin Int /\ None \notin Sheets!SheetObject /\ None \notin Sheets!Deed
  /\ Title \cap Int = {}
  /\ Column \subseteq Nat
  /\ MaxTabs \in Nat /\ MaxCalled \in Nat /\ MaxFailed \in Nat
BY SheetsAssumption DEF Sheets!GoogleSheetsAssumption

(* The parts of a spreadsheet and of its payload. *)
LEMMA FileParts ==
  ASSUME NEW f \in Sheets!File
  PROVE  /\ f.exists \in BOOLEAN /\ f.tabs \in Seq(Sheets!Tab) /\ f.next \in Nat \ {0}
         /\ Len(f.tabs) \in Nat /\ DOMAIN f.tabs = 1 .. Len(f.tabs)
         /\ \A i \in DOMAIN f.tabs :
              /\ f.tabs[i] \in Sheets!Tab
              /\ f.tabs[i].id \in Nat \ {0} /\ f.tabs[i].title \in Title \cup Nat
              /\ f.tabs[i].deed \in Sheets!Deed \cup {None}
<1>1. /\ f.exists \in BOOLEAN /\ f.tabs \in Seq(Sheets!Tab) /\ f.next \in Nat \ {0}
  BY DEF Sheets!File
<1>2. /\ Len(f.tabs) \in Nat /\ DOMAIN f.tabs = 1 .. Len(f.tabs)
      /\ \A i \in DOMAIN f.tabs : f.tabs[i] \in Sheets!Tab
  BY <1>1
<1> QED
  BY <1>1, <1>2 DEF Sheets!Tab

LEMMA PayloadParts ==
  ASSUME NEW f \in Sheets!File, NEW p, p = Sheets!Snapshot(f)
  PROVE  /\ p \in Seq(Sheets!CachedTab) /\ Len(p) = Len(f.tabs) /\ DOMAIN p = DOMAIN f.tabs
         /\ \A i \in DOMAIN f.tabs :
              /\ p[i] = [id |-> f.tabs[i].id, title |-> f.tabs[i].title]
              /\ p[i].id = f.tabs[i].id /\ p[i].title = f.tabs[i].title
<1>1. p = [i \in 1 .. Len(f.tabs) |-> [id |-> f.tabs[i].id, title |-> f.tabs[i].title]]
  BY FileParts DEF Sheets!Snapshot
<1>2. \A i \in 1 .. Len(f.tabs) : [id |-> f.tabs[i].id, title |-> f.tabs[i].title] \in Sheets!CachedTab
  BY FileParts DEF Sheets!CachedTab
<1>3. Len(f.tabs) \in Nat /\ DOMAIN f.tabs = 1 .. Len(f.tabs)
  BY FileParts
<1>4. p \in Seq(Sheets!CachedTab) /\ Len(p) = Len(f.tabs)
  BY <1>1, <1>2, <1>3
<1> QED
  BY <1>1, <1>3, <1>4

(* Spreadsheets with one payload have the same ids and titles. *)
LEMMA SamePayload ==
  ASSUME NEW f \in Sheets!File, NEW g \in Sheets!File, Sheets!Snapshot(f) = Sheets!Snapshot(g)
  PROVE  /\ Len(f.tabs) = Len(g.tabs) /\ DOMAIN f.tabs = DOMAIN g.tabs
         /\ \A i \in DOMAIN f.tabs : f.tabs[i].id = g.tabs[i].id /\ f.tabs[i].title = g.tabs[i].title
         /\ Sheets!Ids(f) = Sheets!Ids(g) /\ Sheets!Titles(f) = Sheets!Titles(g)
<1> PICK p : p = Sheets!Snapshot(f)
  OBVIOUS
<1>1. /\ Len(p) = Len(f.tabs) /\ DOMAIN p = DOMAIN f.tabs
      /\ \A i \in DOMAIN f.tabs : p[i].id = f.tabs[i].id /\ p[i].title = f.tabs[i].title
  BY PayloadParts
<1>2. /\ Len(p) = Len(g.tabs) /\ DOMAIN p = DOMAIN g.tabs
      /\ \A i \in DOMAIN g.tabs : p[i].id = g.tabs[i].id /\ p[i].title = g.tabs[i].title
  BY PayloadParts
<1>3. \A i \in DOMAIN f.tabs : f.tabs[i].id = g.tabs[i].id /\ f.tabs[i].title = g.tabs[i].title
  BY <1>1, <1>2
<1> QED
  BY <1>1, <1>2, <1>3 DEF Sheets!Ids, Sheets!Titles

-----------------------------------------------------------------------------
(* What a program knows, while others do something.                        *)

(* A request to a spreadsheet that leaves ids and titles as they are. *)
LEMMA WritesLeave ==
  ASSUME NEW fs \in Seq(Sheets!File), NEW k \in DOMAIN fs, NEW f \in Sheets!File,
         Sheets!Snapshot(f) = Sheets!Snapshot(fs[k]), f.exists = fs[k].exists,
         NEW gs, gs = [fs EXCEPT ![k] = f],
         NEW o \in Objects(Len(fs)), NEW s, NEW l, NEW t, NEW changed, NEW crossing,
         ProgramOK(fs, o, s, l, t, changed, crossing)
  PROVE  ProgramOK(gs, o, s, l, t, changed, crossing)
<1>1. /\ DOMAIN gs = DOMAIN fs
      /\ gs[k] = f /\ \A j \in DOMAIN fs : j # k => gs[j] = fs[j]
  OBVIOUS
<1>2. o.id \in Nat /\ o.id <= Len(fs) /\ Len(fs) \in Nat /\ DOMAIN fs = 1 .. Len(fs)
  BY DEF Objects
<1>3. CASE o.id # k
  <2>1. o.id # 0 => gs[o.id] = fs[o.id]
    BY <1>1, <1>2, <1>3
  <2>2. t.then = "frame" => o.id # 0
    BY DEF ProgramOK
  <2> QED
    BY <1>1, <2>1, <2>2 DEF ProgramOK, SheetOK
<1>4. CASE o.id = k
  <2>1. fs[k] \in Sheets!File
    OBVIOUS
  <2>2. /\ Len(f.tabs) = Len(fs[k].tabs) /\ DOMAIN f.tabs = DOMAIN fs[k].tabs
        /\ \A i \in DOMAIN f.tabs : f.tabs[i].id = fs[k].tabs[i].id
        /\ Sheets!Ids(f) = Sheets!Ids(fs[k]) /\ Sheets!Titles(f) = Sheets!Titles(fs[k])
    BY <2>1, SamePayload
  <2>3. Shows(o, fs[k]) => Shows(o, f)
    BY DEF Shows
  <2>4. Arrangeable(fs[k], t) => Arrangeable(f, t)
    BY <2>2 DEF Arrangeable
  <2>5. Placed(fs[k], t) => Placed(f, t)
    BY <2>2 DEF Placed
  <2> QED
    BY <1>1, <1>4, <2>3, <2>4, <2>5 DEF ProgramOK, SheetOK
<1> QED
  BY <1>3, <1>4

(* A new spreadsheet. *)
LEMMA NewSheets ==
  ASSUME NEW fs \in Seq(Sheets!File), NEW f \in Sheets!File, NEW gs, gs = Append(fs, f),
         NEW o \in Objects(Len(fs)), NEW s, NEW l, NEW t, NEW changed, NEW crossing,
         ProgramOK(fs, o, s, l, t, changed, crossing)
  PROVE  ProgramOK(gs, o, s, l, t, changed, crossing) /\ o \in Objects(Len(gs))
<1>1. /\ Len(gs) = Len(fs) + 1 /\ Len(fs) \in Nat /\ DOMAIN gs = 1 .. Len(fs) + 1 /\ DOMAIN fs = 1 .. Len(fs)
      /\ \A j \in DOMAIN fs : gs[j] = fs[j]
  OBVIOUS
<1>2. o.id \in Nat /\ o.id <= Len(fs)
  BY DEF Objects
<1>3. o \in Objects(Len(gs))
  BY <1>1 DEF Objects
<1>4. o.id # 0 => gs[o.id] = fs[o.id]
  BY <1>1, <1>2
<1>5. \A j \in DOMAIN fs \ {1} : j \in DOMAIN gs \ {1}
  BY <1>1
<1>6. t.then = "frame" => o.id # 0
  BY DEF ProgramOK
<1> QED
  BY <1>3, <1>4, <1>5, <1>6 DEF ProgramOK, SheetOK

\* A Sheet object whose spreadsheet was changed.
Aged(s) == IF s = None THEN None ELSE [s EXCEPT !.current = FALSE]

(* A change of a spreadsheet by another program: of another spreadsheet, or of  *)
(* the one that is shared.                                                      *)
LEMMA OthersElsewhere ==
  ASSUME NEW fs \in Seq(Sheets!File), NEW k \in DOMAIN fs, NEW f,
         NEW gs, gs = [fs EXCEPT ![k] = f],
         NEW o \in Objects(Len(fs)), o.id # k, NEW s, NEW l, NEW t, NEW changed, NEW crossing,
         ProgramOK(fs, o, s, l, t, changed, crossing)
  PROVE  ProgramOK(gs, o, s, l, t, changed, crossing)
<1>1. DOMAIN gs = DOMAIN fs /\ \A j \in DOMAIN fs : j # k => gs[j] = fs[j]
  OBVIOUS
<1>2. o.id \in Nat /\ o.id <= Len(fs) /\ Len(fs) \in Nat /\ DOMAIN fs = 1 .. Len(fs)
  BY DEF Objects
<1>3. o.id # 0 => gs[o.id] = fs[o.id]
  BY <1>1, <1>2
<1>4. t.then = "frame" => o.id # 0
  BY DEF ProgramOK
<1> QED
  BY <1>1, <1>3, <1>4 DEF ProgramOK, SheetOK

LEMMA OthersChange ==
  ASSUME NEW fs, NEW gs, DOMAIN gs = DOMAIN fs,
         NEW o, NEW s \in Sheets!SheetObject \cup {None}, NEW l, NEW t, NEW changed, NEW crossing,
         ProgramOK(fs, o, s, l, t, changed, crossing),
         NEW late \in BOOLEAN, late, NEW across \in BOOLEAN, t.then = "frame" => across
  PROVE  ProgramOK(gs, o, Aged(s), l, t, late, across)
<1>2. SheetOK(gs, o, Aged(s)) /\ (s # None => Aged(s) # None)
  <2>1. CASE s = None
    BY <2>1 DEF SheetOK, Aged
  <2>2. CASE s \in Sheets!SheetObject
    <3>1. PICK r : r = [s EXCEPT !.current = FALSE]
      OBVIOUS
    <3>2. r \in Sheets!SheetObject /\ r.current = FALSE
      BY <2>2, <3>1 DEF Sheets!SheetObject
    <3>3. Aged(s) = r
      BY <2>2, <3>1, SheetsConstants DEF Aged
    <3> QED
      BY <3>2, <3>3, SheetsConstants DEF SheetOK
  <2> QED
    BY <2>1, <2>2
<1>3. ~(t.then = "frame" /\ ~across)
  OBVIOUS
<1>4. l = "write" => t.then = "frame"
  BY DEF ProgramOK
<1> QED
  BY <1>2, <1>3, <1>4 DEF ProgramOK

-----------------------------------------------------------------------------
(* What the service's requests make of the tabs of a spreadsheet.          *)

\* r is q with tab at n, or without the one there.
With(r, q, n, tab) ==
  /\ r \in Seq(Sheets!Tab) /\ Len(r) = Len(q) + 1 /\ r[n] = tab
  /\ \A i \in 1 .. Len(q) : i < n => r[i] = q[i]
  /\ \A i \in 1 .. Len(q) : i >= n => r[i + 1] = q[i]

Without(r, q, p) ==
  /\ r \in Seq(Sheets!Tab) /\ Len(r) = Len(q) - 1
  /\ \A j \in 1 .. Len(q) - 1 : j < p => r[j] = q[j]
  /\ \A j \in 1 .. Len(q) - 1 : j >= p => r[j] = q[j + 1]

LEMMA InsertedTab ==
  ASSUME NEW q \in Seq(Sheets!Tab), NEW n \in 1 .. Len(q) + 1, NEW tab \in Sheets!Tab
  PROVE  With(Sheets!InsertAt(q, n, tab), q, n, tab)
<1>1. Sheets!InsertAt(q, n, tab) = InsertAt(q, n, tab)
  BY DEF InsertAt, Sheets!InsertAt
<1>2. PICK S, r : S = Sheets!Tab /\ r = InsertAt(q, n, tab)
  OBVIOUS
<1>3. q \in Seq(S) /\ tab \in S
  BY <1>2
<1>4. /\ r \in Seq(S) /\ Len(r) = Len(q) + 1 /\ r[n] = tab
      /\ \A i \in 1 .. Len(q) : i < n => r[i] = q[i]
      /\ \A i \in 1 .. Len(q) : i >= n => r[i + 1] = q[i]
  BY <1>2, <1>3, InsertedAt
<1>5. r \in Seq(Sheets!Tab)
  BY <1>2, <1>4
<1>6. With(r, q, n, tab)
  BY <1>4, <1>5 DEF With
<1> QED
  BY <1>1, <1>2, <1>6

LEMMA RemovedTab ==
  ASSUME NEW q \in Seq(Sheets!Tab), NEW p \in 1 .. Len(q)
  PROVE  Without(Sheets!RemoveAt(q, p), q, p)
<1>1. Sheets!RemoveAt(q, p) = RemoveAt(q, p)
  BY DEF RemoveAt, Sheets!RemoveAt
<1>2. PICK S, r : S = Sheets!Tab /\ r = RemoveAt(q, p)
  OBVIOUS
<1>3. q \in Seq(S)
  BY <1>2
<1>4. /\ r \in Seq(S) /\ Len(r) = Len(q) - 1
      /\ \A j \in 1 .. Len(q) - 1 : j < p => r[j] = q[j]
      /\ \A j \in 1 .. Len(q) - 1 : j >= p => r[j] = q[j + 1]
  BY <1>2, <1>3, RemovedAt
<1>5. r \in Seq(Sheets!Tab)
  BY <1>2, <1>4
<1>6. Without(r, q, p)
  BY <1>4, <1>5 DEF Without
<1> QED
  BY <1>1, <1>2, <1>6

\* The spreadsheet g is f with tab at n.
Gained(g, f, n, tab) ==
  /\ g \in Sheets!File /\ TabsOK(g) /\ g.exists = f.exists
  /\ Len(g.tabs) = Len(f.tabs) + 1 /\ n \in DOMAIN g.tabs /\ g.tabs[n] = tab
  /\ Sheets!Ids(g) = Sheets!Ids(f) \cup {tab.id}
  /\ Sheets!Titles(g) = Sheets!Titles(f) \cup {tab.title}

(* A tab with an id and a title of its own comes in at n. *)
LEMMA TabAdded ==
  ASSUME NEW f \in Sheets!File, TabsOK(f), NEW n \in 1 .. Len(f.tabs) + 1, NEW tab \in Sheets!Tab,
         tab.id \notin Sheets!Ids(f), tab.title \notin Sheets!Titles(f),
         NEW m \in Nat \ {0}, m >= f.next, tab.id < m, tab.title \in Nat => tab.title < m,
         tab.deed # None /\ tab.deed.undisturbed => tab.deed.reached = tab.deed.meant,
         NEW r, r = Sheets!InsertAt(f.tabs, n, tab), NEW g, g = [f EXCEPT !.tabs = r, !.next = m]
  PROVE  Gained(g, f, n, tab)
<1> PICK q : q = f.tabs
  OBVIOUS
<1> DEFINE from(j) == IF j < n THEN j ELSE j - 1
           to(i) == IF i < n THEN i ELSE i + 1
<1>1. /\ q \in Seq(Sheets!Tab) /\ Len(q) \in Nat /\ DOMAIN q = 1 .. Len(q)
      /\ n \in Nat /\ n \in 1 .. Len(q) + 1 /\ f.exists \in BOOLEAN /\ f.next \in Nat
  BY FileParts
<1>2. /\ r \in Seq(Sheets!Tab) /\ Len(r) = Len(q) + 1 /\ r[n] = tab
      /\ \A i \in 1 .. Len(q) : i < n => r[i] = q[i]
      /\ \A i \in 1 .. Len(q) : i >= n => r[i + 1] = q[i]
  <2>1. With(r, q, n, tab)
    BY <1>1, InsertedTab
  <2> QED
    BY <2>1 DEF With
<1>3. /\ g.tabs = r /\ g.next = m /\ g.exists = f.exists /\ g \in Sheets!File
      /\ DOMAIN r = 1 .. Len(q) + 1
  <2>1. g.tabs = r /\ g.next = m /\ g.exists = f.exists /\ g \in Sheets!File
    BY <1>2 DEF Sheets!File
  <2>2. DOMAIN r = 1 .. Len(q) + 1
    BY <1>2
  <2> QED
    BY <2>1, <2>2
<1>4. \A j \in 1 .. Len(q) + 1 : j # n => from(j) \in 1 .. Len(q) /\ r[j] = q[from(j)]
  <2> SUFFICES ASSUME NEW j \in 1 .. Len(q) + 1, j # n
               PROVE  from(j) \in 1 .. Len(q) /\ r[j] = q[from(j)]
    OBVIOUS
  <2>1. CASE j < n
    <3>1. j \in 1 .. Len(q)
      BY <1>1, <2>1
    <3> QED
      BY <1>2, <2>1, <3>1
  <2>2. CASE j > n
    <3>1. j - 1 \in 1 .. Len(q) /\ j - 1 >= n /\ (j - 1) + 1 = j /\ ~(j < n)
      BY <1>1, <2>2
    <3> QED
      BY <1>2, <3>1
  <2> QED
    BY <1>1, <2>1, <2>2
<1>5. \A i, j \in 1 .. Len(q) + 1 : i # n /\ j # n /\ i # j => from(i) # from(j)
  BY <1>1
<1>6. \A i \in 1 .. Len(q) : to(i) \in 1 .. Len(q) + 1 /\ r[to(i)] = q[i]
  BY <1>1, <1>2
<1>7. \A i \in 1 .. Len(q) : q[i].id \in Sheets!Ids(f) /\ q[i].title \in Sheets!Titles(f)
  BY <1>1 DEF Sheets!Ids, Sheets!Titles
<1>8. /\ \A i, j \in 1 .. Len(q) : i # j => q[i].id # q[j].id /\ q[i].title # q[j].title
      /\ \A i \in 1 .. Len(q) :
           /\ q[i].id \in Nat /\ q[i].id < f.next
           /\ q[i].title \in Nat => q[i].title < f.next
           /\ q[i].deed # None /\ q[i].deed.undisturbed => q[i].deed.reached = q[i].deed.meant
  BY <1>1, FileParts DEF TabsOK
<1> HIDE DEF from, to
<1>9. TabsOK(g)
  <2>1. ASSUME NEW i \in 1 .. Len(q) + 1, NEW j \in 1 .. Len(q) + 1, i # j
        PROVE  r[i].id # r[j].id /\ r[i].title # r[j].title
    <3>1. CASE i # n /\ j # n
      <4>1. from(i) \in 1 .. Len(q) /\ from(j) \in 1 .. Len(q) /\ r[i] = q[from(i)] /\ r[j] = q[from(j)]
        BY <1>4, <3>1
      <4>2. from(i) # from(j)
        BY <1>5, <2>1, <3>1
      <4> QED
        BY <1>8, <4>1, <4>2
    <3>2. CASE i = n
      <4>1. from(j) \in 1 .. Len(q) /\ r[j] = q[from(j)]
        BY <1>4, <2>1, <3>2
      <4>2. q[from(j)].id # tab.id /\ q[from(j)].title # tab.title
        BY <1>7, <4>1
      <4> QED
        BY <1>2, <3>2, <4>1, <4>2
    <3>3. CASE j = n
      <4>1. from(i) \in 1 .. Len(q) /\ r[i] = q[from(i)]
        BY <1>4, <2>1, <3>3
      <4>2. q[from(i)].id # tab.id /\ q[from(i)].title # tab.title
        BY <1>7, <4>1
      <4> QED
        BY <1>2, <3>3, <4>1, <4>2
    <3> QED
      BY <3>1, <3>2, <3>3
  <2>2. ASSUME NEW i \in 1 .. Len(q) + 1
        PROVE  /\ r[i].id < m
               /\ r[i].title \in Nat => r[i].title < m
               /\ r[i].deed # None /\ r[i].deed.undisturbed => r[i].deed.reached = r[i].deed.meant
    <3>1. CASE i = n
      BY <1>2, <3>1
    <3>2. CASE i # n
      <4>1. from(i) \in 1 .. Len(q) /\ r[i] = q[from(i)]
        BY <1>4, <3>2
      <4>2. \A x \in Nat : x < f.next => x < m
        BY <1>1
      <4> QED
        BY <1>8, <4>1, <4>2
    <3> QED
      BY <3>1, <3>2
  <2> QED
    BY <1>3, <2>1, <2>2 DEF TabsOK
<1>10. n \in DOMAIN r
  BY <1>1, <1>3
<1>11. Sheets!Ids(g) = Sheets!Ids(f) \cup {tab.id}
  <2>1. Sheets!Ids(g) = {r[j].id : j \in 1 .. Len(q) + 1} /\ Sheets!Ids(f) = {q[i].id : i \in 1 .. Len(q)}
    BY <1>1, <1>3 DEF Sheets!Ids
  <2>2. \A j \in 1 .. Len(q) + 1 : r[j].id \in Sheets!Ids(f) \cup {tab.id}
    BY <1>2, <1>4, <1>7
  <2>3. \A i \in 1 .. Len(q) : \E j \in 1 .. Len(q) + 1 : q[i].id = r[j].id
    BY <1>6
  <2>4. tab.id \in Sheets!Ids(g)
    BY <1>2, <1>3, <1>10, <2>1
  <2>5. \A x \in Sheets!Ids(g) : x \in Sheets!Ids(f) \cup {tab.id}
    BY <2>1, <2>2
  <2>6. \A x \in Sheets!Ids(f) : x \in Sheets!Ids(g)
    BY <2>1, <2>3
  <2> QED
    BY <2>4, <2>5, <2>6
<1>12. Sheets!Titles(g) = Sheets!Titles(f) \cup {tab.title}
  <2>1. /\ Sheets!Titles(g) = {r[j].title : j \in 1 .. Len(q) + 1}
        /\ Sheets!Titles(f) = {q[i].title : i \in 1 .. Len(q)}
    BY <1>1, <1>3 DEF Sheets!Titles
  <2>2. \A j \in 1 .. Len(q) + 1 : r[j].title \in Sheets!Titles(f) \cup {tab.title}
    BY <1>2, <1>4, <1>7
  <2>3. \A i \in 1 .. Len(q) : \E j \in 1 .. Len(q) + 1 : q[i].title = r[j].title
    BY <1>6
  <2>4. tab.title \in Sheets!Titles(g)
    BY <1>2, <1>3, <1>10, <2>1
  <2>5. \A x \in Sheets!Titles(g) : x \in Sheets!Titles(f) \cup {tab.title}
    BY <2>1, <2>2
  <2>6. \A x \in Sheets!Titles(f) : x \in Sheets!Titles(g)
    BY <2>1, <2>3
  <2> QED
    BY <2>4, <2>5, <2>6
<1> QED
  BY <1>2, <1>3, <1>9, <1>10, <1>11, <1>12 DEF Gained

(* A tab goes. *)
LEMMA TabGone ==
  ASSUME NEW f \in Sheets!File, TabsOK(f), NEW p \in DOMAIN f.tabs,
         NEW r, r = Sheets!RemoveAt(f.tabs, p), NEW g, g = [f EXCEPT !.tabs = r]
  PROVE  /\ g \in Sheets!File /\ TabsOK(g) /\ g.exists = f.exists /\ g.next = f.next
         /\ Len(g.tabs) = Len(f.tabs) - 1
         /\ f.tabs[p].id \notin Sheets!Ids(g) /\ f.tabs[p].title \notin Sheets!Titles(g)
         /\ Sheets!Ids(f) = Sheets!Ids(g) \cup {f.tabs[p].id}
         /\ Sheets!Titles(f) = Sheets!Titles(g) \cup {f.tabs[p].title}
<1> PICK q : q = f.tabs
  OBVIOUS
<1> DEFINE from(j) == IF j < p THEN j ELSE j + 1
           to(i) == IF i < p THEN i ELSE i - 1
<1>1. /\ q \in Seq(Sheets!Tab) /\ Len(q) \in Nat /\ DOMAIN q = 1 .. Len(q)
      /\ p \in 1 .. Len(q) /\ p \in Nat /\ f.next \in Nat
  BY FileParts
<1>2. /\ r \in Seq(Sheets!Tab) /\ Len(r) = Len(q) - 1
      /\ \A j \in 1 .. Len(q) - 1 : j < p => r[j] = q[j]
      /\ \A j \in 1 .. Len(q) - 1 : j >= p => r[j] = q[j + 1]
  <2>1. Without(r, q, p)
    BY <1>1, RemovedTab
  <2> QED
    BY <2>1 DEF Without
<1>3. /\ g.tabs = r /\ g.next = f.next /\ g.exists = f.exists /\ g \in Sheets!File
      /\ DOMAIN r = 1 .. Len(q) - 1
  <2>1. g.tabs = r /\ g.next = f.next /\ g.exists = f.exists /\ g \in Sheets!File
    BY <1>2 DEF Sheets!File
  <2>2. DOMAIN r = 1 .. Len(q) - 1
    BY <1>2
  <2> QED
    BY <2>1, <2>2
<1>4. \A j \in 1 .. Len(q) - 1 : from(j) \in 1 .. Len(q) /\ from(j) # p /\ r[j] = q[from(j)]
  BY <1>1, <1>2
<1>5. \A i, j \in 1 .. Len(q) - 1 : i # j => from(i) # from(j)
  BY <1>1
<1>6. \A i \in 1 .. Len(q) : i # p => to(i) \in 1 .. Len(q) - 1 /\ r[to(i)] = q[i]
  <2> SUFFICES ASSUME NEW i \in 1 .. Len(q), i # p
               PROVE  to(i) \in 1 .. Len(q) - 1 /\ r[to(i)] = q[i]
    OBVIOUS
  <2>1. CASE i < p
    BY <1>1, <1>2, <2>1
  <2>2. CASE i > p
    <3>1. i - 1 \in 1 .. Len(q) - 1 /\ i - 1 >= p /\ (i - 1) + 1 = i /\ ~(i < p)
      BY <1>1, <2>2
    <3> QED
      BY <1>2, <3>1
  <2> QED
    BY <1>1, <2>1, <2>2
<1>8. /\ \A i, j \in 1 .. Len(q) : i # j => q[i].id # q[j].id /\ q[i].title # q[j].title
      /\ \A i \in 1 .. Len(q) :
           /\ q[i].id < f.next
           /\ q[i].title \in Nat => q[i].title < f.next
           /\ q[i].deed # None /\ q[i].deed.undisturbed => q[i].deed.reached = q[i].deed.meant
  BY <1>1 DEF TabsOK
<1> HIDE DEF from, to
<1>9. TabsOK(g)
  <2>1. ASSUME NEW i \in 1 .. Len(q) - 1, NEW j \in 1 .. Len(q) - 1, i # j
        PROVE  r[i].id # r[j].id /\ r[i].title # r[j].title
    BY <1>4, <1>5, <1>8, <2>1
  <2>2. ASSUME NEW i \in 1 .. Len(q) - 1
        PROVE  /\ r[i].id < f.next
               /\ r[i].title \in Nat => r[i].title < f.next
               /\ r[i].deed # None /\ r[i].deed.undisturbed => r[i].deed.reached = r[i].deed.meant
    BY <1>4, <1>8
  <2> QED
    BY <1>3, <2>1, <2>2 DEF TabsOK
<1>10. /\ Sheets!Ids(g) = {r[j].id : j \in 1 .. Len(q) - 1} /\ Sheets!Ids(f) = {q[i].id : i \in 1 .. Len(q)}
       /\ Sheets!Titles(g) = {r[j].title : j \in 1 .. Len(q) - 1}
       /\ Sheets!Titles(f) = {q[i].title : i \in 1 .. Len(q)}
  BY <1>1, <1>3 DEF Sheets!Ids, Sheets!Titles
<1>11. q[p].id \notin Sheets!Ids(g) /\ q[p].title \notin Sheets!Titles(g)
  BY <1>1, <1>4, <1>8, <1>10
<1>12. \A j \in 1 .. Len(q) - 1 : \E i \in 1 .. Len(q) : r[j] = q[i]
  BY <1>4
<1>13. \A i \in 1 .. Len(q) : q[i] = q[p] \/ \E j \in 1 .. Len(q) - 1 : r[j] = q[i]
  BY <1>6
<1>14. Sheets!Ids(f) = Sheets!Ids(g) \cup {q[p].id}
  <2>1. \A x \in Sheets!Ids(g) : x \in Sheets!Ids(f)
    BY <1>10, <1>12
  <2>2. \A x \in Sheets!Ids(f) : x \in Sheets!Ids(g) \cup {q[p].id}
    BY <1>10, <1>13
  <2>3. q[p].id \in Sheets!Ids(f)
    BY <1>1, <1>10
  <2> QED
    BY <2>1, <2>2, <2>3
<1>15. Sheets!Titles(f) = Sheets!Titles(g) \cup {q[p].title}
  <2>1. \A x \in Sheets!Titles(g) : x \in Sheets!Titles(f)
    BY <1>10, <1>12
  <2>2. \A x \in Sheets!Titles(f) : x \in Sheets!Titles(g) \cup {q[p].title}
    BY <1>10, <1>13
  <2>3. q[p].title \in Sheets!Titles(f)
    BY <1>1, <1>10
  <2> QED
    BY <2>1, <2>2, <2>3
<1> QED
  BY <1>2, <1>3, <1>9, <1>11, <1>14, <1>15

(* Where a tab is. *)
LEMMA PlaceFound ==
  ASSUME NEW f \in Sheets!File, NEW id \in Sheets!Ids(f), NEW p, p = Sheets!PlaceOf(f, id)
  PROVE  p \in DOMAIN f.tabs /\ f.tabs[p].id = id
<1>1. \E i \in DOMAIN f.tabs : f.tabs[i].id = id
  BY DEF Sheets!Ids
<1> QED
  BY <1>1 DEF Sheets!PlaceOf

(* addSheet: the tab is where it was asked for, with the next id. *)
LEMMA TabMade ==
  ASSUME NEW f \in Sheets!File, TabsOK(f), NEW title \in Title \cup {None}, title \notin Sheets!Titles(f),
         NEW index \in 0 .. Len(f.tabs), NEW deed \in Sheets!Deed \cup {None},
         deed # None /\ deed.undisturbed => deed.reached = deed.meant,
         NEW g, g = Sheets!WithTab(f, title, index, deed)
  PROVE  /\ g \in Sheets!File /\ TabsOK(g) /\ g.exists = f.exists
         /\ Len(g.tabs) = Len(f.tabs) + 1 /\ index + 1 \in DOMAIN g.tabs
         /\ g.tabs[index + 1].id = f.next /\ f.next \in Sheets!Ids(g)
         /\ Sheets!Titles(g) \subseteq Sheets!Titles(f) \cup Title \cup Nat
         /\ \A x \in Title : title = None /\ x \notin Sheets!Titles(f) => x \notin Sheets!Titles(g)
<1> PICK tab : tab = [id |-> f.next, title |-> IF title = None THEN f.next ELSE title, deed |-> deed]
  OBVIOUS
<1> PICK n : n = index + 1
  OBVIOUS
<1> PICK r : r = Sheets!InsertAt(f.tabs, n, tab)
  OBVIOUS
<1> PICK m : m = f.next + 1
  OBVIOUS
<1>1. f.next \in Nat \ {0} /\ Len(f.tabs) \in Nat /\ n \in 1 .. Len(f.tabs) + 1
  BY FileParts
<1>2. f.next \notin Sheets!Ids(f) /\ f.next \notin Sheets!Titles(f)
  BY <1>1, FileParts DEF TabsOK, Sheets!Ids, Sheets!Titles
<1>3. /\ tab.id = f.next /\ tab.deed = deed
      /\ title = None => tab.title = f.next
      /\ title # None => tab.title = title /\ title \in Title
  OBVIOUS
<1>4. tab \in Sheets!Tab
  BY <1>1 DEF Sheets!Tab
<1>5. m \in Nat \ {0} /\ m >= f.next /\ tab.id < m /\ (tab.title \in Nat => tab.title < m)
  BY <1>1, <1>3, SheetsConstants
<1>6. tab.title \notin Sheets!Titles(f)
  BY <1>2, <1>3
<1>7. g = [f EXCEPT !.tabs = r, !.next = m]
  BY DEF Sheets!WithTab
<1>8. /\ g \in Sheets!File /\ TabsOK(g) /\ g.exists = f.exists
      /\ Len(g.tabs) = Len(f.tabs) + 1 /\ n \in DOMAIN g.tabs /\ g.tabs[n] = tab
      /\ Sheets!Ids(g) = Sheets!Ids(f) \cup {tab.id}
      /\ Sheets!Titles(g) = Sheets!Titles(f) \cup {tab.title}
  <2>1. Gained(g, f, n, tab)
    BY <1>1, <1>2, <1>3, <1>4, <1>5, <1>6, <1>7, TabAdded
  <2> QED
    BY <2>1 DEF Gained
<1>9. \A x \in Title : x # f.next
  BY <1>1, SheetsConstants
<1>10. Sheets!Titles(g) \subseteq Sheets!Titles(f) \cup Title \cup Nat
  BY <1>1, <1>3, <1>8
<1>11. \A x \in Title : title = None /\ x \notin Sheets!Titles(f) => x \notin Sheets!Titles(g)
  BY <1>3, <1>8, <1>9
<1> QED
  BY <1>3, <1>8, <1>10, <1>11

(* updateSheetProperties, of the title. *)
LEMMA TabRenamed ==
  ASSUME NEW f \in Sheets!File, TabsOK(f), NEW id \in Sheets!Ids(f),
         NEW title \in Title, title \notin Sheets!Titles(f),
         NEW g, g = Sheets!WithTitle(f, id, title)
  PROVE  g \in Sheets!File /\ TabsOK(g) /\ g.exists = f.exists
<1> PICK q : q = f.tabs
  OBVIOUS
<1> PICK p : p = Sheets!PlaceOf(f, id)
  OBVIOUS
<1> PICK tab : tab = [q[p] EXCEPT !.title = title]
  OBVIOUS
<1> PICK r : r = [q EXCEPT ![p] = tab]
  OBVIOUS
<1>1. /\ q \in Seq(Sheets!Tab) /\ DOMAIN q = 1 .. Len(q) /\ Len(q) \in Nat
      /\ p \in DOMAIN q /\ f.next \in Nat
  BY FileParts, PlaceFound
<1>2. g = [f EXCEPT !.tabs = r]
  BY DEF Sheets!WithTitle
<1>3. q[p] \in Sheets!Tab
  BY <1>1
<1>4. tab \in Sheets!Tab /\ tab.id = q[p].id /\ tab.title = title /\ tab.deed = q[p].deed
  BY <1>3 DEF Sheets!Tab
<1>5. /\ r \in Seq(Sheets!Tab) /\ DOMAIN r = DOMAIN q /\ Len(r) = Len(q)
      /\ r[p] = tab /\ \A i \in DOMAIN q : i # p => r[i] = q[i]
  BY <1>1, <1>4
<1>6. g \in Sheets!File /\ g.tabs = r /\ g.next = f.next /\ g.exists = f.exists
  BY <1>2, <1>5 DEF Sheets!File
<1>7. \A i \in DOMAIN q : r[i].id = q[i].id /\ r[i].deed = q[i].deed
  BY <1>4, <1>5
<1>8. \A i \in DOMAIN q : q[i].title # title
  BY DEF Sheets!Titles
<1>9. title \notin Nat
  BY SheetsConstants
<1>10. /\ \A i, j \in DOMAIN q : i # j => q[i].id # q[j].id /\ q[i].title # q[j].title
       /\ \A i \in DOMAIN q :
           /\ q[i].id < f.next
           /\ q[i].title \in Nat => q[i].title < f.next
           /\ q[i].deed # None /\ q[i].deed.undisturbed => q[i].deed.reached = q[i].deed.meant
  BY DEF TabsOK
<1>11. ASSUME NEW i \in DOMAIN q, NEW j \in DOMAIN q, i # j
       PROVE  r[i].id # r[j].id /\ r[i].title # r[j].title
  BY <1>4, <1>5, <1>7, <1>8, <1>10, <1>11
<1>12. ASSUME NEW i \in DOMAIN q
       PROVE  /\ r[i].id < f.next
              /\ r[i].title \in Nat => r[i].title < f.next
              /\ r[i].deed # None /\ r[i].deed.undisturbed => r[i].deed.reached = r[i].deed.meant
  <2>1. r[i].title \in Nat => r[i].title < f.next
    BY <1>4, <1>5, <1>9, <1>10
  <2> QED
    BY <2>1, <1>7, <1>10
<1> QED
  BY <1>5, <1>6, <1>11, <1>12 DEF TabsOK

\* The tabs of the spreadsheet g are those of f in another order.
Rearranged(g, f) ==
  /\ g \in Sheets!File /\ TabsOK(g) /\ g.exists = f.exists
  /\ Sheets!Ids(g) = Sheets!Ids(f) /\ Sheets!Titles(g) = Sheets!Titles(f)

(* A tab that is taken out and put in again. *)
LEMMA TabPut ==
  ASSUME NEW f \in Sheets!File, TabsOK(f), NEW h \in Sheets!File, TabsOK(h), NEW tab \in Sheets!Tab,
         h.exists = f.exists, h.next = f.next,
         tab.id \notin Sheets!Ids(h), tab.title \notin Sheets!Titles(h),
         Sheets!Ids(f) = Sheets!Ids(h) \cup {tab.id}, Sheets!Titles(f) = Sheets!Titles(h) \cup {tab.title},
         tab.id < f.next, tab.title \in Nat => tab.title < f.next,
         tab.deed # None /\ tab.deed.undisturbed => tab.deed.reached = tab.deed.meant,
         NEW n \in 1 .. Len(h.tabs) + 1, NEW r, r = Sheets!InsertAt(h.tabs, n, tab),
         NEW g, g = [h EXCEPT !.tabs = r, !.next = h.next]
  PROVE  Rearranged(g, f)
<1> PICK m : m = h.next
  OBVIOUS
<1>1. m \in Nat \ {0} /\ m >= h.next /\ tab.id < m /\ (tab.title \in Nat => tab.title < m)
  BY FileParts
<1>2. Gained(g, h, n, tab)
  BY <1>1, TabAdded
<1> QED
  BY <1>2 DEF Gained, Rearranged

(* updateSheetProperties, of the index. *)
LEMMA TabMoved ==
  ASSUME NEW f \in Sheets!File, TabsOK(f), NEW id \in Sheets!Ids(f), NEW index,
         NEW g \in Sheets!WithMove(f, id, index)
  PROVE  Rearranged(g, f)
<1>p. PICK p : p = Sheets!PlaceOf(f, id)
  OBVIOUS
<1>t. PICK tab : tab = f.tabs[p]
  OBVIOUS
<1>o. PICK others : others = Sheets!RemoveAt(f.tabs, p)
  OBVIOUS
<1>i. PICK i \in 0 .. Len(others) : g = [f EXCEPT !.tabs = Sheets!InsertAt(others, i + 1, tab)]
  BY <1>p, <1>t, <1>o, Zenon DEF Sheets!WithMove
<1>1. \E h : h = [f EXCEPT !.tabs = others]
  OBVIOUS
<1>2. \A h : h = [f EXCEPT !.tabs = others] =>
        /\ h \in Sheets!File /\ TabsOK(h) /\ h.exists = f.exists /\ h.next = f.next
        /\ tab.id \notin Sheets!Ids(h) /\ tab.title \notin Sheets!Titles(h)
        /\ Sheets!Ids(f) = Sheets!Ids(h) \cup {tab.id}
        /\ Sheets!Titles(f) = Sheets!Titles(h) \cup {tab.title}
        /\ h.tabs = others
        /\ g = [h EXCEPT !.tabs = Sheets!InsertAt(h.tabs, i + 1, tab), !.next = h.next]
  <2> SUFFICES ASSUME NEW h, h = [f EXCEPT !.tabs = others]
               PROVE  /\ h \in Sheets!File /\ TabsOK(h) /\ h.exists = f.exists /\ h.next = f.next
                      /\ tab.id \notin Sheets!Ids(h) /\ tab.title \notin Sheets!Titles(h)
                      /\ Sheets!Ids(f) = Sheets!Ids(h) \cup {tab.id}
                      /\ Sheets!Titles(f) = Sheets!Titles(h) \cup {tab.title}
                      /\ h.tabs = others
                      /\ g = [h EXCEPT !.tabs = Sheets!InsertAt(h.tabs, i + 1, tab), !.next = h.next]
    OBVIOUS
  <2>1. p \in DOMAIN f.tabs
    BY <1>p, PlaceFound
  <2>2. /\ h \in Sheets!File /\ TabsOK(h) /\ h.exists = f.exists /\ h.next = f.next
        /\ tab.id \notin Sheets!Ids(h) /\ tab.title \notin Sheets!Titles(h)
        /\ Sheets!Ids(f) = Sheets!Ids(h) \cup {tab.id}
        /\ Sheets!Titles(f) = Sheets!Titles(h) \cup {tab.title}
    BY <1>t, <1>o, <2>1, TabGone
  <2>3. h.tabs = others
    BY DEF Sheets!File
  <2>4. g = [h EXCEPT !.tabs = Sheets!InsertAt(h.tabs, i + 1, tab), !.next = h.next]
    BY <1>i, <2>3 DEF Sheets!File
  <2> QED
    BY <2>2, <2>3, <2>4
<1>3. PICK h :
        /\ h \in Sheets!File /\ TabsOK(h) /\ h.exists = f.exists /\ h.next = f.next
        /\ tab.id \notin Sheets!Ids(h) /\ tab.title \notin Sheets!Titles(h)
        /\ Sheets!Ids(f) = Sheets!Ids(h) \cup {tab.id}
        /\ Sheets!Titles(f) = Sheets!Titles(h) \cup {tab.title}
        /\ h.tabs = others
        /\ g = [h EXCEPT !.tabs = Sheets!InsertAt(h.tabs, i + 1, tab), !.next = h.next]
  BY <1>1, <1>2
<1>4. /\ p \in DOMAIN f.tabs /\ tab \in Sheets!Tab
      /\ tab.id < f.next /\ (tab.title \in Nat => tab.title < f.next)
      /\ tab.deed # None /\ tab.deed.undisturbed => tab.deed.reached = tab.deed.meant
  BY <1>p, <1>t, PlaceFound, FileParts DEF TabsOK
<1>5. PICK n : n = i + 1
  OBVIOUS
<1>6. PICK r : r = Sheets!InsertAt(h.tabs, n, tab)
  OBVIOUS
<1>7. n \in 1 .. Len(h.tabs) + 1
  <2>1. Len(h.tabs) \in Nat
    BY <1>3, FileParts
  <2> QED
    BY <1>i, <1>3, <1>5, <2>1
<1>8. g = [h EXCEPT !.tabs = r, !.next = h.next]
  BY <1>3, <1>5, <1>6
<1>9. /\ h \in Sheets!File /\ TabsOK(h) /\ h.exists = f.exists /\ h.next = f.next
      /\ tab.id \notin Sheets!Ids(h) /\ tab.title \notin Sheets!Titles(h)
      /\ Sheets!Ids(f) = Sheets!Ids(h) \cup {tab.id}
      /\ Sheets!Titles(f) = Sheets!Titles(h) \cup {tab.title}
  BY <1>3
<1> QED
  BY <1>4, <1>6, <1>7, <1>8, <1>9, TabPut

(* values().update: only the deed of a tab. *)
LEMMA TabWritten ==
  ASSUME NEW f \in Sheets!File, TabsOK(f), NEW i \in DOMAIN f.tabs, NEW deed \in Sheets!Deed,
         deed.undisturbed => deed.reached = deed.meant,
         NEW g, g = Sheets!WithDeed(f, i, deed)
  PROVE  /\ g \in Sheets!File /\ TabsOK(g) /\ g.exists = f.exists
         /\ Sheets!Snapshot(g) = Sheets!Snapshot(f)
<1> PICK q : q = f.tabs
  OBVIOUS
<1> PICK tab : tab = [q[i] EXCEPT !.deed = deed]
  OBVIOUS
<1> PICK r : r = [q EXCEPT ![i] = tab]
  OBVIOUS
<1>1. /\ q \in Seq(Sheets!Tab) /\ DOMAIN q = 1 .. Len(q) /\ Len(q) \in Nat
      /\ q[i] \in Sheets!Tab
  BY FileParts
<1>2. g = [f EXCEPT !.tabs = r]
  BY DEF Sheets!WithDeed
<1>4. tab \in Sheets!Tab /\ tab.id = q[i].id /\ tab.title = q[i].title /\ tab.deed = deed
  BY <1>1 DEF Sheets!Tab
<1>5. /\ r \in Seq(Sheets!Tab) /\ DOMAIN r = DOMAIN q
      /\ r[i] = tab /\ \A j \in DOMAIN q : j # i => r[j] = q[j]
  BY <1>1, <1>4
<1>6. g \in Sheets!File /\ g.tabs = r /\ g.next = f.next /\ g.exists = f.exists
  BY <1>2, <1>5 DEF Sheets!File
<1>7. \A j \in DOMAIN q : r[j].id = q[j].id /\ r[j].title = q[j].title
  BY <1>4, <1>5
<1>8. Sheets!Snapshot(g) = Sheets!Snapshot(f)
  BY <1>5, <1>6, <1>7 DEF Sheets!Snapshot
<1>10. /\ \A j, k \in DOMAIN q : k # j => q[k].id # q[j].id /\ q[k].title # q[j].title
       /\ \A j \in DOMAIN q :
           /\ q[j].id < f.next
           /\ q[j].title \in Nat => q[j].title < f.next
           /\ q[j].deed # None /\ q[j].deed.undisturbed => q[j].deed.reached = q[j].deed.meant
  BY DEF TabsOK
<1>11. \A j, k \in DOMAIN q : k # j => r[k].id # r[j].id /\ r[k].title # r[j].title
  BY <1>7, <1>10
<1>12. ASSUME NEW j \in DOMAIN q
       PROVE  /\ r[j].id < f.next
              /\ r[j].title \in Nat => r[j].title < f.next
              /\ r[j].deed # None /\ r[j].deed.undisturbed => r[j].deed.reached = r[j].deed.meant
  BY <1>4, <1>5, <1>7, <1>10
<1> QED
  BY <1>5, <1>6, <1>8, <1>11, <1>12 DEF TabsOK

(* A spreadsheet that is created. *)
LEMMA BlankFile ==
  ASSUME NEW n \in Nat, NEW f, f = Sheets!Blank(n)
  PROVE  f \in Sheets!File /\ TabsOK(f) /\ f.exists = TRUE
<1> PICK q : q = [i \in 1 .. n |-> [id |-> i, title |-> i, deed |-> None]]
  OBVIOUS
<1>1. f.exists = TRUE /\ f.tabs = q /\ f.next = n + 1 /\ f = [exists |-> TRUE, next |-> n + 1, tabs |-> q]
  BY DEF Sheets!Blank
<1>2. \A i \in 1 .. n : [id |-> i, title |-> i, deed |-> None] \in Sheets!Tab
  BY DEF Sheets!Tab
<1>3. q \in Seq(Sheets!Tab) /\ DOMAIN q = 1 .. n
  BY <1>2
<1>4. f \in Sheets!File
  BY <1>1, <1>3 DEF Sheets!File
<1>5. \A i \in 1 .. n : q[i].id = i /\ q[i].title = i /\ q[i].deed = None
  OBVIOUS
<1>6. TabsOK(f)
  BY <1>1, <1>3, <1>5 DEF TabsOK
<1> QED
  BY <1>1, <1>4, <1>6
-----------------------------------------------------------------------------
(* The steps of the programs.                                              *)

LEMMA KnownParts ==
  ASSUME SheetsKnown, NEW c \in Client
  PROVE  /\ files \in Seq(Sheets!File) /\ Len(files) \in Nat /\ DOMAIN files = 1 .. Len(files)
         /\ sheets \in [Client -> Objects(Len(files))] /\ sheets[c] \in Objects(Len(files))
         /\ sheet \in [Client -> Sheets!SheetObject \cup {None}] /\ sheet[c] \in Sheets!SheetObject \cup {None}
         /\ location \in [Client -> Sheets!Location] /\ location[c] \in Sheets!Location
         /\ call \in [Client -> SheetCall] /\ call[c] \in SheetCall
         /\ disturbed \in [Client -> BOOLEAN] /\ crossed \in [Client -> BOOLEAN]
         /\ raced \in BOOLEAN /\ called \in 0 .. MaxCalled /\ failed \in 0 .. MaxFailed /\ rejected = FALSE
         /\ ProgramOK(files, sheets[c], sheet[c], location[c], call[c], disturbed[c], crossed[c])
         /\ sheets[c].id \in 0 .. Len(files) /\ sheets[c].tabs \in Seq(Sheets!CachedTab)
         /\ sheets[c].id # 0 =>
              /\ sheets[c].id \in DOMAIN files
              /\ files[sheets[c].id] \in Sheets!File /\ TabsOK(files[sheets[c].id])
<1>1. /\ files \in Seq(Sheets!File) /\ Len(files) \in Nat /\ DOMAIN files = 1 .. Len(files)
      /\ sheets \in [Client -> Objects(Len(files))] /\ sheets[c] \in Objects(Len(files))
  BY DEF SheetsKnown, SheetsTypes
<1>2. sheets[c].id \in 0 .. Len(files) /\ sheets[c].tabs \in Seq(Sheets!CachedTab)
  BY <1>1 DEF Objects
<1>3. ASSUME sheets[c].id # 0
      PROVE  /\ sheets[c].id \in DOMAIN files
             /\ files[sheets[c].id] \in Sheets!File /\ TabsOK(files[sheets[c].id])
  <2>1. sheets[c].id \in DOMAIN files
    BY <1>1, <1>2, <1>3
  <2> QED
    BY <1>1, <2>1 DEF SheetsKnown
<1> QED
  BY <1>1, <1>2, <1>3 DEF SheetsKnown, SheetsTypes

\* What c knows after a step.
Knows(c) == ProgramOK(files, sheets[c], sheet[c], location[c], call[c], disturbed[c], crossed[c])

\* A step of c on nobody else's variables, or but for what it changes for those who share.
Own(c) == \A d \in Client \ {c} : sheets'[d] = sheets[d] /\ location'[d] = location[d] /\ call'[d] = call[d]

Alone(c) ==
  \A d \in Client \ {c} : sheet'[d] = sheet[d] /\ disturbed'[d] = disturbed[d] /\ crossed'[d] = crossed[d]

(* A step that changes no spreadsheet. *)
LEMMA AloneKnown ==
  ASSUME SheetsKnown, NEW c \in Client, files' = files, SheetsTypes', Own(c), Alone(c), Knows(c)', rejected' = FALSE
  PROVE  SheetsKnown'
<1>1. ASSUME NEW d \in Client
      PROVE  ProgramOK(files', sheets'[d], sheet'[d], location'[d], call'[d], disturbed'[d], crossed'[d])
  <2>1. CASE d = c
    BY <2>1 DEF Knows
  <2>2. CASE d # c
    <3>1. ProgramOK(files, sheets[d], sheet[d], location[d], call[d], disturbed[d], crossed[d])
      BY KnownParts
    <3> QED
      BY <2>2, <3>1 DEF Own, Alone
  <2> QED
    BY <2>1, <2>2
<1> QED
  BY <1>1 DEF SheetsKnown

(* A step that creates a spreadsheet. *)
LEMMA CreatedKnown ==
  ASSUME SheetsKnown, NEW c \in Client, NEW f \in Sheets!File, TabsOK(f), files' = Append(files, f),
         SheetsTypes', Own(c), Alone(c), Knows(c)', rejected' = FALSE
  PROVE  SheetsKnown'
<1> PICK fs : fs = Append(files, f)
  OBVIOUS
<1>1. /\ files \in Seq(Sheets!File) /\ 1 \in DOMAIN files /\ \A k \in DOMAIN files : TabsOK(files[k])
  BY DEF SheetsKnown, SheetsTypes
<1>2. /\ DOMAIN fs = 1 .. Len(files) + 1 /\ DOMAIN files = 1 .. Len(files) /\ Len(files) \in Nat
      /\ fs[Len(files) + 1] = f /\ \A k \in DOMAIN files : fs[k] = files[k]
  BY <1>1
<1>3. 1 \in DOMAIN fs /\ \A k \in DOMAIN fs : TabsOK(fs[k])
  <2>1. \A k \in DOMAIN fs : k \in DOMAIN files \/ k = Len(files) + 1
    BY <1>2
  <2> QED
    BY <1>1, <1>2, <2>1
<1>4. ASSUME NEW d \in Client
      PROVE  ProgramOK(fs, sheets'[d], sheet'[d], location'[d], call'[d], disturbed'[d], crossed'[d])
  <2>1. CASE d = c
    BY <2>1 DEF Knows
  <2>2. CASE d # c
    <3>1. ProgramOK(files, sheets[d], sheet[d], location[d], call[d], disturbed[d], crossed[d])
      BY KnownParts
    <3>2. sheets[d] \in Objects(Len(files))
      BY KnownParts
    <3>3. ProgramOK(fs, sheets[d], sheet[d], location[d], call[d], disturbed[d], crossed[d])
      BY <1>1, <3>1, <3>2, NewSheets
    <3> QED
      BY <2>2, <3>3 DEF Own, Alone
  <2> QED
    BY <2>1, <2>2
<1> QED
  BY <1>3, <1>4 DEF SheetsKnown

(* A write to a tab leaves ids and titles. *)
LEMMA WrittenKnown ==
  ASSUME SheetsKnown, NEW c \in Client, NEW k \in DOMAIN files, NEW f \in Sheets!File, TabsOK(f),
         Sheets!Snapshot(f) = Sheets!Snapshot(files[k]), f.exists = files[k].exists,
         files' = [files EXCEPT ![k] = f],
         SheetsTypes', Own(c), Alone(c), Knows(c)', rejected' = FALSE
  PROVE  SheetsKnown'
<1> PICK fs : fs = [files EXCEPT ![k] = f]
  OBVIOUS
<1>1. /\ files \in Seq(Sheets!File) /\ 1 \in DOMAIN files /\ \A j \in DOMAIN files : TabsOK(files[j])
  BY DEF SheetsKnown, SheetsTypes
<1>2. DOMAIN fs = DOMAIN files /\ fs[k] = f /\ \A j \in DOMAIN files : j # k => fs[j] = files[j]
  BY <1>1
<1>3. 1 \in DOMAIN fs /\ \A j \in DOMAIN fs : TabsOK(fs[j])
  BY <1>1, <1>2
<1>4. ASSUME NEW d \in Client
      PROVE  ProgramOK(fs, sheets'[d], sheet'[d], location'[d], call'[d], disturbed'[d], crossed'[d])
  <2>1. CASE d = c
    BY <2>1 DEF Knows
  <2>2. CASE d # c
    <3>1. ProgramOK(files, sheets[d], sheet[d], location[d], call[d], disturbed[d], crossed[d])
      BY KnownParts
    <3>2. sheets[d] \in Objects(Len(files))
      BY KnownParts
    <3>3. ProgramOK(fs, sheets[d], sheet[d], location[d], call[d], disturbed[d], crossed[d])
      BY <1>1, <3>1, <3>2, WritesLeave
    <3> QED
      BY <2>2, <3>3 DEF Own, Alone
  <2> QED
    BY <2>1, <2>2
<1> QED
  BY <1>3, <1>4 DEF SheetsKnown

(* A request that changes the tabs. *)
LEMMA ChangedKnown ==
  ASSUME SheetsKnown, NEW c \in Client, sheets[c].id # 0, NEW f \in Sheets!File, TabsOK(f),
         Sheets!Changes(c, f), SheetsTypes', Own(c), Knows(c)', rejected' = FALSE
  PROVE  SheetsKnown'
<1>k. PICK k : k = sheets[c].id
  OBVIOUS
<1>f. PICK fs : fs = [files EXCEPT ![k] = f]
  OBVIOUS
<1>0. files' = fs
  BY <1>k, <1>f DEF Sheets!Changes
<1>1. /\ files \in Seq(Sheets!File) /\ 1 \in DOMAIN files /\ \A j \in DOMAIN files : TabsOK(files[j])
      /\ k \in DOMAIN files
  BY <1>k, KnownParts DEF SheetsKnown
<1>2. DOMAIN fs = DOMAIN files /\ fs[k] = f /\ \A j \in DOMAIN files : j # k => fs[j] = files[j]
  BY <1>f, <1>1
<1>3. 1 \in DOMAIN fs /\ \A j \in DOMAIN fs : TabsOK(fs[j])
  BY <1>1, <1>2
<1>4. ASSUME NEW d \in Client
      PROVE  ProgramOK(fs, sheets'[d], sheet'[d], location'[d], call'[d], disturbed'[d], crossed'[d])
  <2>1. CASE d = c
    BY <1>0, <2>1 DEF Knows
  <2>2. CASE d # c
    <3>1. /\ ProgramOK(files, sheets[d], sheet[d], location[d], call[d], disturbed[d], crossed[d])
          /\ sheets[d] \in Objects(Len(files)) /\ sheet[d] \in Sheets!SheetObject \cup {None}
          /\ disturbed \in [Client -> BOOLEAN] /\ crossed \in [Client -> BOOLEAN]
      BY KnownParts
    <3>2. /\ sheets'[d] = sheets[d] /\ location'[d] = location[d] /\ call'[d] = call[d]
      BY <2>2 DEF Own
    <3>3. CASE sheets[d].id # k
      <4>1. sheet'[d] = sheet[d] /\ disturbed'[d] = disturbed[d] /\ crossed'[d] = crossed[d]
        BY <1>k, <3>1, <3>3 DEF Sheets!Changes
      <4>2. ProgramOK(fs, sheets[d], sheet[d], location[d], call[d], disturbed[d], crossed[d])
        BY <1>f, <1>1, <3>1, <3>3, OthersElsewhere
      <4> QED
        BY <3>2, <4>1, <4>2
    <3>4. CASE sheets[d].id = k
      <4>1. /\ sheet'[d] = Aged(sheet[d]) /\ disturbed'[d] = TRUE
            /\ crossed'[d] = (crossed[d] \/ call[d].then = "frame")
        BY <1>k, <2>2, <3>4 DEF Sheets!Changes, Aged
      <4>2. ProgramOK(fs, sheets[d], Aged(sheet[d]), location[d], call[d], TRUE,
                      crossed[d] \/ call[d].then = "frame")
        <5>1. DOMAIN fs = DOMAIN files
          BY <1>2
        <5>2. sheet[d] \in Sheets!SheetObject \cup {None}
          BY <3>1
        <5>3. ProgramOK(files, sheets[d], sheet[d], location[d], call[d], disturbed[d], crossed[d])
          BY <3>1
        <5>4. PICK o, s, l, t, changed, crossing :
                /\ o = sheets[d] /\ s = sheet[d] /\ l = location[d] /\ t = call[d]
                /\ changed = disturbed[d] /\ crossing = crossed[d]
          OBVIOUS
        <5>5. s \in Sheets!SheetObject \cup {None} /\ ProgramOK(files, o, s, l, t, changed, crossing)
          BY <5>2, <5>3, <5>4
        <5>6. PICK late \in BOOLEAN, across \in BOOLEAN :
                late = TRUE /\ across = (crossing \/ t.then = "frame")
          OBVIOUS
        <5>7. ProgramOK(fs, o, Aged(s), l, t, late, across)
          BY <5>1, <5>5, <5>6, OthersChange
        <5> QED
          BY <5>4, <5>6, <5>7
      <4> QED
        BY <3>2, <4>1, <4>2
    <3> QED
      BY <3>3, <3>4
  <2> QED
    BY <2>1, <2>2
<1> QED
  BY <1>0, <1>3, <1>4 DEF SheetsKnown

(* A call that is over. *)
LEMMA IdleOK ==
  ASSUME NEW fs, NEW o, NEW s, NEW l, NEW t, NEW b, NEW x, ProgramOK(fs, o, s, l, t, b, x),
         NEW d, o.id # 0 /\ ~d => Shows(o, fs[o.id])
  PROVE  ProgramOK(fs, o, s, "idle", Sheets!NoTask, d, FALSE)
<1>1. Sheets!NoTask.then = "return"
  BY DEF Sheets!NoTask, Sheets!Task
<1> QED
  BY <1>1 DEF ProgramOK

LEMMA NoCall == Sheets!NoTask \in SheetCall /\ Sheets!NoTask.then = "return" /\ "idle" \in Sheets!Location
BY DEF SheetCall, Sheets!NoTask, Sheets!Task, Sheets!Location

(* One of the name, still: no new spreadsheet, and no one else creates it. *)
LEMMA OneKept ==
  ASSUME OneSheetInv, raced' = raced,
         \A k \in Sheets!Namesakes' : k \in Sheets!Namesakes,
         \A d \in Client : Sheets!Creating(d)' => Sheets!Creating(d)
  PROVE  OneSheetInv'
<1> SUFFICES ASSUME ~raced
             PROVE  /\ \A f, g \in Sheets!Namesakes' : f = g
                    /\ \A c, d \in Client : Sheets!Creating(c)' /\ Sheets!Creating(d)' => c = d
                    /\ \A c \in Client : Sheets!Creating(c)' => Sheets!Namesakes' = {}
  BY DEF OneSheetInv
<1>1. \A f, g \in Sheets!Namesakes' : f = g
  BY DEF OneSheetInv
<1>2. \A c, d \in Client : Sheets!Creating(c)' /\ Sheets!Creating(d)' => c = d
  BY DEF OneSheetInv
<1>3. ASSUME NEW c \in Client, Sheets!Creating(c)' PROVE Sheets!Namesakes' = {}
  <2>1. Sheets!Creating(c)
    BY <1>3
  <2>2. Sheets!Namesakes = {}
    BY <2>1 DEF OneSheetInv
  <2> QED
    BY <2>2
<1> QED
  BY <1>1, <1>2, <1>3

(* A spreadsheet is created: by c, who found none of the name. *)
LEMMA OneCreated ==
  ASSUME SheetsKnown, OneSheetInv, NEW c \in Client, Sheets!Creating(c), raced' = raced,
         NEW f, files' = Append(files, f),
         NEW l \in {"idle", "retrieve"}, location' = [location EXCEPT ![c] = l]
  PROVE  OneSheetInv'
<1> SUFFICES ASSUME ~raced
             PROVE  /\ \A j, k \in Sheets!Namesakes' : j = k
                    /\ \A d \in Client : ~Sheets!Creating(d)'
  BY DEF OneSheetInv
<1>1. Sheets!Namesakes = {} /\ \A d \in Client : Sheets!Creating(d) => d = c
  BY DEF OneSheetInv
<1>2. files \in Seq(Sheets!File) /\ location \in [Client -> Sheets!Location]
  BY DEF SheetsKnown, SheetsTypes
<1>3. /\ DOMAIN files = 1 .. Len(files) /\ Len(files) \in Nat
      /\ DOMAIN files' = 1 .. Len(files) + 1 /\ \A k \in DOMAIN files : files'[k] = files[k]
  BY <1>2
<1>4. \A k \in Sheets!Namesakes' : k = Len(files) + 1
  <2> SUFFICES ASSUME NEW k \in DOMAIN files', k # 1, files'[k].exists PROVE k = Len(files) + 1
    BY DEF Sheets!Namesakes
  <2>1. k \in DOMAIN files => k \in Sheets!Namesakes
    BY <1>3 DEF Sheets!Namesakes
  <2> QED
    BY <1>1, <1>3, <2>1
<1>5. ASSUME NEW d \in Client PROVE ~Sheets!Creating(d)'
  <2>1. CASE d = c
    BY <1>2, <2>1 DEF Sheets!Creating
  <2>2. CASE d # c
    <3>1. location'[d] = location[d]
      BY <1>2, <2>2
    <3> QED
      BY <1>1, <2>2, <3>1 DEF Sheets!Creating
  <2> QED
    BY <2>1, <2>2
<1> QED
  BY <1>4, <1>5

(* A program begins to create the spreadsheet, while there is none of the name. *)
LEMMA OneBegun ==
  ASSUME SheetsKnown, OneSheetInv, NEW c \in Client, Sheets!Races(c), Sheets!Namesakes' = {},
         NEW l \in Sheets!Location, location' = [location EXCEPT ![c] = l]
  PROVE  OneSheetInv'
<1> SUFFICES ASSUME ~raced'
             PROVE  \A d, e \in Client : Sheets!Creating(d)' /\ Sheets!Creating(e)' => d = e
  BY DEF OneSheetInv
<1>1. \A d \in Client \ {c} : ~Sheets!Creating(d)
  BY DEF Sheets!Races
<1>2. location \in [Client -> Sheets!Location]
  BY DEF SheetsKnown, SheetsTypes
<1>3. \A d \in Client \ {c} : ~Sheets!Creating(d)'
  BY <1>1, <1>2 DEF Sheets!Creating
<1> QED
  BY <1>3

(* A call that ends without having changed anything. *)
LEMMA EndKeeps ==
  ASSUME SheetsKnown, OneSheetInv, NEW c \in Client, NEW from, Sheets!End(c, from),
         UNCHANGED <<files, sheets, sheet, raced>>,
         disturbed' \in [Client -> BOOLEAN], \A d \in Client \ {c} : disturbed'[d] = disturbed[d],
         sheets[c].id # 0 /\ ~disturbed'[c] => Shows(sheets[c], files[sheets[c].id]),
         called' \in 0 .. MaxCalled, failed' \in 0 .. MaxFailed, rejected' = FALSE
  PROVE  SheetsInv'
<1>1. /\ location[c] = from /\ location' = [location EXCEPT ![c] = "idle"]
      /\ call' = [call EXCEPT ![c] = Sheets!NoTask] /\ crossed' = [crossed EXCEPT ![c] = FALSE]
  BY DEF Sheets!End, Sheets!Goto, Sheets!SetTask
<1>2. SheetsKnown'
  <2>1. SheetsTypes'
    BY <1>1, KnownParts, NoCall DEF SheetsTypes
  <2>2. Own(c) /\ Alone(c)
    BY <1>1, KnownParts DEF Own, Alone
  <2>3. Knows(c)'
    <3>1. location'[c] = "idle" /\ call'[c] = Sheets!NoTask /\ crossed'[c] = FALSE
      BY <1>1, KnownParts
    <3>2. ProgramOK(files, sheets[c], sheet[c], "idle", Sheets!NoTask, disturbed'[c], FALSE)
      BY KnownParts, IdleOK
    <3> QED
      BY <3>1, <3>2 DEF Knows
  <2> QED
    BY <2>1, <2>2, <2>3, AloneKnown
<1>3. OneSheetInv'
  <2>1. \A k \in Sheets!Namesakes' : k \in Sheets!Namesakes
    BY DEF Sheets!Namesakes
  <2>2. \A d \in Client : Sheets!Creating(d)' => Sheets!Creating(d)
    BY <1>1, KnownParts DEF Sheets!Creating
  <2> QED
    BY <2>1, <2>2, OneKept
<1> QED
  BY <1>2, <1>3 DEF SheetsInv

(* A call that the service refuses, after others came in its way. *)
LEMMA RefusedKeeps ==
  ASSUME SheetsKnown, OneSheetInv, NEW c \in Client, NEW from, NEW expected, Sheets!Refused(c, from, expected), expected,
         sheets[c].id # 0 /\ ~disturbed[c] => Shows(sheets[c], files[sheets[c].id]),
         called' \in 0 .. MaxCalled, failed' \in 0 .. MaxFailed
  PROVE  SheetsInv'
<1>1. /\ Sheets!End(c, from) /\ UNCHANGED <<files, sheets, sheet, raced>>
      /\ rejected' = FALSE /\ disturbed' = disturbed
  BY KnownParts DEF Sheets!Refused
<1> QED
  BY <1>1, KnownParts, EndKeeps

(* A call that is refused when it begins. *)
LEMMA DeniedKeeps ==
  ASSUME SheetsKnown, OneSheetInv, NEW c \in Client, Sheets!End(c, "idle"),
         UNCHANGED <<files, sheets, sheet, disturbed, raced>>,
         called' \in 0 .. MaxCalled, failed' \in 0 .. MaxFailed, rejected' = FALSE
  PROVE  SheetsInv'
<1>1. location[c] = "idle"
  BY DEF Sheets!End, Sheets!Goto
<1>2. sheets[c].id # 0 /\ ~disturbed[c] => Shows(sheets[c], files[sheets[c].id])
  BY <1>1, KnownParts DEF ProgramOK
<1> QED
  BY <1>2, KnownParts, EndKeeps

(* A request that changes the tabs: a batchUpdate, after which come the refresh  *)
(* or the update that arranges a copy, or a reset.                              *)
LEMMA RequestKnown ==
  ASSUME SheetsKnown, NEW c \in Client, sheets[c].id # 0,
         NEW f \in Sheets!File, TabsOK(f), Sheets!Changes(c, f),
         NEW l \in {"refresh", "arrange", "create"}, location' = [location EXCEPT ![c] = l],
         NEW t \in SheetCall, call' = [call EXCEPT ![c] = t],
         UNCHANGED <<sheets, rejected>>, raced' \in BOOLEAN,
         called' \in 0 .. MaxCalled, failed' \in 0 .. MaxFailed,
         l # "create" => f.exists = TRUE,
         t.then \in {"return", "frame", "reset"}, t.then = "frame" => l = "refresh" /\ Placed(f, t),
         t.then = "reset" => l = "create", l = "arrange" => t.then = "return",
         l = "arrange" /\ ~disturbed[c] => Arrangeable(f, t)
  PROVE  SheetsKnown'
<1> PICK k : k = sheets[c].id
  OBVIOUS
<1>1. /\ files \in Seq(Sheets!File) /\ Len(files) \in Nat /\ DOMAIN files = 1 .. Len(files) /\ k \in DOMAIN files
      /\ files' = [files EXCEPT ![k] = f]
  BY KnownParts DEF Sheets!Changes
<1>2. /\ files' \in Seq(Sheets!File) /\ Len(files') = Len(files) /\ DOMAIN files' = DOMAIN files
      /\ files'[k] = f /\ \A j \in DOMAIN files : j # k => files'[j] = files[j]
  BY <1>1
<1>3. l \in Sheets!Location /\ location'[c] = l /\ call'[c] = t /\ rejected' = FALSE
  BY KnownParts DEF Sheets!Location
<1>4. /\ disturbed' \in [Client -> BOOLEAN] /\ crossed' \in [Client -> BOOLEAN]
      /\ sheet' \in [Client -> Sheets!SheetObject \cup {None}]
      /\ disturbed'[c] = disturbed[c] /\ sheet'[c] = Aged(sheet[c])
  <2>1. disturbed' \in [Client -> BOOLEAN] /\ crossed' \in [Client -> BOOLEAN] /\ disturbed'[c] = disturbed[c]
    BY KnownParts DEF Sheets!Changes
  <2>2. \A d \in Client : sheet'[d] \in {sheet[d], Aged(sheet[d])}
    BY DEF Sheets!Changes, Aged
  <2>3. \A d \in Client : Aged(sheet[d]) \in Sheets!SheetObject \cup {None}
    <3> SUFFICES ASSUME NEW d \in Client PROVE Aged(sheet[d]) \in Sheets!SheetObject \cup {None}
      OBVIOUS
    <3>1. sheet[d] \in Sheets!SheetObject \cup {None}
      BY KnownParts
    <3>2. CASE sheet[d] = None
      BY <3>2 DEF Aged
    <3>3. CASE sheet[d] \in Sheets!SheetObject
      BY <3>3 DEF Aged, Sheets!SheetObject
    <3> QED
      BY <3>1, <3>2, <3>3
  <2>4. sheet' \in [Client -> Sheets!SheetObject \cup {None}]
    <3>1. \A d \in Client : sheet[d] \in Sheets!SheetObject \cup {None}
      BY KnownParts
    <3>2. sheet' = [d \in Client |-> sheet'[d]]
      BY DEF Sheets!Changes
    <3> QED
      BY <2>2, <2>3, <3>1, <3>2
  <2>5. sheet'[c] = Aged(sheet[c])
    BY DEF Sheets!Changes, Aged
  <2> QED
    BY <2>1, <2>4, <2>5
<1>5. SheetsTypes'
  <2>1. /\ location' \in [Client -> Sheets!Location] /\ call' \in [Client -> SheetCall]
        /\ sheets' \in [Client -> Objects(Len(files'))]
    BY <1>2, <1>3, KnownParts
  <2> QED
    BY <1>2, <1>4, <2>1 DEF SheetsTypes
<1>6. Own(c)
  BY KnownParts DEF Own
<1>7. Knows(c)'
  <2>1. ProgramOK(files, sheets[c], sheet[c], location[c], call[c], disturbed[c], crossed[c])
    BY KnownParts
  <2>2. /\ SheetOK(files', sheets[c], sheet'[c])
        /\ t.then # "rebind" /\ l # "write" /\ l # "retrieve" /\ l # "idle" /\ l # "template"
    <3>1. sheet[c] \in Sheets!SheetObject \cup {None}
      BY KnownParts
    <3>2. CASE sheet[c] = None
      BY <1>4, <3>2 DEF Aged, SheetOK
    <3>3. CASE sheet[c] \in Sheets!SheetObject
      <4>1. PICK r : r = [sheet[c] EXCEPT !.current = FALSE]
        OBVIOUS
      <4>2. r.current = FALSE
        BY <3>3, <4>1 DEF Sheets!SheetObject
      <4>3. sheet'[c] = r
        BY <1>4, <3>3, <4>1, SheetsConstants DEF Aged
      <4> QED
        BY <4>2, <4>3 DEF SheetOK
    <3> QED
      BY <3>1, <3>2, <3>3
  <2>3. ProgramOK(files', sheets[c], sheet'[c], l, t, disturbed[c], crossed'[c])
    BY <1>2, <2>1, <2>2 DEF ProgramOK
  <2> QED
    BY <1>3, <1>4, <2>3 DEF Knows
<1> QED
  BY <1>3, <1>5, <1>6, <1>7, ChangedKnown

(* Of a spreadsheet that stays: a batchUpdate that the service accepts.          *)
LEMMA RequestKeeps ==
  ASSUME SheetsKnown, OneSheetInv, NEW c \in Client, sheets[c].id # 0, ~Sheets!Creating(c),
         NEW f \in Sheets!File, TabsOK(f), f.exists = TRUE, files[sheets[c].id].exists, Sheets!Changes(c, f),
         NEW l \in {"refresh", "arrange"}, location' = [location EXCEPT ![c] = l],
         NEW t \in SheetCall, call' = [call EXCEPT ![c] = t],
         UNCHANGED <<sheets, rejected, raced>>,
         called' \in 0 .. MaxCalled, failed' \in 0 .. MaxFailed,
         t.then \in {"return", "frame"}, t.then = "frame" => l = "refresh" /\ Placed(f, t),
         l = "arrange" /\ ~disturbed[c] => Arrangeable(f, t)
  PROVE  SheetsInv'
<1>1. SheetsKnown'
  <2>1. raced' \in BOOLEAN /\ l \in {"refresh", "arrange", "create"} /\ UNCHANGED <<sheets, rejected>>
    BY KnownParts
  <2>2. t.then \in {"return", "frame", "reset"} /\ t.then # "reset" /\ (l = "arrange" => t.then = "return")
    OBVIOUS
  <2> QED
    BY <2>1, <2>2, RequestKnown
<1>2. OneSheetInv'
  <2>1. \A j \in Sheets!Namesakes' : j \in Sheets!Namesakes
    <3>1. /\ sheets[c].id \in DOMAIN files /\ DOMAIN files' = DOMAIN files
          /\ \A j \in DOMAIN files : j # sheets[c].id => files'[j] = files[j]
      BY KnownParts DEF Sheets!Changes
    <3> QED
      BY <3>1 DEF Sheets!Namesakes
  <2>2. \A d \in Client : Sheets!Creating(d)' => Sheets!Creating(d)
    BY KnownParts DEF Sheets!Creating
  <2> QED
    BY <2>1, <2>2, OneKept
<1> QED
  BY <1>1, <1>2 DEF SheetsInv

LEMMA CallCounted ==
  ASSUME SheetsKnown, NEW c \in Client, Sheets!Call(c)
  PROVE  called' \in 0 .. MaxCalled
<1>1. called \in 0 .. MaxCalled /\ MaxCalled \in Nat
  BY KnownParts, SheetsConstants
<1>2. called < MaxCalled /\ called' = called + 1
  BY DEF Sheets!Call
<1> QED
  BY <1>1, <1>2

LEMMA GetSheetsKeeps ==
  ASSUME SheetsKnown, OneSheetInv, NEW c \in Client, NEW template \in BOOLEAN, Sheets!Get(c, template)
  PROVE  SheetsInv'
<1> PICK l \in {"retrieve", "template", "create"} :
         /\ Sheets!Goto(c, "idle", l)
         /\ l = "retrieve" => /\ \E f \in Sheets!Namesakes : Sheets!SetTask(c, Sheets!Task(None, None, f, "return"))
                              /\ UNCHANGED raced
         /\ l # "retrieve" => /\ Sheets!Namesakes = {} /\ Sheets!Races(c)
                              /\ Sheets!SetTask(c, Sheets!NoTask)
  BY DEF Sheets!Get
<1>1. /\ location[c] = "idle" /\ location' = [location EXCEPT ![c] = l] /\ l \in Sheets!Location
      /\ UNCHANGED <<files, sheets, sheet, disturbed, crossed, rejected, failed>>
      /\ called' \in 0 .. MaxCalled
  BY CallCounted DEF Sheets!Get, Sheets!Goto, Sheets!Location
<1>2. PICK t \in SheetCall :
        /\ call' = [call EXCEPT ![c] = t] /\ t.then = "return"
        /\ l = "retrieve" => t.id \in DOMAIN files \ {1}
  <2>1. CASE l = "retrieve"
    <3>1. PICK f \in Sheets!Namesakes : Sheets!SetTask(c, Sheets!Task(None, None, f, "return"))
      BY <2>1
    <3>2. f \in DOMAIN files \ {1} /\ f \in Nat
      BY KnownParts DEF Sheets!Namesakes
    <3>3. Sheets!Task(None, None, f, "return") \in SheetCall
      BY <3>2 DEF SheetCall, Sheets!Task
    <3> QED
      BY <3>1, <3>2, <3>3 DEF Sheets!SetTask, Sheets!Task
  <2>2. CASE l # "retrieve"
    BY <2>2, NoCall DEF Sheets!SetTask
  <2> QED
    BY <2>1, <2>2
<1>3. raced' \in BOOLEAN
  BY KnownParts DEF Sheets!Races
<1>4. SheetsTypes'
  BY <1>1, <1>2, <1>3, KnownParts DEF SheetsTypes
<1>5. Own(c) /\ Alone(c)
  BY <1>1, <1>2, KnownParts DEF Own, Alone
<1>6. Knows(c)'
  <2>1. location'[c] = l /\ call'[c] = t
    BY <1>1, <1>2, KnownParts
  <2>2. ProgramOK(files, sheets[c], sheet[c], "idle", call[c], disturbed[c], crossed[c])
    BY <1>1, KnownParts
  <2>3. ProgramOK(files, sheets[c], sheet[c], l, t, disturbed[c], crossed[c])
    BY <1>2, <2>2 DEF ProgramOK
  <2> QED
    BY <1>1, <2>1, <2>3 DEF Knows
<1>7. SheetsKnown'
  BY <1>1, <1>4, <1>5, <1>6, KnownParts, AloneKnown
<1>8. Sheets!Namesakes' = Sheets!Namesakes
  BY <1>1 DEF Sheets!Namesakes
<1>9. OneSheetInv'
  <2>1. CASE l = "retrieve"
    <3>1. \A d \in Client : Sheets!Creating(d)' => Sheets!Creating(d)
      BY <1>1, <2>1, KnownParts DEF Sheets!Creating
    <3> QED
      BY <1>8, <2>1, <3>1, OneKept
  <2>2. CASE l # "retrieve"
    BY <1>1, <1>8, <2>2, OneBegun
  <2> QED
    BY <2>1, <2>2
<1> QED
  BY <1>7, <1>9 DEF SheetsInv

(* The Sheets object that is bound to a spreadsheet. *)
LEMMA Bound ==
  ASSUME NEW fs \in Seq(Sheets!File), NEW id \in DOMAIN fs, id # 1, fs[id].exists,
         NEW o, o = [id |-> id, tabs |-> Sheets!Snapshot(fs[id])],
         NEW s, s # None => s.current = FALSE
  PROVE  o \in Objects(Len(fs)) /\ ProgramOK(fs, o, s, "idle", Sheets!NoTask, FALSE, FALSE)
<1>1. fs[id] \in Sheets!File /\ id \in 0 .. Len(fs)
  OBVIOUS
<1>2. Sheets!Snapshot(fs[id]) \in Seq(Sheets!CachedTab)
  BY <1>1, PayloadParts
<1>3. o \in Objects(Len(fs)) /\ o.id = id /\ Shows(o, fs[o.id])
  BY <1>1, <1>2 DEF Objects, Shows
<1> QED
  BY <1>3, NoCall DEF ProgramOK, SheetOK

LEMMA RetrieveSheetsKeeps ==
  ASSUME SheetsKnown, OneSheetInv, NEW c \in Client, Sheets!Retrieve(c)
  PROVE  SheetsInv'
<1> PICK id : id = call[c].id
  OBVIOUS
<1> PICK o : o = [id |-> id, tabs |-> Sheets!Snapshot(files[id])]
  OBVIOUS
<1>1. /\ location[c] = "retrieve" /\ location' = [location EXCEPT ![c] = "idle"]
      /\ call' = [call EXCEPT ![c] = Sheets!NoTask] /\ crossed' = [crossed EXCEPT ![c] = FALSE]
      /\ sheets' = [sheets EXCEPT ![c] = o] /\ disturbed' = [disturbed EXCEPT ![c] = FALSE]
      /\ files[id].exists
      /\ UNCHANGED <<files, rejected, raced, called, failed>>
  BY DEF Sheets!Retrieve, Sheets!End, Sheets!Goto, Sheets!SetTask, Sheets!Binds
<1>2. id \in DOMAIN files \ {1} /\ call[c].then = "return" /\ files \in Seq(Sheets!File)
  BY <1>1, KnownParts DEF ProgramOK
<1>3. sheet' = [sheet EXCEPT ![c] = None]
  BY <1>2 DEF Sheets!Retrieve, Sheets!Binds
<1>4. o \in Objects(Len(files)) /\ ProgramOK(files, o, None, "idle", Sheets!NoTask, FALSE, FALSE)
  BY <1>1, <1>2, Bound
<1>5. SheetsTypes'
  BY <1>1, <1>3, <1>4, KnownParts, NoCall DEF SheetsTypes
<1>6. Own(c) /\ Alone(c)
  BY <1>1, <1>3, KnownParts DEF Own, Alone
<1>7. Knows(c)'
  <2>1. /\ location'[c] = "idle" /\ call'[c] = Sheets!NoTask /\ sheets'[c] = o /\ sheet'[c] = None
        /\ disturbed'[c] = FALSE /\ crossed'[c] = FALSE
    BY <1>1, <1>3, KnownParts
  <2> QED
    BY <1>1, <1>4, <2>1 DEF Knows
<1>8. SheetsKnown'
  BY <1>1, <1>5, <1>6, <1>7, KnownParts, AloneKnown
<1>9. OneSheetInv'
  <2>1. \A d \in Client : Sheets!Creating(d)' => Sheets!Creating(d)
    BY <1>1, KnownParts DEF Sheets!Creating
  <2>2. \A k \in Sheets!Namesakes' : k \in Sheets!Namesakes
    BY <1>1 DEF Sheets!Namesakes
  <2> QED
    BY <1>1, <2>1, <2>2, OneKept
<1> QED
  BY <1>8, <1>9 DEF SheetsInv

(* The new spreadsheet. *)
LEMMA Appended ==
  ASSUME SheetsKnown, NEW f \in Sheets!File, NEW fs, fs = Append(files, f)
  PROVE  /\ fs \in Seq(Sheets!File) /\ Len(fs) = Len(files) + 1 /\ Len(files) \in Nat
         /\ fs[Len(files) + 1] = f /\ Len(files) + 1 \in DOMAIN fs /\ Len(files) + 1 # 1
         /\ sheets \in [Client -> Objects(Len(fs))]
<1>1. files \in Seq(Sheets!File) /\ 1 \in DOMAIN files /\ sheets \in [Client -> Objects(Len(files))]
  BY DEF SheetsKnown, SheetsTypes
<1>2. /\ fs \in Seq(Sheets!File) /\ Len(fs) = Len(files) + 1 /\ Len(files) \in Nat
      /\ fs[Len(files) + 1] = f /\ Len(files) + 1 \in DOMAIN fs /\ Len(files) + 1 # 1
  BY <1>1
<1>3. \A o \in Objects(Len(files)) : o \in Objects(Len(fs))
  BY <1>2 DEF Objects
<1> QED
  BY <1>1, <1>2, <1>3

LEMMA CopyTemplateKeeps ==
  ASSUME SheetsKnown, OneSheetInv, NEW c \in Client, Sheets!CopyTemplate(c)
  PROVE  SheetsInv'
<1>f. PICK f : f = Sheets!Blank(2)
  OBVIOUS
<1>g. PICK fs : fs = Append(files, f)
  OBVIOUS
<1>t. PICK t : t = Sheets!Task(None, None, Len(files) + 1, "return")
  OBVIOUS
<1>1. f \in Sheets!File /\ TabsOK(f)
  BY <1>f, BlankFile
<1>2. /\ location[c] = "template" /\ location' = [location EXCEPT ![c] = "retrieve"]
      /\ call' = [call EXCEPT ![c] = t] /\ files' = Append(files, f) /\ files' = fs
      /\ UNCHANGED <<sheets, sheet, disturbed, crossed, rejected, raced, called, failed>>
  BY <1>f, <1>g, <1>t DEF Sheets!CopyTemplate, Sheets!Goto, Sheets!SetTask
<1>3. /\ fs \in Seq(Sheets!File) /\ Len(fs) = Len(files) + 1 /\ Len(files) \in Nat
      /\ Len(files) + 1 \in DOMAIN fs /\ Len(files) + 1 # 1
      /\ sheets \in [Client -> Objects(Len(fs))]
  BY <1>1, <1>g, Appended
<1>4. t \in SheetCall /\ t.then = "return" /\ t.id = Len(files) + 1
  BY <1>3, <1>t DEF SheetCall, Sheets!Task
<1>5. "retrieve" \in Sheets!Location
  BY DEF Sheets!Location
<1>6. SheetsTypes'
  <2>1. sheets' \in [Client -> Objects(Len(fs))]
    BY <1>2, <1>3
  <2> QED
    BY <1>2, <1>3, <1>4, <1>5, <2>1, KnownParts DEF SheetsTypes
<1>7. Own(c) /\ Alone(c)
  BY <1>2, KnownParts DEF Own, Alone
<1>8. Knows(c)'
  <2>1. location'[c] = "retrieve" /\ call'[c] = t
    BY <1>2, KnownParts
  <2>2. /\ ProgramOK(files, sheets[c], sheet[c], "template", call[c], disturbed[c], crossed[c])
        /\ sheets[c] \in Objects(Len(files)) /\ files \in Seq(Sheets!File)
    BY <1>2, KnownParts
  <2>3. ProgramOK(fs, sheets[c], sheet[c], "template", call[c], disturbed[c], crossed[c])
    BY <1>1, <1>g, <2>2, NewSheets
  <2>4. ProgramOK(fs, sheets[c], sheet[c], "retrieve", t, disturbed[c], crossed[c])
    BY <1>3, <1>4, <2>3 DEF ProgramOK
  <2> QED
    BY <1>2, <2>1, <2>4 DEF Knows
<1>9. SheetsKnown'
  BY <1>1, <1>2, <1>6, <1>7, <1>8, KnownParts, CreatedKnown
<1>10. OneSheetInv'
  <2>1. Sheets!Creating(c)
    BY <1>2 DEF Sheets!Creating
  <2> QED
    BY <1>2, <2>1, OneCreated
<1> QED
  BY <1>9, <1>10 DEF SheetsInv

LEMMA CreateNewKeeps ==
  ASSUME SheetsKnown, OneSheetInv, NEW c \in Client, Sheets!CreateNew(c)
  PROVE  SheetsInv'
<1>f. PICK f : f = Sheets!Blank(1)
  OBVIOUS
<1>g. PICK fs : fs = Append(files, f)
  OBVIOUS
<1>i. PICK id : id = Len(files) + 1
  OBVIOUS
<1>o. PICK o : o = [id |-> id, tabs |-> Sheets!Snapshot(f)]
  OBVIOUS
<1>s. PICK s : s = IF call[c].then = "reset" /\ sheet[c] # None THEN [sheet[c] EXCEPT !.current = FALSE] ELSE None
  OBVIOUS
<1>1. f \in Sheets!File /\ TabsOK(f) /\ f.exists = TRUE
  BY <1>f, BlankFile
<1>2. /\ location[c] = "create" /\ location' = [location EXCEPT ![c] = "idle"]
      /\ call' = [call EXCEPT ![c] = Sheets!NoTask] /\ crossed' = [crossed EXCEPT ![c] = FALSE]
      /\ files' = Append(files, f) /\ files' = fs
      /\ sheets' = [sheets EXCEPT ![c] = o] /\ disturbed' = [disturbed EXCEPT ![c] = FALSE]
      /\ sheet' = [sheet EXCEPT ![c] = s]
      /\ UNCHANGED <<rejected, raced, called, failed>>
  BY <1>f, <1>g, <1>i, <1>o, <1>s DEF Sheets!CreateNew, Sheets!End, Sheets!Goto, Sheets!SetTask, Sheets!Binds
<1>3. /\ fs \in Seq(Sheets!File) /\ Len(fs) = Len(files) + 1 /\ Len(files) \in Nat /\ fs[id] = f
      /\ id \in DOMAIN fs /\ id # 1 /\ sheets \in [Client -> Objects(Len(fs))]
  BY <1>1, <1>g, <1>i, Appended
<1>4. s \in Sheets!SheetObject \cup {None} /\ (s # None => s.current = FALSE)
  <2>1. sheet[c] \in Sheets!SheetObject \cup {None}
    BY KnownParts
  <2>2. CASE s = None
    BY <2>2
  <2>3. CASE sheet[c] \in Sheets!SheetObject /\ s = [sheet[c] EXCEPT !.current = FALSE]
    BY <2>3 DEF Sheets!SheetObject
  <2> QED
    BY <1>s, <2>1, <2>2, <2>3
<1>5. o \in Objects(Len(fs)) /\ ProgramOK(fs, o, s, "idle", Sheets!NoTask, FALSE, FALSE)
  <2>1. o = [id |-> id, tabs |-> Sheets!Snapshot(fs[id])] /\ fs[id].exists
    BY <1>1, <1>3, <1>o
  <2> QED
    BY <1>3, <1>4, <2>1, Bound
<1>6. SheetsTypes'
  <2>1. sheets' \in [Client -> Objects(Len(fs))]
    BY <1>2, <1>3, <1>5
  <2> QED
    BY <1>2, <1>3, <1>4, <2>1, KnownParts, NoCall DEF SheetsTypes
<1>7. Own(c) /\ Alone(c)
  BY <1>2, KnownParts DEF Own, Alone
<1>8. Knows(c)'
  <2>1. /\ location'[c] = "idle" /\ call'[c] = Sheets!NoTask /\ sheets'[c] = o /\ sheet'[c] = s
        /\ disturbed'[c] = FALSE /\ crossed'[c] = FALSE
    BY <1>2, KnownParts
  <2> QED
    BY <1>2, <1>5, <2>1 DEF Knows
<1>9. SheetsKnown'
  BY <1>1, <1>2, <1>6, <1>7, <1>8, KnownParts, CreatedKnown
<1>10. OneSheetInv'
  <2>1. Sheets!Creating(c)
    BY <1>2 DEF Sheets!Creating
  <2> QED
    BY <1>2, <2>1, OneCreated
<1> QED
  BY <1>9, <1>10 DEF SheetsInv

LEMMA CreateNewLostKeeps ==
  ASSUME SheetsKnown, OneSheetInv, NEW c \in Client, Sheets!CreateNewLost(c)
  PROVE  SheetsInv'
<1>f. PICK f : f = Sheets!Blank(1)
  OBVIOUS
<1>g. PICK fs : fs = Append(files, f)
  OBVIOUS
<1>1. f \in Sheets!File /\ TabsOK(f)
  BY <1>f, BlankFile
<1>2. /\ location[c] = "create" /\ location' = [location EXCEPT ![c] = "idle"]
      /\ call' = [call EXCEPT ![c] = Sheets!NoTask] /\ crossed' = [crossed EXCEPT ![c] = FALSE]
      /\ files' = Append(files, f) /\ files' = fs /\ disturbed' = [disturbed EXCEPT ![c] = TRUE]
      /\ UNCHANGED <<sheets, sheet, rejected, raced, called>>
      /\ failed < MaxFailed /\ failed' = failed + 1
  BY <1>f, <1>g DEF Sheets!CreateNewLost, Sheets!End, Sheets!Goto, Sheets!SetTask
<1>3. fs \in Seq(Sheets!File) /\ sheets \in [Client -> Objects(Len(fs))]
  BY <1>1, <1>g, Appended
<1>4. SheetsTypes'
  <2>1. sheets' \in [Client -> Objects(Len(fs))]
    BY <1>2, <1>3
  <2>2. failed' \in 0 .. MaxFailed
    <3>1. failed \in 0 .. MaxFailed /\ MaxFailed \in Nat
      BY KnownParts, SheetsConstants
    <3> QED
      BY <1>2, <3>1
  <2> QED
    BY <1>2, <1>3, <2>1, <2>2, KnownParts, NoCall DEF SheetsTypes
<1>5. Own(c) /\ Alone(c)
  BY <1>2, KnownParts DEF Own, Alone
<1>6. Knows(c)'
  <2>1. /\ location'[c] = "idle" /\ call'[c] = Sheets!NoTask /\ disturbed'[c] = TRUE /\ crossed'[c] = FALSE
    BY <1>2, KnownParts
  <2>2. /\ ProgramOK(files, sheets[c], sheet[c], "create", call[c], disturbed[c], crossed[c])
        /\ sheets[c] \in Objects(Len(files)) /\ files \in Seq(Sheets!File)
    BY <1>2, KnownParts
  <2>3. ProgramOK(fs, sheets[c], sheet[c], "create", call[c], disturbed[c], crossed[c])
    BY <1>1, <1>g, <2>2, NewSheets
  <2>4. ProgramOK(fs, sheets[c], sheet[c], "idle", Sheets!NoTask, TRUE, FALSE)
    BY <2>3, IdleOK
  <2> QED
    BY <1>2, <2>1, <2>4 DEF Knows
<1>7. SheetsKnown'
  BY <1>1, <1>2, <1>4, <1>5, <1>6, KnownParts, CreatedKnown
<1>8. OneSheetInv'
  <2>1. Sheets!Creating(c)
    BY <1>2 DEF Sheets!Creating
  <2> QED
    BY <1>2, <2>1, OneCreated
<1> QED
  BY <1>7, <1>8 DEF SheetsInv

LEMMA ResetSheetsKeeps ==
  ASSUME SheetsKnown, OneSheetInv, NEW c \in Client, Sheets!Reset(c)
  PROVE  SheetsInv'
<1>1. /\ location[c] = "idle" /\ sheets[c].id # 0 /\ called' \in 0 .. MaxCalled /\ failed' \in 0 .. MaxFailed
  BY CallCounted, KnownParts DEF Sheets!Reset, Sheets!Goto, Sheets!Refused, Sheets!End
<1>2. CASE files[sheets[c].id].exists
  <2>k. PICK k : k = sheets[c].id
    OBVIOUS
  <2>f. PICK f : f = [files[k] EXCEPT !.exists = FALSE, !.tabs = <<>>]
    OBVIOUS
  <2>t. PICK t : t = Sheets!Task(None, None, 0, "reset")
    OBVIOUS
  <2>l. PICK l : l = "create"
    OBVIOUS
  <2>1. /\ location' = [location EXCEPT ![c] = l] /\ call' = [call EXCEPT ![c] = t] /\ Sheets!Changes(c, f)
        /\ UNCHANGED <<sheets, rejected>> /\ Sheets!Races(c)
    BY <1>2, <2>k, <2>f, <2>t, <2>l DEF Sheets!Reset, Sheets!Goto, Sheets!SetTask, Sheets!Remote
  <2>2. files[k] \in Sheets!File /\ k \in DOMAIN files /\ k # 1 /\ files[k].exists
    BY <1>1, <1>2, <2>k, KnownParts DEF ProgramOK
  <2>3. f \in Sheets!File /\ TabsOK(f) /\ f.exists = FALSE
    <3>q. PICK q : q = <<>>
      OBVIOUS
    <3>b. PICK b \in BOOLEAN : b = FALSE
      OBVIOUS
    <3>0. q \in Seq(Sheets!Tab)
      BY <3>q
    <3>1. f = [files[k] EXCEPT !.exists = b, !.tabs = q]
      BY <2>f, <3>q, <3>b
    <3>2. f \in Sheets!File /\ f.exists = b /\ f.tabs = q
      BY <2>2, <3>0, <3>1 DEF Sheets!File
    <3>3. DOMAIN f.tabs = {}
      BY <3>q, <3>2
    <3> QED
      BY <3>b, <3>2, <3>3 DEF TabsOK
  <2>4. t \in SheetCall /\ t.then = "reset"
    BY <2>t DEF SheetCall, Sheets!Task
  <2>5. raced' \in BOOLEAN
    BY <2>1, KnownParts DEF Sheets!Races
  <2>6. SheetsKnown'
    <3>1. /\ l \in {"refresh", "arrange", "create"} /\ l = "create"
          /\ t.then \in {"return", "frame", "reset"} /\ t.then # "frame"
      BY <2>l, <2>4
    <3> QED
      BY <1>1, <2>1, <2>3, <2>4, <2>5, <3>1, RequestKnown
  <2>7. ASSUME ~raced' PROVE Sheets!Namesakes' = {}
    <3>1. ~raced
      BY <2>1, <2>7 DEF Sheets!Races
    <3>2. \A j \in Sheets!Namesakes : j = k
      <4>1. k \in Sheets!Namesakes
        BY <2>2 DEF Sheets!Namesakes
      <4> QED
        BY <3>1, <4>1 DEF OneSheetInv
    <3>3. /\ files' = [files EXCEPT ![k] = f] /\ files \in Seq(Sheets!File)
      BY <2>1, <2>k, KnownParts DEF Sheets!Changes
    <3>4. DOMAIN files' = DOMAIN files /\ files'[k] = f /\ \A j \in DOMAIN files : j # k => files'[j] = files[j]
      BY <2>2, <3>3
    <3> QED
      BY <2>3, <3>2, <3>4 DEF Sheets!Namesakes
  <2>8. OneSheetInv'
    <3>1. CASE ~raced'
      <4>1. l \in Sheets!Location
        BY <2>l DEF Sheets!Location
      <4> QED
        BY <2>1, <2>7, <3>1, <4>1, OneBegun
    <3>2. CASE raced'
      BY <3>2 DEF OneSheetInv
    <3> QED
      BY <3>1, <3>2
  <2> QED
    BY <2>6, <2>8 DEF SheetsInv
<1>3. CASE ~files[sheets[c].id].exists
  <2>1. Sheets!End(c, "idle") /\ UNCHANGED <<files, sheets, sheet, disturbed, raced>> /\ rejected' = (rejected \/ ~disturbed[c])
    BY <1>3 DEF Sheets!Reset, Sheets!Remote, Sheets!Refused
  <2>2. disturbed[c]
    BY <1>1, <1>3, KnownParts DEF ProgramOK, Shows
  <2>3. rejected' = FALSE
    BY <2>1, <2>2, KnownParts
  <2> QED
    BY <1>1, <2>1, <2>3, DeniedKeeps
<1> QED
  BY <1>2, <1>3

(* sheet(n) takes the tab that the payload has there.                            *)
LEMMA SheetNumberKeeps ==
  ASSUME SheetsKnown, OneSheetInv, NEW c \in Client, NEW n, Sheets!SheetNumber(c, n)
  PROVE  SheetsInv'
<1>t. PICK tab : tab = sheets[c].tabs[n]
  OBVIOUS
<1>s. PICK s : s = [id |-> tab.id, title |-> tab.title, index |-> n - 1, current |-> ~disturbed[c]]
  OBVIOUS
<1>1. /\ location[c] = "idle" /\ n \in DOMAIN sheets[c].tabs /\ sheet' = [sheet EXCEPT ![c] = s]
      /\ UNCHANGED <<files, sheets, location, call, disturbed, crossed, rejected, raced, called, failed>>
  BY <1>t, <1>s DEF Sheets!SheetNumber
<1>2. n \in Nat \ {0} /\ tab \in Sheets!CachedTab
  <2>1. sheets[c].tabs \in Seq(Sheets!CachedTab)
    BY KnownParts
  <2> QED
    BY <1>1, <1>t, <2>1
<1>3. s \in Sheets!SheetObject
  <2>1. disturbed[c] \in BOOLEAN
    BY KnownParts
  <2> QED
    BY <1>2, <1>s, <2>1 DEF Sheets!SheetObject, Sheets!CachedTab
<1>4. SheetsTypes'
  BY <1>1, <1>3, KnownParts DEF SheetsTypes
<1>5. Own(c) /\ Alone(c)
  BY <1>1, KnownParts DEF Own, Alone
<1>6. Knows(c)'
  <2>1. ProgramOK(files, sheets[c], sheet[c], "idle", call[c], disturbed[c], crossed[c])
    BY <1>1, KnownParts
  <2>2. SheetOK(files, sheets[c], s)
    <3> SUFFICES ASSUME s.current
                 PROVE  /\ sheets[c].id # 0 /\ Shows(sheets[c], files[sheets[c].id])
                        /\ s.index + 1 \in DOMAIN sheets[c].tabs
                        /\ sheets[c].tabs[s.index + 1] = [id |-> s.id, title |-> s.title]
      BY DEF SheetOK
    <3>1. ~disturbed[c] /\ s.id = tab.id /\ s.title = tab.title /\ s.index = n - 1
      BY <1>s
    <3>2. s.index + 1 = n
      BY <1>2, <3>1
    <3>3. tab = [id |-> tab.id, title |-> tab.title]
      BY <1>2 DEF Sheets!CachedTab
    <3>4. sheets[c].id # 0
      <4>1. sheets[c].tabs # <<>>
        BY <1>1
      <4> QED
        BY <2>1, <4>1 DEF ProgramOK
    <3> QED
      BY <1>1, <1>t, <2>1, <3>1, <3>2, <3>3, <3>4 DEF ProgramOK
  <2>3. ProgramOK(files, sheets[c], s, "idle", call[c], disturbed[c], crossed[c])
    BY <2>1, <2>2 DEF ProgramOK
  <2>4. sheet'[c] = s
    BY <1>1, KnownParts
  <2> QED
    BY <1>1, <2>3, <2>4 DEF Knows
<1>7. SheetsKnown'
  BY <1>1, <1>4, <1>5, <1>6, KnownParts, AloneKnown
<1>8. OneSheetInv'
  BY <1>1, OneKept DEF Sheets!Namesakes, Sheets!Creating
<1> QED
  BY <1>7, <1>8 DEF SheetsInv

\* The tabs of the payload p are those of the spreadsheet f.
Mirrors(p, f) ==
  /\ Len(p) = Len(f.tabs) /\ DOMAIN p = DOMAIN f.tabs
  /\ \A i \in DOMAIN f.tabs : p[i].id = f.tabs[i].id /\ p[i].title = f.tabs[i].title

LEMMA Mirrored ==
  ASSUME NEW f \in Sheets!File, NEW p, p = Sheets!Snapshot(f)
  PROVE  Mirrors(p, f)
BY PayloadParts DEF Mirrors

(* What a program knows from a payload that shows the spreadsheet as it is.      *)
LEMMA PayloadFresh ==
  ASSUME SheetsKnown, NEW c \in Client, sheets[c].id # 0,
         NEW f, f = files[sheets[c].id], Shows(sheets[c], f)
  PROVE  /\ f \in Sheets!File /\ f.exists /\ Sheets!CachedTitles(c) = Sheets!Titles(f)
         /\ Len(sheets[c].tabs) = Len(f.tabs) /\ DOMAIN sheets[c].tabs = DOMAIN f.tabs
         /\ \A i \in DOMAIN f.tabs :
              /\ sheets[c].tabs[i].id = f.tabs[i].id /\ sheets[c].tabs[i].title = f.tabs[i].title
              /\ f.tabs[i].id \in Sheets!Ids(f)
<1>p. PICK p : p = sheets[c].tabs
  OBVIOUS
<1>1. f \in Sheets!File
  BY KnownParts
<1>2. p = Sheets!Snapshot(f) /\ f.exists
  BY <1>p DEF Shows
<1>3. /\ Len(p) = Len(f.tabs) /\ DOMAIN p = DOMAIN f.tabs
      /\ \A i \in DOMAIN f.tabs : p[i].id = f.tabs[i].id /\ p[i].title = f.tabs[i].title
  <2>1. Mirrors(p, f)
    BY <1>1, <1>2, Mirrored
  <2> QED
    BY <2>1 DEF Mirrors
<1>4. Sheets!CachedTitles(c) = Sheets!Titles(f)
  <2>1. Sheets!CachedTitles(c) = {p[i].title : i \in DOMAIN p}
    BY <1>p DEF Sheets!CachedTitles
  <2> QED
    BY <1>3, <2>1 DEF Sheets!Titles
<1>5. \A i \in DOMAIN f.tabs : f.tabs[i].id \in Sheets!Ids(f)
  BY DEF Sheets!Ids
<1> QED
  BY <1>1, <1>2, <1>3, <1>4, <1>5, <1>p

(* A Sheet that nobody came in the way of.                                       *)
LEMMA SheetFresh ==
  ASSUME SheetsKnown, NEW c \in Client, sheet[c] # None, sheet[c].current,
         NEW f, f = files[sheets[c].id], NEW n, n = sheet[c].index + 1
  PROVE  /\ sheets[c].id # 0 /\ Shows(sheets[c], f)
         /\ n \in DOMAIN f.tabs /\ n \in DOMAIN sheets[c].tabs
         /\ sheets[c].tabs[n].id = sheet[c].id /\ sheets[c].tabs[n].title = sheet[c].title
         /\ f.tabs[n].id = sheet[c].id /\ f.tabs[n].title = sheet[c].title
         /\ sheet[c].id \in Sheets!Ids(f) /\ sheet[c].title \in Sheets!Titles(f)
<1>1. SheetOK(files, sheets[c], sheet[c])
  BY KnownParts DEF ProgramOK
<1>2. /\ sheets[c].id # 0 /\ Shows(sheets[c], f) /\ n \in DOMAIN sheets[c].tabs
      /\ sheets[c].tabs[n] = [id |-> sheet[c].id, title |-> sheet[c].title]
  BY <1>1 DEF SheetOK
<1>3. sheets[c].tabs[n].id = sheet[c].id /\ sheets[c].tabs[n].title = sheet[c].title
  BY <1>2
<1>4. /\ n \in DOMAIN f.tabs /\ f.tabs[n].id = sheet[c].id /\ f.tabs[n].title = sheet[c].title
      /\ sheet[c].id \in Sheets!Ids(f)
  BY <1>2, <1>3, PayloadFresh
<1>5. sheet[c].title \in Sheets!Titles(f)
  BY <1>4 DEF Sheets!Titles
<1> QED
  BY <1>2, <1>3, <1>4, <1>5

(* A call that begins with one batchUpdate, and is over after the refresh.       *)
LEMMA OneRequestKeeps ==
  ASSUME SheetsKnown, OneSheetInv, NEW c \in Client, sheets[c].id # 0, location[c] \in {"idle", "arrange"},
         NEW f \in Sheets!File, TabsOK(f), f.exists = files[sheets[c].id].exists,
         files[sheets[c].id].exists, Sheets!Changes(c, f),
         location' = [location EXCEPT ![c] = "refresh"], Sheets!SetTask(c, Sheets!NoTask),
         UNCHANGED <<sheets, rejected, raced>>, called' \in 0 .. MaxCalled, failed' \in 0 .. MaxFailed
  PROVE  SheetsInv'
<1>l. PICK l : l = "refresh"
  OBVIOUS
<1>t. PICK t : t = Sheets!NoTask
  OBVIOUS
<1>1. /\ location' = [location EXCEPT ![c] = l] /\ call' = [call EXCEPT ![c] = t]
      /\ l \in {"refresh", "arrange"} /\ l = "refresh" /\ t \in SheetCall /\ t.then = "return"
  BY <1>l, <1>t, NoCall DEF Sheets!SetTask
<1>2. f.exists = TRUE
  <2>1. f.exists \in BOOLEAN
    BY FileParts
  <2> QED
    BY <2>1
<1>3. ~Sheets!Creating(c)
  BY DEF Sheets!Creating
<1> QED
  BY <1>1, <1>2, <1>3, RequestKeeps

(* The Sheet object has the parts of one.                                        *)
LEMMA OnSheetParts ==
  ASSUME SheetsKnown, NEW c \in Client, Sheets!OnSheet(c)
  PROVE  /\ sheets[c].id # 0 /\ sheet[c] # None /\ called' \in 0 .. MaxCalled
         /\ sheet[c] \in Sheets!SheetObject /\ sheet[c].id \in Nat /\ sheet[c].index \in Nat
         /\ sheet[c].title \in Title \cup Nat
         /\ sheet[c].current \in BOOLEAN
         /\ Sheets!Remote(c) = files[sheets[c].id] /\ Sheets!Remote(c) \in Sheets!File /\ TabsOK(Sheets!Remote(c))
<1>1. sheets[c].id # 0 /\ sheet[c] # None /\ called' \in 0 .. MaxCalled
  BY CallCounted DEF Sheets!OnSheet, Sheets!OnObject
<1>2. sheet[c] \in Sheets!SheetObject
  BY <1>1, KnownParts
<1> QED
  BY <1>1, <1>2, KnownParts DEF Sheets!SheetObject, Sheets!Remote

LEMMA RenameSheetKeeps ==
  ASSUME SheetsKnown, OneSheetInv, NEW c \in Client, NEW title \in Title, Sheets!RenameSheet(c, title)
  PROVE  SheetsInv'
<1>f. PICK f : f = files[sheets[c].id]
  OBVIOUS
<1>r. Sheets!Remote(c) = f
  BY <1>f DEF Sheets!Remote
<1> PICK id : id = sheet[c].id
  OBVIOUS
<1>1. Sheets!OnSheet(c) /\ title \notin Sheets!CachedTitles(c)
  BY DEF Sheets!RenameSheet
<1>2. /\ sheets[c].id # 0 /\ sheet[c] # None /\ called' \in 0 .. MaxCalled
      /\ f \in Sheets!File /\ TabsOK(f) /\ sheet[c].current \in BOOLEAN
  BY <1>1, <1>f, <1>r, OnSheetParts
<1>3. CASE Sheets!Requests(c, id \in Sheets!Ids(f) /\ title \notin Sheets!Titles(f),
                           {Sheets!WithTitle(f, id, title)}, "idle", "refresh", Sheets!NoTask)
  <2>1. PICK g : g = Sheets!WithTitle(f, id, title)
    OBVIOUS
  <2>2. /\ location[c] = "idle" /\ location' = [location EXCEPT ![c] = "refresh"] /\ f.exists
        /\ Sheets!SetTask(c, Sheets!NoTask) /\ Sheets!Changes(c, g)
        /\ id \in Sheets!Ids(f) /\ title \notin Sheets!Titles(f)
        /\ UNCHANGED <<sheets, rejected, raced, failed>>
    BY <1>3, <1>r, <2>1 DEF Sheets!Requests, Sheets!Goto
  <2>3. g \in Sheets!File /\ TabsOK(g) /\ g.exists = f.exists
    BY <1>2, <2>1, <2>2, TabRenamed
  <2>4. failed' \in 0 .. MaxFailed
    BY <2>2, KnownParts
  <2> QED
    BY <1>2, <1>f, <2>2, <2>3, <2>4, OneRequestKeeps
<1>4. CASE Sheets!RequestRefused(c, id \in Sheets!Ids(f) /\ title \notin Sheets!Titles(f), "idle", ~sheet[c].current)
  <2>1. /\ Sheets!End(c, "idle") /\ UNCHANGED <<files, sheets, sheet, disturbed, raced, failed>>
        /\ rejected' = (rejected \/ ~~sheet[c].current)
        /\ ~(f.exists /\ id \in Sheets!Ids(f) /\ title \notin Sheets!Titles(f))
    BY <1>4, <1>r DEF Sheets!RequestRefused, Sheets!Refused
  <2>2. ~sheet[c].current
    <3> SUFFICES ASSUME sheet[c].current PROVE FALSE
      OBVIOUS
    <3>1. Shows(sheets[c], f) /\ id \in Sheets!Ids(f)
      BY <1>2, <1>f, SheetFresh
    <3>2. f.exists /\ Sheets!CachedTitles(c) = Sheets!Titles(f)
      BY <1>2, <1>f, <3>1, PayloadFresh
    <3> QED
      BY <1>1, <2>1, <3>1, <3>2
  <2>3. rejected' = FALSE /\ failed' \in 0 .. MaxFailed
    BY <2>1, <2>2, KnownParts
  <2> QED
    BY <1>2, <2>1, <2>3, DeniedKeeps
<1> QED
  BY <1>3, <1>4, <1>r DEF Sheets!RenameSheet

LEMMA MoveSheetKeeps ==
  ASSUME SheetsKnown, OneSheetInv, NEW c \in Client, NEW position \in Column \cup {None}, Sheets!MoveSheet(c, position)
  PROVE  SheetsInv'
<1>f. PICK f : f = files[sheets[c].id]
  OBVIOUS
<1>r. Sheets!Remote(c) = f
  BY <1>f DEF Sheets!Remote
<1>i. PICK id : id = sheet[c].id
  OBVIOUS
<1>n. PICK index : index = (IF position = None THEN Len(sheets[c].tabs) ELSE position) - 1
  OBVIOUS
<1>1. Sheets!OnSheet(c) /\ index \in 0 .. Len(sheets[c].tabs) - 1
  BY <1>n DEF Sheets!MoveSheet
<1>2. /\ sheets[c].id # 0 /\ sheet[c] # None /\ called' \in 0 .. MaxCalled
      /\ f \in Sheets!File /\ TabsOK(f) /\ sheet[c].current \in BOOLEAN
  BY <1>1, <1>r, OnSheetParts
<1>3. CASE Sheets!Requests(c, id \in Sheets!Ids(f) /\ index <= Len(f.tabs),
                           Sheets!WithMove(f, id, index), "idle", "refresh", Sheets!NoTask)
  <2>1. PICK g \in Sheets!WithMove(f, id, index) : Sheets!Changes(c, g)
    BY <1>3 DEF Sheets!Requests
  <2>2. /\ location[c] = "idle" /\ location' = [location EXCEPT ![c] = "refresh"] /\ f.exists
        /\ Sheets!SetTask(c, Sheets!NoTask) /\ id \in Sheets!Ids(f)
        /\ UNCHANGED <<sheets, rejected, raced, failed>>
    BY <1>3, <1>r DEF Sheets!Requests, Sheets!Goto
  <2>3. g \in Sheets!File /\ TabsOK(g) /\ g.exists = f.exists
    <3>1. Rearranged(g, f)
      BY <1>2, <2>1, <2>2, TabMoved
    <3> QED
      BY <3>1 DEF Rearranged
  <2>4. failed' \in 0 .. MaxFailed
    BY <2>2, KnownParts
  <2> QED
    BY <1>2, <1>f, <2>1, <2>2, <2>3, <2>4, OneRequestKeeps
<1>4. CASE Sheets!RequestRefused(c, id \in Sheets!Ids(f) /\ index <= Len(f.tabs), "idle", ~sheet[c].current)
  <2>1. /\ Sheets!End(c, "idle") /\ UNCHANGED <<files, sheets, sheet, disturbed, raced, failed>>
        /\ rejected' = (rejected \/ ~~sheet[c].current)
        /\ ~(f.exists /\ id \in Sheets!Ids(f) /\ index <= Len(f.tabs))
    BY <1>4, <1>r DEF Sheets!RequestRefused, Sheets!Refused
  <2>2. ~sheet[c].current
    <3> SUFFICES ASSUME sheet[c].current PROVE FALSE
      OBVIOUS
    <3>1. Shows(sheets[c], f) /\ id \in Sheets!Ids(f)
      BY <1>2, <1>f, <1>i, SheetFresh
    <3>2. f.exists /\ Len(sheets[c].tabs) = Len(f.tabs)
      BY <1>2, <1>f, <3>1, PayloadFresh
    <3>3. Len(f.tabs) \in Nat
      BY <1>2, FileParts
    <3> QED
      BY <1>1, <2>1, <3>1, <3>2, <3>3
  <2>3. rejected' = FALSE /\ failed' \in 0 .. MaxFailed
    BY <2>1, <2>2, KnownParts
  <2> QED
    BY <1>2, <2>1, <2>3, DeniedKeeps
<1> QED
  BY <1>3, <1>4, <1>r, <1>i, <1>n DEF Sheets!MoveSheet

LEMMA DeleteSheetKeeps ==
  ASSUME SheetsKnown, OneSheetInv, NEW c \in Client, Sheets!DeleteSheet(c)
  PROVE  SheetsInv'
<1>f. PICK f : f = files[sheets[c].id]
  OBVIOUS
<1>r. Sheets!Remote(c) = f
  BY <1>f DEF Sheets!Remote
<1>i. PICK id : id = sheet[c].id
  OBVIOUS
<1>1. Sheets!OnSheet(c)
  BY DEF Sheets!DeleteSheet
<1>2. /\ sheets[c].id # 0 /\ sheet[c] # None /\ called' \in 0 .. MaxCalled
      /\ f \in Sheets!File /\ TabsOK(f) /\ sheet[c].current \in BOOLEAN
  BY <1>1, <1>r, OnSheetParts
<1>3. CASE Sheets!Requests(c, id \in Sheets!Ids(f) /\ Len(f.tabs) > 1, {Sheets!WithoutTab(f, id)},
                           "idle", "refresh", Sheets!NoTask)
  <2>g. PICK g : g = Sheets!WithoutTab(f, id)
    OBVIOUS
  <2>1. /\ location[c] = "idle" /\ location' = [location EXCEPT ![c] = "refresh"] /\ f.exists
        /\ Sheets!SetTask(c, Sheets!NoTask) /\ Sheets!Changes(c, g) /\ id \in Sheets!Ids(f)
        /\ UNCHANGED <<sheets, rejected, raced, failed>>
    BY <1>3, <1>r, <2>g DEF Sheets!Requests, Sheets!Goto
  <2>2. g \in Sheets!File /\ TabsOK(g) /\ g.exists = f.exists
    <3>p. PICK p : p = Sheets!PlaceOf(f, id)
      OBVIOUS
    <3>q. PICK q : q = Sheets!RemoveAt(f.tabs, p)
      OBVIOUS
    <3>1. p \in DOMAIN f.tabs
      BY <1>2, <2>1, <3>p, PlaceFound
    <3>2. g = [f EXCEPT !.tabs = q]
      BY <2>g, <3>p, <3>q DEF Sheets!WithoutTab
    <3> QED
      BY <1>2, <3>q, <3>1, <3>2, TabGone
  <2>3. failed' \in 0 .. MaxFailed
    BY <2>1, KnownParts
  <2> QED
    BY <1>2, <1>f, <2>1, <2>2, <2>3, OneRequestKeeps
<1>4. CASE Sheets!RequestRefused(c, id \in Sheets!Ids(f) /\ Len(f.tabs) > 1, "idle",
                                 ~sheet[c].current \/ Len(f.tabs) = 1)
  <2>1. /\ Sheets!End(c, "idle") /\ UNCHANGED <<files, sheets, sheet, disturbed, raced, failed>>
        /\ rejected' = (rejected \/ ~(~sheet[c].current \/ Len(f.tabs) = 1))
        /\ ~(f.exists /\ id \in Sheets!Ids(f) /\ Len(f.tabs) > 1)
    BY <1>4, <1>r DEF Sheets!RequestRefused, Sheets!Refused
  <2>2. ~sheet[c].current \/ Len(f.tabs) = 1
    <3> SUFFICES ASSUME sheet[c].current PROVE Len(f.tabs) = 1
      OBVIOUS
    <3>1. Shows(sheets[c], f) /\ id \in Sheets!Ids(f)
      BY <1>2, <1>f, <1>i, SheetFresh
    <3>2. f.exists
      BY <1>2, <1>f, <3>1, PayloadFresh
    <3>3. /\ Len(f.tabs) \in Nat /\ DOMAIN f.tabs = 1 .. Len(f.tabs)
      BY <1>2, FileParts
    <3>4. DOMAIN f.tabs # {}
      BY <3>1 DEF Sheets!Ids
    <3>5. ~(Len(f.tabs) > 1)
      BY <2>1, <3>1, <3>2
    <3>6. Len(f.tabs) # 0
      BY <3>3, <3>4
    <3>7. \A m \in Nat : m # 0 /\ ~(m > 1) => m = 1
      OBVIOUS
    <3> QED
      BY <3>3, <3>5, <3>6, <3>7, Zenon
  <2>3. rejected' = FALSE /\ failed' \in 0 .. MaxFailed
    BY <2>1, <2>2, KnownParts
  <2> QED
    BY <1>2, <2>1, <2>3, DeniedKeeps
<1> QED
  BY <1>3, <1>4, <1>r, <1>i DEF Sheets!DeleteSheet

(* The object has the parts of one.                                              *)
LEMMA OnObjectParts ==
  ASSUME SheetsKnown, NEW c \in Client, Sheets!OnObject(c)
  PROVE  /\ sheets[c].id # 0 /\ called' \in 0 .. MaxCalled /\ sheets[c].tabs \in Seq(Sheets!CachedTab)
         /\ Len(sheets[c].tabs) \in Nat /\ disturbed[c] \in BOOLEAN
         /\ Sheets!Remote(c) = files[sheets[c].id] /\ Sheets!Remote(c) \in Sheets!File /\ TabsOK(Sheets!Remote(c))
<1>1. sheets[c].id # 0 /\ called' \in 0 .. MaxCalled
  BY CallCounted DEF Sheets!OnObject
<1>2. sheets[c].tabs \in Seq(Sheets!CachedTab) /\ disturbed[c] \in BOOLEAN
  BY KnownParts
<1>3. Len(sheets[c].tabs) \in Nat
  BY <1>2
<1>4. files[sheets[c].id] \in Sheets!File /\ TabsOK(files[sheets[c].id])
  BY <1>1, KnownParts
<1> QED
  BY <1>1, <1>2, <1>3, <1>4 DEF Sheets!Remote

LEMMA InsertSheetKeeps ==
  ASSUME SheetsKnown, OneSheetInv, NEW c \in Client, NEW title \in Title \cup {None},
         NEW position \in Column \cup {None}, NEW then \in {"return", "frame"},
         Sheets!InsertSheet(c, title, position, then)
  PROVE  SheetsInv'
<1>f. PICK f : f = files[sheets[c].id]
  OBVIOUS
<1>r. Sheets!Remote(c) = f
  BY <1>f DEF Sheets!Remote
<1>n. PICK index : index = IF position = None THEN Len(f.tabs) ELSE position - 1
  OBVIOUS
<1>t. PICK t : t = Sheets!Task(None, position, f.next, then)
  OBVIOUS
<1>1. /\ Sheets!OnObject(c) /\ (title # None => title \notin Sheets!CachedTitles(c))
      /\ position # None => position - 1 \in 0 .. Len(sheets[c].tabs)
  BY DEF Sheets!InsertSheet
<1>2. /\ sheets[c].id # 0 /\ called' \in 0 .. MaxCalled /\ Len(sheets[c].tabs) \in Nat
      /\ f \in Sheets!File /\ TabsOK(f) /\ disturbed[c] \in BOOLEAN
  BY <1>1, <1>r, OnObjectParts
<1>3. Len(f.tabs) \in Nat /\ f.next \in Nat
  BY <1>2, FileParts
<1>4. CASE Sheets!Requests(c, title \notin Sheets!Titles(f) /\ index <= Len(f.tabs),
                           {Sheets!WithTab(f, title, index, None)}, "idle", "refresh", t)
  <2>g. PICK g : g = Sheets!WithTab(f, title, index, None)
    OBVIOUS
  <2>l. PICK l : l = "refresh"
    OBVIOUS
  <2>d. PICK d : d = None
    OBVIOUS
  <2>1. /\ location[c] = "idle" /\ location' = [location EXCEPT ![c] = l] /\ files[sheets[c].id].exists
        /\ call' = [call EXCEPT ![c] = t] /\ Sheets!Changes(c, g)
        /\ title \notin Sheets!Titles(f) /\ index <= Len(f.tabs)
        /\ UNCHANGED <<sheets, rejected, raced, failed>>
    BY <1>4, <1>f, <1>r, <2>g, <2>l DEF Sheets!Requests, Sheets!Goto, Sheets!SetTask
  <2>2. index \in 0 .. Len(f.tabs)
    BY <1>1, <1>2, <1>3, <1>n, <2>1
  <2>3. /\ g \in Sheets!File /\ TabsOK(g) /\ g.exists = f.exists
        /\ Len(g.tabs) = Len(f.tabs) + 1 /\ index + 1 \in DOMAIN g.tabs
        /\ g.tabs[index + 1].id = f.next
    <3>1. d \in Sheets!Deed \cup {None} /\ (d # None /\ d.undisturbed => d.reached = d.meant)
      BY <2>d
    <3>2. g = Sheets!WithTab(f, title, index, d)
      BY <2>g, <2>d
    <3> QED
      BY <1>2, <2>1, <2>2, <3>1, <3>2, TabMade
  <2>4. t \in SheetCall /\ t.then = then /\ t.id = f.next /\ t.position = position
    <3>1. position \in Nat \cup {None}
      BY SheetsConstants
    <3> QED
      BY <1>3, <1>t, <3>1 DEF SheetCall, Sheets!Task
  <2>5. g.exists = TRUE
    <3>1. f.exists \in BOOLEAN
      BY <1>2, FileParts
    <3> QED
      BY <1>f, <2>1, <2>3, <3>1
  <2>6. Placed(g, t)
    <3>1. position # None => position \in Nat
      BY SheetsConstants
    <3>2. index + 1 = IF t.position = None THEN Len(g.tabs) ELSE t.position
      BY <1>3, <1>n, <2>3, <2>4, <3>1
    <3> QED
      BY <2>3, <2>4, <2>5, <3>2 DEF Placed
  <2>7. /\ l \in {"refresh", "arrange"} /\ l = "refresh" /\ ~Sheets!Creating(c)
        /\ t.then \in {"return", "frame"} /\ failed' \in 0 .. MaxFailed
    BY <2>l, <2>1, <2>4, KnownParts DEF Sheets!Creating
  <2> QED
    BY <1>2, <2>1, <2>3, <2>4, <2>5, <2>6, <2>7, RequestKeeps
<1>5. CASE Sheets!RequestRefused(c, title \notin Sheets!Titles(f) /\ index <= Len(f.tabs), "idle", disturbed[c])
  <2>1. /\ Sheets!End(c, "idle") /\ UNCHANGED <<files, sheets, sheet, disturbed, raced, failed>>
        /\ rejected' = (rejected \/ ~disturbed[c])
        /\ ~(f.exists /\ title \notin Sheets!Titles(f) /\ index <= Len(f.tabs))
    BY <1>5, <1>r DEF Sheets!RequestRefused, Sheets!Refused
  <2>2. disturbed[c]
    <3> SUFFICES ASSUME ~disturbed[c] PROVE FALSE
      OBVIOUS
    <3>0. location[c] = "idle"
      BY <2>1 DEF Sheets!End, Sheets!Goto
    <3>1. Shows(sheets[c], f)
      BY <1>2, <1>f, <3>0, KnownParts DEF ProgramOK
    <3>2. f.exists /\ Sheets!CachedTitles(c) = Sheets!Titles(f) /\ Len(sheets[c].tabs) = Len(f.tabs)
      BY <1>2, <1>f, <3>1, PayloadFresh
    <3>3. title \notin Sheets!Titles(f)
      <4>1. CASE title = None
        <5>1. None \notin Title \cup Nat
          BY SheetsConstants
        <5>2. \A i \in DOMAIN f.tabs : f.tabs[i].title \in Title \cup Nat
          BY <1>2, FileParts
        <5> QED
          BY <4>1, <5>1, <5>2 DEF Sheets!Titles
      <4>2. CASE title # None
        BY <1>1, <3>2, <4>2
      <4> QED
        BY <4>1, <4>2
    <3>4. index <= Len(f.tabs)
      BY <1>1, <1>3, <1>n, <3>2
    <3> QED
      BY <2>1, <3>2, <3>3, <3>4
  <2>3. rejected' = FALSE /\ failed' \in 0 .. MaxFailed
    BY <2>1, <2>2, KnownParts
  <2> QED
    BY <1>2, <2>1, <2>3, DeniedKeeps
<1> QED
  BY <1>4, <1>5, <1>r, <1>n, <1>t DEF Sheets!InsertSheet

LEMMA CopySheetKeeps ==
  ASSUME SheetsKnown, OneSheetInv, NEW c \in Client, NEW given \in BOOLEAN, NEW title \in Title \cup {None},
         NEW position \in Column \cup {None}, Sheets!CopySheet(c, given, title, position)
  PROVE  SheetsInv'
<1>f. PICK f : f = files[sheets[c].id]
  OBVIOUS
<1>r. Sheets!Remote(c) = f
  BY <1>f DEF Sheets!Remote
<1>n. PICK n : n = IF given THEN sheet[c].index + 1 ELSE Len(sheets[c].tabs)
  OBVIOUS
<1>s. PICK source : source = sheets[c].tabs[n].id
  OBVIOUS
<1>m. PICK meant : meant = IF given THEN sheet[c].id ELSE source
  OBVIOUS
<1>u. PICK undisturbed : undisturbed = IF given THEN sheet[c].current ELSE ~disturbed[c]
  OBVIOUS
<1>d. PICK deed : deed = [meant |-> meant, reached |-> source, undisturbed |-> undisturbed]
  OBVIOUS
<1>l. PICK l : l = IF title = None /\ position = None THEN "refresh" ELSE "arrange"
  OBVIOUS
<1>t. PICK t : t = Sheets!Task(title, position, f.next, "return")
  OBVIOUS
<1>1. /\ Sheets!OnObject(c) /\ (given => Sheets!OnSheet(c))
      /\ (title # None => title \notin Sheets!CachedTitles(c))
      /\ position # None => position - 1 \in 0 .. Len(sheets[c].tabs)
      /\ n \in DOMAIN sheets[c].tabs
  BY <1>n DEF Sheets!CopySheet, Sheets!OnSheet
<1>2. /\ sheets[c].id # 0 /\ called' \in 0 .. MaxCalled /\ Len(sheets[c].tabs) \in Nat
      /\ sheets[c].tabs \in Seq(Sheets!CachedTab)
      /\ f \in Sheets!File /\ TabsOK(f) /\ disturbed[c] \in BOOLEAN
  BY <1>1, <1>r, OnObjectParts
<1>3. Len(f.tabs) \in Nat /\ f.next \in Nat
  BY <1>2, FileParts
<1>4. given => sheet[c] # None /\ sheet[c].id \in Nat /\ sheet[c].current \in BOOLEAN
  BY <1>1, OnSheetParts
<1>5. source \in Nat
  <2>1. sheets[c].tabs[n] \in Sheets!CachedTab
    BY <1>1, <1>2
  <2> QED
    BY <1>s, <2>1 DEF Sheets!CachedTab
<1>6. meant \in Nat /\ undisturbed \in BOOLEAN
  BY <1>2, <1>4, <1>5, <1>m, <1>u
<1>7. location[c] = "idle"
  BY DEF Sheets!CopySheet, Sheets!Requests, Sheets!RequestRefused, Sheets!Refused, Sheets!End, Sheets!Goto
<1>8. ~disturbed[c] =>
        /\ f.exists /\ Sheets!CachedTitles(c) = Sheets!Titles(f) /\ Len(sheets[c].tabs) = Len(f.tabs)
        /\ sheets[c].tabs[n].id \in Sheets!Ids(f)
  <2> HAVE ~disturbed[c]
  <2>1. Shows(sheets[c], f)
    BY <1>2, <1>7, <1>f, KnownParts DEF ProgramOK
  <2> QED
    BY <1>1, <1>2, <1>f, <2>1, PayloadFresh
<1>9. given /\ sheet[c].current => f.exists /\ source = sheet[c].id /\ source \in Sheets!Ids(f)
  <2> HAVE given /\ sheet[c].current
  <2>1. n = sheet[c].index + 1
    BY <1>n
  <2>2. /\ Shows(sheets[c], f) /\ sheets[c].tabs[n].id = sheet[c].id /\ sheet[c].id \in Sheets!Ids(f)
    BY <1>4, <1>f, <2>1, SheetFresh
  <2> QED
    BY <1>s, <2>2 DEF Shows
<1>10. undisturbed => f.exists /\ source = meant /\ source \in Sheets!Ids(f)
  BY <1>8, <1>9, <1>s, <1>m, <1>u
<1>11. CASE Sheets!Requests(c, source \in Sheets!Ids(f), {Sheets!WithTab(f, None, Len(f.tabs), deed)},
                            "idle", l, t)
  <2>g. PICK g : g = Sheets!WithTab(f, None, Len(f.tabs), deed)
    OBVIOUS
  <2>i. PICK index : index = Len(f.tabs)
    OBVIOUS
  <2>p. PICK untitled : untitled = None
    OBVIOUS
  <2>1. /\ location' = [location EXCEPT ![c] = l] /\ files[sheets[c].id].exists
        /\ call' = [call EXCEPT ![c] = t] /\ Sheets!Changes(c, g)
        /\ UNCHANGED <<sheets, rejected, raced, failed>>
    BY <1>11, <1>f, <1>r, <2>g DEF Sheets!Requests, Sheets!Goto, Sheets!SetTask
  <2>2. None \notin Sheets!Titles(f)
    <3>1. None \notin Title \cup Nat
      BY SheetsConstants
    <3>2. \A i \in DOMAIN f.tabs : f.tabs[i].title \in Title \cup Nat
      BY <1>2, FileParts
    <3> QED
      BY <3>1, <3>2 DEF Sheets!Titles
  <2>3. /\ g \in Sheets!File /\ TabsOK(g) /\ g.exists = f.exists
        /\ Len(g.tabs) = Len(f.tabs) + 1 /\ f.next \in Sheets!Ids(g)
        /\ Sheets!Titles(g) \subseteq Sheets!Titles(f) \cup Title \cup Nat
        /\ \A x \in Title : x \notin Sheets!Titles(f) => x \notin Sheets!Titles(g)
    <3>1. deed \in Sheets!Deed /\ deed # None
      BY <1>5, <1>6, <1>d, SheetsConstants DEF Sheets!Deed
    <3>2. deed.undisturbed => deed.reached = deed.meant
      BY <1>10, <1>d
    <3>3. untitled \in Title \cup {None} /\ untitled \notin Sheets!Titles(f) /\ index \in 0 .. Len(f.tabs)
      BY <1>3, <2>i, <2>p, <2>2
    <3>4. g = Sheets!WithTab(f, untitled, index, deed)
      BY <2>g, <2>i, <2>p
    <3>5. deed \in Sheets!Deed \cup {None} /\ (deed # None /\ deed.undisturbed => deed.reached = deed.meant)
      BY <3>1, <3>2
    <3>6. /\ g \in Sheets!File /\ TabsOK(g) /\ g.exists = f.exists
          /\ Len(g.tabs) = Len(f.tabs) + 1 /\ f.next \in Sheets!Ids(g)
          /\ Sheets!Titles(g) \subseteq Sheets!Titles(f) \cup Title \cup Nat
          /\ \A x \in Title : untitled = None /\ x \notin Sheets!Titles(f) => x \notin Sheets!Titles(g)
      BY <1>2, <3>3, <3>4, <3>5, TabMade
    <3> QED
      BY <2>p, <3>6
  <2>4. t \in SheetCall /\ t.then = "return" /\ t.id = f.next /\ t.position = position /\ t.title = title
    <3>1. position \in Nat \cup {None}
      BY SheetsConstants
    <3> QED
      BY <1>3, <1>t, <3>1 DEF SheetCall, Sheets!Task
  <2>5. g.exists = TRUE
    <3>1. f.exists \in BOOLEAN
      BY <1>2, FileParts
    <3> QED
      BY <1>f, <2>1, <2>3, <3>1
  <2>6. ~disturbed[c] => Arrangeable(g, t)
    <3> HAVE ~disturbed[c]
    <3>1. title \notin Sheets!Titles(g)
      <4>1. CASE title = None
        <5>1. None \notin Title \cup Nat
          BY SheetsConstants
        <5> QED
          BY <2>2, <2>3, <4>1, <5>1
      <4>2. CASE title # None
        <5>1. title \in Title /\ title \notin Sheets!Titles(f)
          BY <1>1, <1>8, <4>2
        <5> QED
          BY <2>3, <5>1
      <4> QED
        BY <4>1, <4>2
    <3>2. position # None => position - 1 <= Len(g.tabs)
      BY <1>1, <1>3, <1>8, <2>3
    <3> QED
      BY <2>3, <2>4, <2>5, <3>1, <3>2 DEF Arrangeable
  <2>7. /\ l \in {"refresh", "arrange"} /\ ~Sheets!Creating(c)
        /\ t.then \in {"return", "frame"} /\ t.then # "frame" /\ failed' \in 0 .. MaxFailed
    BY <1>7, <1>l, <2>1, <2>4, KnownParts DEF Sheets!Creating
  <2> QED
    BY <1>2, <2>1, <2>3, <2>4, <2>5, <2>6, <2>7, RequestKeeps
<1>12. CASE Sheets!RequestRefused(c, source \in Sheets!Ids(f), "idle", ~undisturbed)
  <2>1. /\ Sheets!End(c, "idle") /\ UNCHANGED <<files, sheets, sheet, disturbed, raced, failed>>
        /\ rejected' = (rejected \/ ~~undisturbed)
        /\ ~(f.exists /\ source \in Sheets!Ids(f))
    BY <1>12, <1>r DEF Sheets!RequestRefused, Sheets!Refused
  <2>2. rejected' = FALSE /\ failed' \in 0 .. MaxFailed
    BY <1>10, <2>1, KnownParts
  <2> QED
    BY <1>2, <2>1, <2>2, DeniedKeeps
<1>13. \/ Sheets!Requests(c, source \in Sheets!Ids(f), {Sheets!WithTab(f, None, Len(f.tabs), deed)}, "idle", l, t)
       \/ Sheets!RequestRefused(c, source \in Sheets!Ids(f), "idle", ~undisturbed)
  BY <1>r, <1>n, <1>s, <1>m, <1>u, <1>d, <1>l, <1>t DEF Sheets!CopySheet
<1> QED
  BY <1>11, <1>12, <1>13

(* The update that moves and names the copy.                                     *)
LEMMA ArrangeKeeps ==
  ASSUME SheetsKnown, OneSheetInv, NEW c \in Client, Sheets!Arrange(c)
  PROVE  SheetsInv'
<1>f. PICK f : f = files[sheets[c].id]
  OBVIOUS
<1>r. Sheets!Remote(c) = f
  BY <1>f DEF Sheets!Remote
<1>t. PICK t : t = call[c]
  OBVIOUS
<1>m. PICK moved : moved = IF t.position = None THEN {f} ELSE Sheets!WithMove(f, t.id, t.position - 1)
  OBVIOUS
<1>n. PICK named : named = IF t.title = None THEN moved ELSE {Sheets!WithTitle(g, t.id, t.title) : g \in moved}
  OBVIOUS
<1> DEFINE accepted == /\ t.id \in Sheets!Ids(f)
                       /\ t.title \notin Sheets!Titles(f)
                       /\ t.position # None => t.position - 1 <= Len(f.tabs)
<1>1. /\ location[c] = "arrange" /\ UNCHANGED called
      /\ \/ Sheets!Requests(c, accepted, named, "arrange", "refresh", Sheets!NoTask)
         \/ Sheets!RequestRefused(c, accepted, "arrange", disturbed[c])
  BY <1>r, <1>t, <1>m, <1>n DEF Sheets!Arrange
<1>2. /\ sheets[c].id # 0 /\ called' \in 0 .. MaxCalled /\ f \in Sheets!File /\ TabsOK(f) /\ t \in SheetCall
  BY <1>1, <1>f, <1>t, KnownParts DEF ProgramOK
<1>3. ~disturbed[c] => f.exists /\ accepted
  BY <1>1, <1>f, <1>t, KnownParts DEF ProgramOK, Arrangeable
<1>4. CASE Sheets!Requests(c, accepted, named, "arrange", "refresh", Sheets!NoTask)
  <2>1. PICK h \in named : Sheets!Changes(c, h)
    BY <1>4 DEF Sheets!Requests
  <2>2. /\ location' = [location EXCEPT ![c] = "refresh"] /\ f.exists
        /\ Sheets!SetTask(c, Sheets!NoTask) /\ t.id \in Sheets!Ids(f) /\ t.title \notin Sheets!Titles(f)
        /\ UNCHANGED <<sheets, rejected, raced, failed>>
    BY <1>4, <1>r DEF Sheets!Requests, Sheets!Goto
  <2>3. \A g \in moved : Rearranged(g, f)
    <3> SUFFICES ASSUME NEW g \in moved PROVE Rearranged(g, f)
      OBVIOUS
    <3>1. CASE g = f
      BY <1>2, <3>1 DEF Rearranged
    <3>2. CASE g \in Sheets!WithMove(f, t.id, t.position - 1)
      BY <1>2, <2>2, <3>2, TabMoved
    <3> QED
      BY <1>m, <3>1, <3>2
  <2>4. h \in Sheets!File /\ TabsOK(h) /\ h.exists = f.exists
    <3>1. CASE h \in moved
      BY <2>3, <3>1 DEF Rearranged
    <3>2. CASE t.title # None
      <4>1. PICK g \in moved : h = Sheets!WithTitle(g, t.id, t.title)
        BY <1>n, <2>1, <3>2
      <4>2. /\ g \in Sheets!File /\ TabsOK(g) /\ g.exists = f.exists
            /\ t.id \in Sheets!Ids(g) /\ t.title \notin Sheets!Titles(g)
        BY <2>2, <2>3 DEF Rearranged
      <4>3. t.title \in Title
        BY <1>2, <3>2 DEF SheetCall
      <4> QED
        BY <4>1, <4>2, <4>3, TabRenamed
    <3> QED
      BY <1>n, <2>1, <3>1, <3>2
  <2>5. failed' \in 0 .. MaxFailed
    BY <2>2, KnownParts
  <2> QED
    BY <1>1, <1>2, <1>f, <2>1, <2>2, <2>4, <2>5, OneRequestKeeps
<1>5. CASE Sheets!RequestRefused(c, accepted, "arrange", disturbed[c])
  <2>1. /\ Sheets!End(c, "arrange") /\ UNCHANGED <<files, sheets, sheet, disturbed, raced, failed>>
        /\ rejected' = (rejected \/ ~disturbed[c]) /\ ~(f.exists /\ accepted)
    BY <1>5, <1>r DEF Sheets!RequestRefused, Sheets!Refused
  <2>2. disturbed[c]
    BY <1>3, <2>1
  <2>3. rejected' = FALSE /\ failed' \in 0 .. MaxFailed /\ disturbed'[c] = disturbed[c] /\ disturbed' \in [Client -> BOOLEAN]
    BY <2>1, <2>2, KnownParts
  <2> HIDE DEF accepted
  <2> QED
    BY <1>2, <2>1, <2>2, <2>3, EndKeeps
<1> QED
  BY <1>1, <1>4, <1>5

(* A write to a tab that the service accepts; then comes the refresh.            *)
LEMMA WriteKeeps ==
  ASSUME SheetsKnown, OneSheetInv, NEW c \in Client, sheets[c].id # 0, ~Sheets!Creating(c),
         NEW f, f = files[sheets[c].id], NEW i \in DOMAIN f.tabs,
         NEW deed \in Sheets!Deed, deed.undisturbed => deed.reached = deed.meant,
         files' = [files EXCEPT ![sheets[c].id] = Sheets!WithDeed(f, i, deed)],
         location' = [location EXCEPT ![c] = "refresh"],
         NEW t \in SheetCall, call' = [call EXCEPT ![c] = t], t.then \in {"rebind", "framed"},
         t.then = "rebind" => sheet[c] # None, ~disturbed[c] => f.exists,
         UNCHANGED <<sheets, sheet, disturbed, crossed, rejected, raced>>,
         called' \in 0 .. MaxCalled, failed' \in 0 .. MaxFailed
  PROVE  SheetsInv'
<1>k. PICK k : k = sheets[c].id
  OBVIOUS
<1>f. PICK fk : fk = files[k]
  OBVIOUS
<1>g. PICK g : g = Sheets!WithDeed(fk, i, deed)
  OBVIOUS
<1>h. PICK fs : fs = [files EXCEPT ![k] = g]
  OBVIOUS
<1>0. fk = f
  BY <1>k, <1>f
<1>1. /\ fk \in Sheets!File /\ TabsOK(fk) /\ k \in DOMAIN files /\ i \in DOMAIN fk.tabs
      /\ files \in Seq(Sheets!File) /\ files' = fs
  BY <1>0, <1>k, <1>f, <1>g, <1>h, KnownParts
<1>2. /\ g \in Sheets!File /\ TabsOK(g) /\ g.exists = fk.exists
      /\ Sheets!Snapshot(g) = Sheets!Snapshot(fk)
  BY <1>1, <1>g, TabWritten
<1>3. /\ fs \in Seq(Sheets!File) /\ Len(fs) = Len(files) /\ DOMAIN fs = DOMAIN files
      /\ fs[k] = g /\ \A j \in DOMAIN files : j # k => fs[j] = files[j]
  BY <1>1, <1>2, <1>h
<1>4. "refresh" \in Sheets!Location /\ location'[c] = "refresh" /\ call'[c] = t /\ rejected' = FALSE
  BY KnownParts DEF Sheets!Location
<1>5. SheetsTypes'
  <2>1. /\ location' \in [Client -> Sheets!Location] /\ call' \in [Client -> SheetCall]
        /\ sheets' \in [Client -> Objects(Len(fs))]
    BY <1>3, <1>4, KnownParts
  <2>2. /\ sheet' \in [Client -> Sheets!SheetObject \cup {None}] /\ disturbed' \in [Client -> BOOLEAN]
        /\ crossed' \in [Client -> BOOLEAN] /\ raced' \in BOOLEAN
    BY KnownParts
  <2> QED
    BY <1>1, <1>3, <2>1, <2>2 DEF SheetsTypes
<1>6. Own(c) /\ Alone(c)
  BY KnownParts DEF Own, Alone
<1>7. Knows(c)'
  <2>o. PICK o : o = sheets[c]
    OBVIOUS
  <2>1. /\ ProgramOK(files, o, sheet[c], location[c], call[c], disturbed[c], crossed[c])
        /\ o \in Objects(Len(files)) /\ o.id = k
    BY <1>k, <2>o, KnownParts
  <2>2. ProgramOK(fs, o, sheet[c], location[c], call[c], disturbed[c], crossed[c])
    <3>1. Sheets!Snapshot(g) = Sheets!Snapshot(files[k]) /\ g.exists = files[k].exists
      BY <1>2, <1>f
    <3> QED
      BY <1>1, <1>2, <1>h, <2>1, <3>1, WritesLeave
  <2>3. ~disturbed[c] => fs[o.id].exists
    BY <1>0, <1>2, <1>3, <2>1
  <2>4. ProgramOK(fs, o, sheet[c], "refresh", t, disturbed[c], crossed[c])
    BY <1>k, <2>1, <2>2, <2>3 DEF ProgramOK
  <2> QED
    BY <1>1, <1>4, <2>o, <2>4 DEF Knows
<1>8. SheetsKnown'
  <2>1. Sheets!Snapshot(g) = Sheets!Snapshot(files[k]) /\ g.exists = files[k].exists /\ files' = [files EXCEPT ![k] = g]
    BY <1>1, <1>2, <1>f, <1>h
  <2> QED
    BY <1>1, <1>2, <1>4, <1>5, <1>6, <1>7, <2>1, WrittenKnown
<1>9. OneSheetInv'
  <2>1. \A j \in Sheets!Namesakes' : j \in Sheets!Namesakes
    BY <1>1, <1>2, <1>3, <1>f DEF Sheets!Namesakes
  <2>2. \A d \in Client : Sheets!Creating(d)' => Sheets!Creating(d)
    BY <1>4, KnownParts DEF Sheets!Creating
  <2> QED
    BY <2>1, <2>2, OneKept
<1> QED
  BY <1>8, <1>9 DEF SheetsInv

(* Two tabs of one title are the same.                                           *)
LEMMA TitlesTell ==
  ASSUME NEW f, TabsOK(f), NEW i \in DOMAIN f.tabs, NEW j \in DOMAIN f.tabs, f.tabs[i].title = f.tabs[j].title
  PROVE  i = j
BY DEF TabsOK

(* Sheet.update_values.                                                          *)
LEMMA InsertKeeps ==
  ASSUME SheetsKnown, OneSheetInv, NEW c \in Client, Sheets!Insert(c)
  PROVE  SheetsInv'
<1>f. PICK f : f = files[sheets[c].id]
  OBVIOUS
<1>r. Sheets!Remote(c) = f
  BY <1>f DEF Sheets!Remote
<1>d. PICK deed : deed = [meant |-> sheet[c].id, reached |-> 0, undisturbed |-> sheet[c].current]
  OBVIOUS
<1>t. PICK t : t = Sheets!Task(None, None, 0, "rebind")
  OBVIOUS
<1>1. /\ Sheets!OnSheet(c)
      /\ Sheets!Writes(c, sheet[c].title, deed, "idle", "refresh", t, ~sheet[c].current)
  BY <1>d, <1>t DEF Sheets!Insert
<1>2. /\ sheets[c].id # 0 /\ sheet[c] # None /\ called' \in 0 .. MaxCalled /\ sheet[c].id \in Nat
      /\ f \in Sheets!File /\ TabsOK(f) /\ sheet[c].current \in BOOLEAN
  BY <1>1, <1>r, OnSheetParts
<1>3. CASE /\ Sheets!Goto(c, "idle", "refresh")
           /\ \E i \in DOMAIN f.tabs :
                /\ f.tabs[i].title = sheet[c].title
                /\ files' = [files EXCEPT ![sheets[c].id] =
                               Sheets!WithDeed(f, i, [deed EXCEPT !.reached = f.tabs[i].id])]
           /\ Sheets!SetTask(c, t)
           /\ UNCHANGED <<sheets, sheet, disturbed, crossed, rejected, raced, failed>>
  <2>1. PICK i \in DOMAIN f.tabs :
                /\ f.tabs[i].title = sheet[c].title
                /\ files' = [files EXCEPT ![sheets[c].id] =
                               Sheets!WithDeed(f, i, [deed EXCEPT !.reached = f.tabs[i].id])]
    BY <1>3
  <2>d. PICK e : e = [deed EXCEPT !.reached = f.tabs[i].id]
    OBVIOUS
  <2>2. f.tabs[i].id \in Nat
    BY <1>2, FileParts
  <2>3. e = [meant |-> sheet[c].id, reached |-> f.tabs[i].id, undisturbed |-> sheet[c].current]
    BY <1>d, <2>d
  <2>4. e \in Sheets!Deed
    BY <1>2, <2>2, <2>3 DEF Sheets!Deed
  <2>5. e.undisturbed => e.reached = e.meant
    <3> SUFFICES ASSUME sheet[c].current PROVE f.tabs[i].id = sheet[c].id
      BY <2>3
    <3>n. PICK n : n = sheet[c].index + 1
      OBVIOUS
    <3>1. n \in DOMAIN f.tabs /\ f.tabs[n].id = sheet[c].id /\ f.tabs[n].title = sheet[c].title
      BY <1>2, <1>f, <3>n, SheetFresh
    <3>2. i = n
      BY <1>2, <2>1, <3>1, TitlesTell
    <3> QED
      BY <3>1, <3>2
  <2>6. /\ location[c] = "idle" /\ location' = [location EXCEPT ![c] = "refresh"]
        /\ call' = [call EXCEPT ![c] = t] /\ ~Sheets!Creating(c) /\ failed' \in 0 .. MaxFailed
    BY <1>3, KnownParts DEF Sheets!Goto, Sheets!SetTask, Sheets!Creating
  <2>7. t \in SheetCall /\ t.then = "rebind"
    BY <1>t DEF SheetCall, Sheets!Task
  <2>8. ~disturbed[c] => f.exists
    BY <1>2, <1>f, <2>6, KnownParts DEF ProgramOK, Shows
  <2>9. files' = [files EXCEPT ![sheets[c].id] = Sheets!WithDeed(f, i, e)]
    BY <2>1, <2>d
  <2> QED
    BY <1>2, <1>3, <1>f, <2>4, <2>5, <2>6, <2>7, <2>8, <2>9, WriteKeeps
<1>4. CASE Sheets!RequestRefused(c, sheet[c].title \in Sheets!Titles(f), "idle", ~sheet[c].current)
  <2>1. /\ Sheets!End(c, "idle") /\ UNCHANGED <<files, sheets, sheet, disturbed, raced, failed>>
        /\ rejected' = (rejected \/ ~~sheet[c].current)
        /\ ~(f.exists /\ sheet[c].title \in Sheets!Titles(f))
    BY <1>4, <1>r DEF Sheets!RequestRefused, Sheets!Refused
  <2>2. ~sheet[c].current
    <3> SUFFICES ASSUME sheet[c].current PROVE FALSE
      OBVIOUS
    <3>1. Shows(sheets[c], f) /\ sheet[c].title \in Sheets!Titles(f)
      BY <1>2, <1>f, SheetFresh
    <3> QED
      BY <2>1, <3>1 DEF Shows
  <2>3. rejected' = FALSE /\ failed' \in 0 .. MaxFailed
    BY <2>1, <2>2, KnownParts
  <2> QED
    BY <1>2, <2>1, <2>3, DeniedKeeps
<1> QED
  BY <1>1, <1>3, <1>4, <1>r DEF Sheets!Writes

(* The frame, to the tab at the position by now.                                 *)
LEMMA WriteFrameKeeps ==
  ASSUME SheetsKnown, OneSheetInv, NEW c \in Client, Sheets!WriteFrame(c)
  PROVE  SheetsInv'
<1>f. PICK f : f = files[sheets[c].id]
  OBVIOUS
<1>r. Sheets!Remote(c) = f
  BY <1>f DEF Sheets!Remote
<1>n. PICK n : n = IF call[c].position = None THEN Len(sheets[c].tabs) ELSE call[c].position
  OBVIOUS
<1>d. PICK deed : deed = [meant |-> call[c].id, reached |-> 0, undisturbed |-> ~crossed[c]]
  OBVIOUS
<1>t. PICK t : t = [call[c] EXCEPT !.then = "framed", !.position = n]
  OBVIOUS
<1>1. /\ location[c] = "write" /\ UNCHANGED called
      /\ \/ n \in DOMAIN sheets[c].tabs
            /\ Sheets!Writes(c, sheets[c].tabs[n].title, deed, "write", "refresh", t, crossed[c])
         \/ n \notin DOMAIN sheets[c].tabs /\ Sheets!Refused(c, "write", crossed[c]) /\ UNCHANGED failed
  BY <1>n, <1>d, <1>t DEF Sheets!WriteFrame
<1>2. /\ sheets[c].id # 0 /\ called' \in 0 .. MaxCalled /\ call[c].then = "frame"
      /\ call[c] \in SheetCall /\ crossed[c] \in BOOLEAN /\ sheets[c].tabs \in Seq(Sheets!CachedTab)
  BY <1>1, KnownParts DEF ProgramOK
<1>3. f \in Sheets!File /\ TabsOK(f)
  BY <1>2, <1>f, KnownParts
<1>4. ~disturbed[c] => Shows(sheets[c], f)
  BY <1>1, <1>2, <1>f, KnownParts DEF ProgramOK
<1>5. ~crossed[c] =>
        /\ Shows(sheets[c], f) /\ n \in DOMAIN f.tabs /\ f.tabs[n].id = call[c].id
        /\ DOMAIN sheets[c].tabs = DOMAIN f.tabs /\ sheets[c].tabs[n].title = f.tabs[n].title
  <2> HAVE ~crossed[c]
  <2>1. Shows(sheets[c], f) /\ Placed(f, call[c])
    BY <1>1, <1>2, <1>f, <2>1, KnownParts DEF ProgramOK
  <2>2. /\ Len(sheets[c].tabs) = Len(f.tabs) /\ DOMAIN sheets[c].tabs = DOMAIN f.tabs
        /\ \A i \in DOMAIN f.tabs : sheets[c].tabs[i].title = f.tabs[i].title
    BY <1>2, <1>f, <2>1, PayloadFresh
  <2> QED
    BY <1>n, <2>1, <2>2 DEF Placed
<1>6. sheets[c].id # 0 /\ ~disturbed[c] => Shows(sheets[c], files[sheets[c].id])
  BY <1>4, <1>f
<1>7. ASSUME Sheets!End(c, "write"), UNCHANGED <<files, sheets, sheet, disturbed, raced, failed>>,
             rejected' = (rejected \/ ~crossed[c]), crossed[c]
      PROVE  SheetsInv'
  <2>1. rejected' = FALSE /\ failed' \in 0 .. MaxFailed /\ disturbed'[c] = disturbed[c]
        /\ disturbed' \in [Client -> BOOLEAN]
    BY <1>7, KnownParts
  <2> QED
    BY <1>2, <1>6, <1>7, <2>1, EndKeeps
<1>8. CASE n \notin DOMAIN sheets[c].tabs /\ Sheets!Refused(c, "write", crossed[c]) /\ UNCHANGED failed
  BY <1>5, <1>7, <1>8 DEF Sheets!Refused
<1>9. CASE /\ n \in DOMAIN sheets[c].tabs
           /\ Sheets!RequestRefused(c, sheets[c].tabs[n].title \in Sheets!Titles(f), "write", crossed[c])
  <2>1. ~crossed[c] => f.exists /\ sheets[c].tabs[n].title \in Sheets!Titles(f)
    BY <1>5 DEF Shows, Sheets!Titles
  <2>2. ~(f.exists /\ sheets[c].tabs[n].title \in Sheets!Titles(f))
    BY <1>9, <1>r DEF Sheets!RequestRefused
  <2> QED
    BY <1>7, <1>9, <2>1, <2>2 DEF Sheets!RequestRefused, Sheets!Refused
<1>10. CASE /\ n \in DOMAIN sheets[c].tabs
            /\ Sheets!Goto(c, "write", "refresh")
            /\ \E i \in DOMAIN f.tabs :
                 /\ f.tabs[i].title = sheets[c].tabs[n].title
                 /\ files' = [files EXCEPT ![sheets[c].id] =
                                Sheets!WithDeed(f, i, [deed EXCEPT !.reached = f.tabs[i].id])]
            /\ Sheets!SetTask(c, t)
            /\ UNCHANGED <<sheets, sheet, disturbed, crossed, rejected, raced, failed>>
  <2>1. PICK i \in DOMAIN f.tabs :
                 /\ f.tabs[i].title = sheets[c].tabs[n].title
                 /\ files' = [files EXCEPT ![sheets[c].id] =
                                Sheets!WithDeed(f, i, [deed EXCEPT !.reached = f.tabs[i].id])]
    BY <1>10
  <2>d. PICK e : e = [deed EXCEPT !.reached = f.tabs[i].id]
    OBVIOUS
  <2>2. f.tabs[i].id \in Nat /\ call[c].id \in Nat
    BY <1>2, <1>3, FileParts DEF SheetCall
  <2>3. e = [meant |-> call[c].id, reached |-> f.tabs[i].id, undisturbed |-> ~crossed[c]]
    BY <1>d, <2>d
  <2>4. e \in Sheets!Deed
    BY <1>2, <2>2, <2>3 DEF Sheets!Deed
  <2>5. e.undisturbed => e.reached = e.meant
    <3> SUFFICES ASSUME ~crossed[c] PROVE f.tabs[i].id = call[c].id
      BY <2>3
    <3>1. n \in DOMAIN f.tabs /\ f.tabs[n].id = call[c].id /\ f.tabs[i].title = f.tabs[n].title
      BY <1>5, <2>1
    <3>2. i = n
      BY <1>3, <3>1, TitlesTell
    <3> QED
      BY <3>1, <3>2
  <2>6. /\ location' = [location EXCEPT ![c] = "refresh"]
        /\ call' = [call EXCEPT ![c] = t] /\ ~Sheets!Creating(c) /\ failed' \in 0 .. MaxFailed
    BY <1>1, <1>10, KnownParts DEF Sheets!Goto, Sheets!SetTask, Sheets!Creating
  <2>7. t \in SheetCall /\ t.then = "framed"
    <3>1. n \in Nat
      BY <1>2, <1>10
    <3> QED
      BY <1>2, <1>t, <3>1 DEF SheetCall
  <2>8. ~disturbed[c] => f.exists
    BY <1>4 DEF Shows
  <2>9. files' = [files EXCEPT ![sheets[c].id] = Sheets!WithDeed(f, i, e)]
    BY <2>1, <2>d
  <2>10. t.then \in {"rebind", "framed"} /\ t.then # "rebind"
    BY <2>7
  <2> QED
    BY <1>2, <1>10, <1>f, <2>4, <2>5, <2>6, <2>7, <2>8, <2>9, <2>10, WriteKeeps
<1> QED
  BY <1>1, <1>8, <1>9, <1>10, <1>r DEF Sheets!Writes

LEMMA RefreshKeeps ==
  ASSUME SheetsKnown, OneSheetInv, NEW c \in Client, Sheets!Refresh(c)
  PROVE  SheetsInv'
<1>f. PICK f : f = files[sheets[c].id]
  OBVIOUS
<1>r. Sheets!Remote(c) = f
  BY <1>f DEF Sheets!Remote
<1>p. PICK tabs : tabs = Sheets!Snapshot(f)
  OBVIOUS
<1>o. PICK o : o = [sheets[c] EXCEPT !.tabs = tabs]
  OBVIOUS
<1>n. PICK number : number = IF call[c].then = "rebind" THEN sheet[c].index + 1
                             ELSE IF call[c].then = "framed" THEN call[c].position ELSE 1
  OBVIOUS
<1>s. PICK s : s = IF call[c].then = "rebind" /\ number \in DOMAIN tabs THEN Sheets!Rebound(c, tabs) ELSE sheet[c]
  OBVIOUS
<1>1. /\ location[c] = "refresh" /\ f.exists /\ disturbed' = [disturbed EXCEPT ![c] = FALSE]
      /\ sheet' = [sheet EXCEPT ![c] = s]
      /\ UNCHANGED <<files, rejected, raced, called, failed>>
      /\ IF call[c].then = "frame"
         THEN Sheets!Goto(c, "refresh", "write") /\ UNCHANGED <<call, crossed>>
         ELSE Sheets!End(c, "refresh")
  BY <1>r, <1>p, <1>n, <1>s DEF Sheets!Refresh
<1>2. sheets' = [sheets EXCEPT ![c].tabs = tabs]
  BY <1>r, <1>p DEF Sheets!Refresh
<1>3. /\ sheets[c].id # 0 /\ sheets[c].id # 1 /\ f \in Sheets!File /\ sheets[c] \in Objects(Len(files))
  BY <1>1, <1>f, KnownParts DEF ProgramOK
<1>4. tabs \in Seq(Sheets!CachedTab)
  BY <1>3, <1>p, PayloadParts
<1>5. o \in Objects(Len(files)) /\ o.id = sheets[c].id /\ o.tabs = tabs /\ sheets' = [sheets EXCEPT ![c] = o]
  BY <1>2, <1>3, <1>4, <1>o DEF Objects
<1>6. Shows(o, files[o.id])
  BY <1>1, <1>5, <1>f, <1>p DEF Shows
<1>7. s \in Sheets!SheetObject \cup {None} /\ SheetOK(files, o, s)
  <2>1. SheetOK(files, sheets[c], sheet[c]) /\ sheet[c] \in Sheets!SheetObject \cup {None}
    BY KnownParts DEF ProgramOK
  <2>2. sheet[c] # None /\ sheet[c].current => sheets[c].tabs = tabs
    BY <1>f, <1>p, <2>1 DEF SheetOK, Shows
  <2>3. CASE s = sheet[c]
    BY <1>5, <1>6, <2>1, <2>2, <2>3 DEF SheetOK
  <2>4. CASE call[c].then = "rebind" /\ number \in DOMAIN tabs /\ s = Sheets!Rebound(c, tabs)
    <3>1. sheet[c] \in Sheets!SheetObject /\ number = sheet[c].index + 1
      BY <1>n, <2>4, KnownParts DEF ProgramOK
    <3>t. PICK title : title = tabs[number].title
      OBVIOUS
    <3>2. title \in Title \cup Nat
      <4>1. tabs[number] \in Sheets!CachedTab
        BY <1>4, <2>4
      <4> QED
        BY <3>t, <4>1 DEF Sheets!CachedTab
    <3>3. s = [sheet[c] EXCEPT !.title = title]
      BY <2>4, <3>1, <3>t DEF Sheets!Rebound
    <3>4. /\ s \in Sheets!SheetObject /\ s.id = sheet[c].id /\ s.title = title
          /\ s.index = sheet[c].index /\ s.current = sheet[c].current
      BY <3>1, <3>2, <3>3 DEF Sheets!SheetObject
    <3>5. ASSUME sheet[c].current PROVE SheetOK(files, o, s)
      <4>1. /\ sheets[c].tabs = tabs /\ number \in DOMAIN tabs
            /\ tabs[number] = [id |-> sheet[c].id, title |-> sheet[c].title]
        BY <2>1, <2>2, <3>1, <3>5, SheetsConstants DEF SheetOK
      <4>2. title = sheet[c].title
        BY <3>t, <4>1
      <4> QED
        BY <1>3, <1>5, <1>6, <3>1, <3>4, <4>1, <4>2 DEF SheetOK
    <3>6. ~sheet[c].current => SheetOK(files, o, s)
      BY <3>4 DEF SheetOK
    <3> QED
      BY <3>4, <3>5, <3>6
  <2> QED
    BY <1>s, <2>3, <2>4
<1>8. ASSUME NEW l \in Sheets!Location, NEW t \in SheetCall, NEW x \in BOOLEAN,
             location' = [location EXCEPT ![c] = l], call' = [call EXCEPT ![c] = t],
             crossed' = [crossed EXCEPT ![c] = x], l \in {"idle", "write"},
             ProgramOK(files, o, s, l, t, FALSE, x)
      PROVE  SheetsInv'
  <2>1. SheetsTypes'
    BY <1>1, <1>5, <1>7, <1>8, KnownParts DEF SheetsTypes
  <2>2. Own(c) /\ Alone(c)
    BY <1>1, <1>5, <1>8, KnownParts DEF Own, Alone
  <2>3. Knows(c)'
    <3>1. /\ location'[c] = l /\ call'[c] = t /\ crossed'[c] = x /\ sheets'[c] = o /\ sheet'[c] = s
          /\ disturbed'[c] = FALSE
      BY <1>1, <1>5, <1>8, KnownParts
    <3> QED
      BY <1>1, <1>8, <3>1 DEF Knows
  <2>4. SheetsKnown'
    BY <1>1, <2>1, <2>2, <2>3, KnownParts, AloneKnown
  <2>5. OneSheetInv'
    <3>1. \A j \in Sheets!Namesakes' : j \in Sheets!Namesakes
      BY <1>1 DEF Sheets!Namesakes
    <3>2. \A d \in Client : Sheets!Creating(d)' => Sheets!Creating(d)
      BY <1>8, KnownParts DEF Sheets!Creating
    <3> QED
      BY <1>1, <3>1, <3>2, OneKept
  <2> QED
    BY <2>4, <2>5 DEF SheetsInv
<1>9. CASE call[c].then = "frame"
  <2>l. PICK l : l = "write"
    OBVIOUS
  <2>t. PICK t : t = call[c]
    OBVIOUS
  <2>x. PICK x \in BOOLEAN : x = crossed[c]
    BY KnownParts
  <2>1. /\ l \in Sheets!Location /\ t \in SheetCall /\ l \in {"idle", "write"}
        /\ location' = [location EXCEPT ![c] = l] /\ call' = [call EXCEPT ![c] = t]
        /\ crossed' = [crossed EXCEPT ![c] = x]
    BY <1>1, <1>9, <2>l, <2>t, <2>x, KnownParts DEF Sheets!Goto, Sheets!Location
  <2>2. ProgramOK(files, o, s, l, t, FALSE, x)
    <3>1. ProgramOK(files, sheets[c], sheet[c], "refresh", call[c], disturbed[c], crossed[c])
      BY <1>1, KnownParts
    <3>2. ~x => Placed(files[o.id], t)
      BY <1>5, <1>9, <2>t, <2>x, <3>1 DEF ProgramOK
    <3> QED
      BY <1>3, <1>5, <1>6, <1>7, <1>9, <2>l, <2>t, <3>2 DEF ProgramOK
  <2> QED
    BY <1>8, <2>1, <2>2
<1>10. CASE call[c].then # "frame"
  <2>l. PICK l : l = "idle"
    OBVIOUS
  <2>t. PICK t : t = Sheets!NoTask
    OBVIOUS
  <2>x. PICK x \in BOOLEAN : x = FALSE
    OBVIOUS
  <2>1. /\ l \in Sheets!Location /\ t \in SheetCall /\ l \in {"idle", "write"}
        /\ location' = [location EXCEPT ![c] = l] /\ call' = [call EXCEPT ![c] = t]
        /\ crossed' = [crossed EXCEPT ![c] = x]
    BY <1>1, <1>10, <2>l, <2>t, <2>x, NoCall DEF Sheets!End, Sheets!Goto, Sheets!SetTask
  <2>2. ProgramOK(files, o, s, l, t, FALSE, x)
    BY <1>3, <1>5, <1>6, <1>7, <2>l, <2>t, NoCall DEF ProgramOK
  <2> QED
    BY <1>8, <2>1, <2>2
<1> QED
  BY <1>9, <1>10

LEMMA ReloadKeeps ==
  ASSUME SheetsKnown, OneSheetInv, NEW c \in Client, Sheets!Reload(c)
  PROVE  SheetsInv'
<1>1. /\ sheets[c].id # 0 /\ called' \in 0 .. MaxCalled /\ location[c] = "idle"
      /\ location' = [location EXCEPT ![c] = "refresh"]
      /\ UNCHANGED <<files, sheets, sheet, call, disturbed, crossed, rejected, raced, failed>>
  BY CallCounted DEF Sheets!Reload, Sheets!OnObject, Sheets!Goto
<1>2. SheetsTypes'
  <2>1. "refresh" \in Sheets!Location
    BY DEF Sheets!Location
  <2> QED
    BY <1>1, <2>1, KnownParts DEF SheetsTypes
<1>3. Own(c) /\ Alone(c)
  BY <1>1, KnownParts DEF Own, Alone
<1>4. Knows(c)'
  <2>1. location'[c] = "refresh"
    BY <1>1, KnownParts
  <2>2. ProgramOK(files, sheets[c], sheet[c], "idle", call[c], disturbed[c], crossed[c])
    BY <1>1, KnownParts
  <2>3. ProgramOK(files, sheets[c], sheet[c], "refresh", call[c], disturbed[c], crossed[c])
    BY <1>1, <2>2 DEF ProgramOK, Shows
  <2> QED
    BY <1>1, <2>1, <2>3 DEF Knows
<1>5. SheetsKnown'
  BY <1>1, <1>2, <1>3, <1>4, KnownParts, AloneKnown
<1>6. OneSheetInv'
  <2>1. \A j \in Sheets!Namesakes' : j \in Sheets!Namesakes
    BY <1>1 DEF Sheets!Namesakes
  <2>2. \A d \in Client : Sheets!Creating(d)' => Sheets!Creating(d)
    BY <1>1, KnownParts DEF Sheets!Creating
  <2> QED
    BY <1>1, <2>1, <2>2, OneKept
<1> QED
  BY <1>5, <1>6 DEF SheetsInv

LEMMA FileGoneKeeps ==
  ASSUME SheetsKnown, OneSheetInv, NEW c \in Client, Sheets!FileGone(c)
  PROVE  SheetsInv'
<1>1. UNCHANGED <<called, failed>>
  BY DEF Sheets!FileGone
<1>2. called' \in 0 .. MaxCalled /\ failed' \in 0 .. MaxFailed
  BY <1>1, KnownParts
<1>3. CASE Sheets!Refused(c, "refresh", disturbed[c]) /\ ~Sheets!Remote(c).exists
  <2>1. /\ Sheets!End(c, "refresh") /\ UNCHANGED <<files, sheets, sheet, disturbed, raced>>
        /\ rejected' = (rejected \/ ~disturbed[c]) /\ ~files[sheets[c].id].exists /\ location[c] = "refresh"
    BY <1>3 DEF Sheets!Refused, Sheets!Remote, Sheets!End, Sheets!Goto
  <2>2. disturbed[c]
    BY <2>1, KnownParts DEF ProgramOK
  <2>3. rejected' = FALSE /\ disturbed'[c] = disturbed[c] /\ disturbed' \in [Client -> BOOLEAN]
    BY <2>1, <2>2, KnownParts
  <2> QED
    BY <1>2, <2>1, <2>2, <2>3, EndKeeps
<1>4. CASE Sheets!Refused(c, "retrieve", TRUE)
  <2>1. /\ Sheets!End(c, "retrieve") /\ UNCHANGED <<files, sheets, sheet, disturbed, raced>>
        /\ rejected' = rejected /\ location[c] = "retrieve"
    BY <1>4, KnownParts DEF Sheets!Refused, Sheets!End, Sheets!Goto
  <2>2. sheets[c].id # 0 /\ ~disturbed[c] => Shows(sheets[c], files[sheets[c].id])
    BY <2>1, KnownParts DEF ProgramOK
  <2>3. rejected' = FALSE /\ disturbed'[c] = disturbed[c] /\ disturbed' \in [Client -> BOOLEAN]
    BY <2>1, KnownParts
  <2> QED
    BY <1>2, <2>1, <2>2, <2>3, EndKeeps
<1> QED
  BY <1>3, <1>4 DEF Sheets!FileGone

LEMMA SheetRequestFailsKeeps ==
  ASSUME SheetsKnown, OneSheetInv, NEW c \in Client, Sheets!RequestFails(c)
  PROVE  SheetsInv'
<1>l. PICK l : l = location[c]
  OBVIOUS
<1>1. /\ Sheets!End(c, l) /\ disturbed' = [disturbed EXCEPT ![c] = TRUE]
      /\ failed < MaxFailed /\ failed' = failed + 1
      /\ UNCHANGED <<files, sheets, sheet, rejected, raced, called>>
  BY <1>l DEF Sheets!RequestFails
<1>2. failed' \in 0 .. MaxFailed
  <2>1. failed \in 0 .. MaxFailed /\ MaxFailed \in Nat
    BY KnownParts, SheetsConstants
  <2> QED
    BY <1>1, <2>1
<1>3. /\ disturbed'[c] = TRUE /\ disturbed' \in [Client -> BOOLEAN]
      /\ \A d \in Client \ {c} : disturbed'[d] = disturbed[d]
      /\ rejected' = FALSE /\ called' \in 0 .. MaxCalled
  BY <1>1, KnownParts
<1> QED
  BY <1>1, <1>2, <1>3, EndKeeps

-----------------------------------------------------------------------------
(* The invariant, and what it says.                                        *)

LEMMA SheetsBegin == Sheets!Init => SheetsInv
<1> SUFFICES ASSUME Sheets!Init PROVE SheetsInv
  OBVIOUS
<1>1. /\ sheet = [c \in Client |-> None] /\ location = [c \in Client |-> "idle"]
      /\ call = [c \in Client |-> Sheets!NoTask] /\ disturbed = [c \in Client |-> FALSE]
      /\ crossed = [c \in Client |-> FALSE] /\ rejected = FALSE /\ raced = FALSE /\ called = 0 /\ failed = 0
  BY DEF Sheets!Init
<1>2. 0 \in 0 .. MaxCalled /\ 0 \in 0 .. MaxFailed
  BY SheetsConstants
<1>3. ASSUME NEW fs \in Seq(Sheets!File), files = fs, 1 \in DOMAIN fs, \A k \in DOMAIN fs : TabsOK(fs[k]),
             NEW o \in Objects(Len(fs)), sheets = [c \in Client |-> o],
             ProgramOK(fs, o, None, "idle", Sheets!NoTask, FALSE, FALSE),
             \A f, g \in DOMAIN fs \ {1} : f = g
      PROVE  SheetsInv
  <2>1. SheetsTypes
    BY <1>1, <1>2, <1>3, NoCall DEF SheetsTypes
  <2>2. ASSUME NEW c \in Client
        PROVE  ProgramOK(files, sheets[c], sheet[c], location[c], call[c], disturbed[c], crossed[c])
    <3>1. /\ sheets[c] = o /\ sheet[c] = None /\ location[c] = "idle" /\ call[c] = Sheets!NoTask
          /\ disturbed[c] = FALSE /\ crossed[c] = FALSE
      BY <1>1, <1>3
    <3> QED
      BY <1>3, <3>1
  <2>3. OneSheetInv
    BY <1>1, <1>3 DEF OneSheetInv, Sheets!Namesakes, Sheets!Creating
  <2> QED
    BY <1>1, <1>3, <2>1, <2>2, <2>3 DEF SheetsInv, SheetsKnown
<1>4. PICK one : one = Sheets!Blank(1)
  OBVIOUS
<1>5. PICK two : two = Sheets!Blank(2)
  OBVIOUS
<1>6. /\ one \in Sheets!File /\ TabsOK(one) /\ two \in Sheets!File /\ TabsOK(two) /\ two.exists = TRUE
  BY <1>4, <1>5, BlankFile
<1>7. CASE files = <<Sheets!Blank(1)>> /\ sheets = [c \in Client |-> [id |-> 0, tabs |-> <<>>]]
  <2>f. PICK fs : fs = <<one>>
    OBVIOUS
  <2>o. PICK o : o = [id |-> 0, tabs |-> <<>>]
    OBVIOUS
  <2>1. /\ fs \in Seq(Sheets!File) /\ 1 \in DOMAIN fs /\ DOMAIN fs = {1} /\ fs[1] = one /\ Len(fs) = 1
    BY <1>6, <2>f
  <2>2. o \in Objects(Len(fs)) /\ o.id = 0 /\ o.tabs = <<>>
    <3>q. PICK q : q = <<>>
      OBVIOUS
    <3>1. q \in Seq(Sheets!CachedTab)
      BY <3>q
    <3>2. o = [id |-> 0, tabs |-> q]
      BY <2>o, <3>q
    <3>3. 0 \in 0 .. Len(fs)
      BY <2>1
    <3> QED
      BY <3>q, <3>1, <3>2, <3>3 DEF Objects
  <2>3. ProgramOK(fs, o, None, "idle", Sheets!NoTask, FALSE, FALSE)
    BY <2>2, NoCall DEF ProgramOK, SheetOK
  <2>4. files = fs /\ sheets = [c \in Client |-> o]
    BY <1>4, <1>7, <2>f, <2>o
  <2>5. (\A k \in DOMAIN fs : TabsOK(fs[k])) /\ \A f, g \in DOMAIN fs \ {1} : f = g
    BY <1>6, <2>1
  <2> QED
    BY <1>3, <2>1, <2>2, <2>3, <2>4, <2>5
<1>8. CASE files = <<Sheets!Blank(1), Sheets!Blank(2)>>
           /\ sheets = [c \in Client |-> [id |-> 2, tabs |-> Sheets!Snapshot(Sheets!Blank(2))]]
  <2>f. PICK fs : fs = <<one, two>>
    OBVIOUS
  <2>o. PICK o : o = [id |-> 2, tabs |-> Sheets!Snapshot(two)]
    OBVIOUS
  <2>1. /\ fs \in Seq(Sheets!File) /\ 1 \in DOMAIN fs /\ DOMAIN fs = {1, 2} /\ fs[1] = one /\ fs[2] = two /\ Len(fs) = 2
    BY <1>6, <2>f
  <2>2. o \in Objects(Len(fs)) /\ ProgramOK(fs, o, None, "idle", Sheets!NoTask, FALSE, FALSE)
    <3>i. PICK id : id = 2
      OBVIOUS
    <3>1. id \in DOMAIN fs /\ id # 1 /\ fs[id].exists /\ o = [id |-> id, tabs |-> Sheets!Snapshot(fs[id])]
      BY <1>6, <2>1, <2>o, <3>i
    <3> QED
      BY <2>1, <3>1, Bound
  <2>4. files = fs /\ sheets = [c \in Client |-> o]
    BY <1>4, <1>5, <1>8, <2>f, <2>o
  <2>5. (\A k \in DOMAIN fs : TabsOK(fs[k])) /\ \A f, g \in DOMAIN fs \ {1} : f = g
    BY <1>6, <2>1
  <2> QED
    BY <1>3, <2>1, <2>2, <2>4, <2>5
<1> QED
  BY <1>7, <1>8 DEF Sheets!Init

LEMMA SheetsNext == SheetsInv /\ Sheets!Next => SheetsInv'
<1> SUFFICES ASSUME SheetsInv, Sheets!Next PROVE SheetsInv'
  OBVIOUS
<1>1. SheetsKnown /\ OneSheetInv
  BY DEF SheetsInv
<1>2. PICK c \in Client :
        \/ \E template \in BOOLEAN : Sheets!Get(c, template)
        \/ Sheets!Retrieve(c) \/ Sheets!CopyTemplate(c) \/ Sheets!CreateNew(c) \/ Sheets!CreateNewLost(c)
        \/ Sheets!Reset(c)
        \/ \E n \in 1 .. MaxTabs : Sheets!SheetNumber(c, n)
        \/ \E title \in Title : Sheets!RenameSheet(c, title)
        \/ \E position \in Column \cup {None} : Sheets!MoveSheet(c, position)
        \/ Sheets!DeleteSheet(c)
        \/ \E title \in Title \cup {None}, position \in Column \cup {None} :
             \/ \E then \in {"return", "frame"} : Sheets!InsertSheet(c, title, position, then)
             \/ \E given \in BOOLEAN : Sheets!CopySheet(c, given, title, position)
        \/ Sheets!Arrange(c) \/ Sheets!Insert(c) \/ Sheets!WriteFrame(c) \/ Sheets!Reload(c)
        \/ Sheets!Refresh(c) \/ Sheets!FileGone(c) \/ Sheets!RequestFails(c)
  BY DEF Sheets!Next
<1>3. ASSUME NEW template \in BOOLEAN, Sheets!Get(c, template) PROVE SheetsInv'
  BY <1>1, <1>3, GetSheetsKeeps
<1>4. ASSUME Sheets!Retrieve(c) \/ Sheets!CopyTemplate(c) \/ Sheets!CreateNew(c) \/ Sheets!CreateNewLost(c)
             \/ Sheets!Reset(c)
      PROVE  SheetsInv'
  BY <1>1, <1>4, RetrieveSheetsKeeps, CopyTemplateKeeps, CreateNewKeeps, CreateNewLostKeeps, ResetSheetsKeeps
<1>5. ASSUME NEW n \in 1 .. MaxTabs, Sheets!SheetNumber(c, n) PROVE SheetsInv'
  BY <1>1, <1>5, SheetNumberKeeps
<1>6. ASSUME NEW title \in Title, Sheets!RenameSheet(c, title) PROVE SheetsInv'
  BY <1>1, <1>6, RenameSheetKeeps
<1>7. ASSUME NEW position \in Column \cup {None}, Sheets!MoveSheet(c, position) PROVE SheetsInv'
  BY <1>1, <1>7, MoveSheetKeeps
<1>8. ASSUME NEW title \in Title \cup {None}, NEW position \in Column \cup {None},
             NEW then \in {"return", "frame"}, Sheets!InsertSheet(c, title, position, then)
      PROVE  SheetsInv'
  BY <1>1, <1>8, InsertSheetKeeps
<1>9. ASSUME NEW title \in Title \cup {None}, NEW position \in Column \cup {None},
             NEW given \in BOOLEAN, Sheets!CopySheet(c, given, title, position)
      PROVE  SheetsInv'
  BY <1>1, <1>9, CopySheetKeeps
<1>10. ASSUME Sheets!DeleteSheet(c) \/ Sheets!Arrange(c) \/ Sheets!Insert(c) \/ Sheets!WriteFrame(c)
       PROVE  SheetsInv'
  BY <1>1, <1>10, DeleteSheetKeeps, ArrangeKeeps, InsertKeeps, WriteFrameKeeps
<1>11. ASSUME Sheets!Reload(c) \/ Sheets!Refresh(c) \/ Sheets!FileGone(c) \/ Sheets!RequestFails(c)
       PROVE  SheetsInv'
  BY <1>1, <1>11, ReloadKeeps, RefreshKeeps, FileGoneKeeps, SheetRequestFailsKeeps
<1> QED
  BY <1>2, <1>3, <1>4, <1>5, <1>6, <1>7, <1>8, <1>9, <1>10, <1>11

\* The step that does nothing, to the spreadsheets at least.
LEMMA SheetsStay == SheetsInv /\ UNCHANGED sheetsVars => SheetsInv'
BY DEF sheetsVars, SheetsInv, SheetsKnown, SheetsTypes, OneSheetInv, Sheets!Namesakes, Sheets!Creating

LEMMA TabsKept == SheetsInv => Sheets!TypeOK /\ Sheets!CallsReachTheirTab /\ Sheets!ChecksSuffice
                               /\ Sheets!PayloadIsCurrent /\ Sheets!OneOfTheName
<1> SUFFICES ASSUME SheetsInv
             PROVE  /\ Sheets!TypeOK /\ Sheets!CallsReachTheirTab /\ Sheets!ChecksSuffice
                    /\ Sheets!PayloadIsCurrent /\ Sheets!OneOfTheName
  OBVIOUS
<1>1. SheetsKnown /\ OneSheetInv
  BY DEF SheetsInv
<1>2. Sheets!TypeOK
  <2>1. \A c \in Client : location[c] \in {"arrange", "refresh", "write"} => sheets[c].id # 0
    BY <1>1, KnownParts DEF ProgramOK
  <2>2. rejected \in BOOLEAN
    BY <1>1 DEF SheetsKnown
  <2> QED
    BY <1>1, <2>1, <2>2 DEF Sheets!TypeOK, SheetsKnown, SheetsTypes, Objects, SheetCall
<1>3. Sheets!CallsReachTheirTab
  BY <1>1 DEF Sheets!CallsReachTheirTab, SheetsKnown, TabsOK
<1>4. Sheets!ChecksSuffice
  BY <1>1 DEF Sheets!ChecksSuffice, SheetsKnown
<1>5. Sheets!PayloadIsCurrent
  BY <1>1, KnownParts DEF Sheets!PayloadIsCurrent, Sheets!Remote, ProgramOK, Shows
<1>6. Sheets!OneOfTheName
  <2> SUFFICES ASSUME ~raced PROVE Sheets!Cardinality(Sheets!Namesakes) <= 1
    BY DEF Sheets!OneOfTheName
  <2>1. \A f, g \in Sheets!Namesakes : f = g
    BY <1>1 DEF OneSheetInv
  <2>2. Cardinality(Sheets!Namesakes) \in {0, 1}
    <3>1. CASE Sheets!Namesakes = {}
      BY <3>1, FS_EmptySet
    <3>2. ASSUME NEW f \in Sheets!Namesakes PROVE Cardinality(Sheets!Namesakes) = 1
      <4>1. Sheets!Namesakes = {f}
        BY <2>1
      <4>2. Cardinality({f}) = 1
        BY FS_Singleton
      <4> QED
        BY <4>1, <4>2
    <3> QED
      BY <3>1, <3>2
  <2>3. Sheets!Cardinality(Sheets!Namesakes) = Cardinality(Sheets!Namesakes)
    BY Zenon DEF Cardinality, Sheets!Cardinality
  <2>4. \A n : n \in {0, 1} => n <= 1
    OBVIOUS
  <2> QED
    BY <2>2, <2>3, <2>4
<1> QED
  BY <1>2, <1>3, <1>4, <1>5, <1>6

(* However many programs edit however many spreadsheets, with requests that    *)
(* fail, are lost or go by a payload that is out of date: a frame, a write or  *)
(* a copy reaches the tab it is meant for as long as no one changed the tabs   *)
(* since; a payload is out of date only when others have edited or a request   *)
(* failed, and only then the service refuses what the checks let through; and  *)
(* get or create leaves one spreadsheet of the name, unless two programs were  *)
(* creating it together (sheets, Sheets and Sheet).                            *)
THEOREM TabsAreReached == PartsSpec => []TabsAreAsMeant
<1> DEFINE Inv == part = "sheets" => SheetsInv
<1>1. PartsInit => Inv
  BY SheetsBegin DEF PartsInit
<1>2. Inv /\ [PartsNext]_<<part, vars, sheetsVars>> => Inv'
  BY SheetsNext, SheetsStay DEF PartsNext
<1>3. Inv => TabsAreAsMeant
  BY TabsKept DEF TabsAreAsMeant
<1> QED
  BY <1>1, <1>2, <1>3, PTL DEF PartsSpec
=============================================================================
