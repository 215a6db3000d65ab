-------------------------- MODULE IngestionProofs ---------------------------
(***************************************************************************)
(* For any number of syncs, files, rows, channels, versions and messages   *)
(* and any limit of a call: the watermarks of the connectors are never     *)
(* ahead of what was copied, but for what the properties except.           *)
(*                                                                         *)
(* For any number of passes, items and facts: a fact is proposed once, and *)
(* candidates keep their sources, where passes do not overlap.  The two    *)
(* components share no variable: each theorem is about one of them.        *)
(***************************************************************************)
EXTENDS ConnectorSync, KnowledgeDistiller, TLAPS

-----------------------------------------------------------------------------
(* What Drive brings in *)

DriveTypes ==
  /\ remote \in [Files -> Versions]
  /\ copy \in [Paths -> [file : Files \cup {Null}, version : Versions]]
  /\ drive \in [Rows -> [status : DriveStatus, file : Files \cup {Null}, path : Paths \cup {Null},
                         seen : Versions]]
  /\ job \in [Jobs -> JobStates]
  /\ disputed \subseteq Paths /\ astray \subseteq Rows

\* A row that was made is of a file and a path, which it keeps.
Made(r) == /\ r \in Rows /\ drive[r].status # "none"
           /\ drive[r].file \in Files /\ drive[r].path \in Paths

AtWork == {"recheck", "content", "write", "find", "row"}

\* What a sync works on: connections that exist, and a row of the file at hand.
Works(x) ==
  /\ \A c \in x.list : Made(c.row)
  /\ x.at \in AtWork => x.file \in Files /\ x.path \in Paths
  /\ x.at = "meta" /\ x.pick => x.file \in Files
  /\ x.at \notin AtWork \/ (x.pick /\ x.at # "row") => x.row = Null
  /\ x.at = "find" => x.pick
  /\ ~x.pick /\ x.at \in AtWork => Made(x.row) /\ x.path = drive[x.row].path
  /\ x.at \in AtWork /\ x.row # Null => Made(x.row) /\ x.file = drive[x.row].file

\* The content a sync holds is no older than its metadata and than the copy it is
\* to replace, where no other content is on its way; then the copy is no older.
Carries(x) ==
  /\ x.at \in {"recheck", "content", "write"} => x.meta <= remote[x.file]
  /\ x.at = "write" => /\ x.meta <= x.content /\ x.content <= remote[x.file]
                       /\ x.path \notin disputed => /\ copy[x.path].file \in {Null, x.file}
                                                    /\ copy[x.path].version <= x.content
  /\ x.at \in {"find", "row"} /\ x.path \notin disputed =>
       copy[x.path].file = x.file /\ x.meta <= copy[x.path].version

\* Nothing has seen a version that is yet to come.
Copies == \A p \in Paths : IF copy[p].file = Null THEN copy[p].version = 0
                           ELSE copy[p].version <= remote[copy[p].file]

OneContent ==
  \A i, k \in Jobs : job[i].at = "write" /\ job[k].at = "write" /\ job[i].path = job[k].path
                     /\ job[i].path \notin disputed =>
                       job[i].file = job[k].file /\ job[i].content = job[k].content

RowsMade == \A r \in Rows : drive[r].status # "none" => Made(r)

DriveIInv == /\ DriveTypes /\ Copies /\ OneContent /\ RowsMade /\ RowIsNotAheadOfCopy
             /\ \A j \in Jobs : Works(job[j]) /\ Carries(job[j])

\* Records that differ from Idle in a field or two.
LEMMA IdleWith ==
  ASSUME NEW at \in Stages, NEW pick \in BOOLEAN, NEW file \in Files \cup {Null},
         NEW list \in SUBSET [row : Rows, seen : Versions]
  PROVE  /\ [Idle EXCEPT !.at = at, !.list = list] \in JobStates
         /\ [Idle EXCEPT !.at = at, !.pick = pick, !.file = file] \in JobStates
         /\ Idle \in JobStates
<1>1. Idle \in JobStates
  BY SyncAssumption DEF Idle, JobStates, Stages, Versions
<1>2. PICK x \in JobStates : x = Idle
  BY <1>1
<1>3. /\ [x EXCEPT !.at = at, !.list = list] \in JobStates
      /\ [x EXCEPT !.at = at, !.pick = pick, !.file = file] \in JobStates
  BY DEF JobStates
<1>4. QED
  BY <1>1, <1>2, <1>3

LEMMA IdleIsJobState == Idle \in JobStates /\ Works(Idle) /\ Carries(Idle)
  BY SyncAssumption DEF Idle, JobStates, Stages, Versions, Works, Carries, AtWork

\* The rows keep what they are of, and say the same of it.
SameRows == \A r \in Rows : /\ drive'[r].file = drive[r].file /\ drive'[r].path = drive[r].path
                            /\ drive'[r].seen = drive[r].seen
                            /\ drive'[r].status = "none" <=> drive[r].status = "none"

\* A step of a sync that writes neither the copy nor a version.
LEMMA MovesOn ==
  ASSUME DriveIInv, NEW j \in Jobs, NEW r \in JobStates, Set(j, r),
         UNCHANGED <<remote, copy, disputed, astray>>, SameRows,
         drive' \in [Rows -> [status : DriveStatus, file : Files \cup {Null},
                              path : Paths \cup {Null}, seen : Versions]],
         r.at # "write", Works(r), Carries(r)
  PROVE  DriveIInv'
<1>1. \A i \in Jobs : job'[i] = IF i = j THEN r ELSE job[i]
  BY DEF DriveIInv, DriveTypes, Set
<1>2. DriveTypes'
  BY DEF DriveIInv, DriveTypes, Set
<1>3. \A q : Made(q) <=> Made(q)'
  BY DEF Made, SameRows
<1>4. \A i \in Jobs : Works(job[i])' /\ Carries(job[i])'
  <2>1. \A x : Works(x) => Works(x)'
    BY <1>3 DEF Works, SameRows, Made
  <2>2. \A x : Carries(x) => Carries(x)'
    BY DEF Carries
  <2>3. \A i \in Jobs : Works(job'[i]) /\ Carries(job'[i])
    BY <1>1 DEF DriveIInv
  <2>4. QED
    BY <2>1, <2>2, <2>3 DEF Works, Carries, SameRows, Made
<1>5. Copies' /\ OneContent'
  BY <1>1 DEF DriveIInv, Copies, OneContent
<1>6. RowsMade' /\ RowIsNotAheadOfCopy'
  BY <1>3 DEF DriveIInv, RowsMade, RowIsNotAheadOfCopy, SameRows
<1>7. QED
  BY <1>2, <1>4, <1>5, <1>6 DEF DriveIInv

\* The records a sync goes on with.
LEMMA NextRowKeeps ==
  ASSUME DriveIInv, NEW j \in Jobs, NEW r
  PROVE  /\ NextRow(j, r) \in JobStates /\ NextRow(j, r).at # "write"
         /\ Works(NextRow(j, r)) /\ Carries(NextRow(j, r))
<1>1. PICK x \in JobStates : x = job[j] /\ Works(x)
  BY DEF DriveIInv, DriveTypes
<1>2. PICK l : l = {c \in x.list : c.row # r}
  OBVIOUS
<1>3. l \in SUBSET [row : Rows, seen : Versions] /\ \A c \in l : Made(c.row)
  BY <1>1, <1>2 DEF JobStates, Works
<1>4. CASE l = {}
  BY <1>1, <1>2, <1>4, IdleIsJobState DEF NextRow, Idle
<1>5. CASE l # {}
  <2>1. NextRow(j, r) = [Idle EXCEPT !.at = "meta", !.list = l]
    BY <1>1, <1>2, <1>5 DEF NextRow
  <2>2. [Idle EXCEPT !.at = "meta", !.list = l] \in JobStates
    BY <1>3, IdleWith DEF Stages
  <2>3. /\ [Idle EXCEPT !.at = "meta", !.list = l].at = "meta"
        /\ [Idle EXCEPT !.at = "meta", !.list = l].list = l
        /\ [Idle EXCEPT !.at = "meta", !.list = l].pick = FALSE
        /\ [Idle EXCEPT !.at = "meta", !.list = l].row = Null
    BY DEF Idle
  <2>4. QED
    BY <1>3, <2>1, <2>2, <2>3 DEF Works, Carries, AtWork
<1>6. QED
  BY <1>4, <1>5

LEMMA ListStep ==
  ASSUME DriveIInv, NEW j \in Jobs, List(j)
  PROVE  DriveIInv'
<1>1. PICK l : /\ l = {[row |-> r, seen |-> drive[r].seen] : r \in {q \in Rows : drive[q].status = "active"}}
               /\ Set(j, [Idle EXCEPT !.at = "meta", !.list = l])
  BY DEF List
<1>2. l \in SUBSET [row : Rows, seen : Versions] /\ \A c \in l : Made(c.row)
  <2>1. \A r \in Rows : drive[r].seen \in Versions
    BY DEF DriveIInv, DriveTypes
  <2>2. QED
    BY <1>1, <2>1 DEF DriveIInv, RowsMade
<1>3. PICK r : r = [Idle EXCEPT !.at = "meta", !.list = l]
  OBVIOUS
<1>4. r \in JobStates
  BY <1>2, <1>3, IdleWith DEF Stages
<1>5. r.at = "meta" /\ r.list = l /\ r.pick = FALSE /\ r.row = Null
  BY <1>3 DEF Idle
<1>6. Works(r) /\ Carries(r)
  BY <1>2, <1>5 DEF Works, Carries, AtWork
<1>7. UNCHANGED <<remote, copy, drive, disputed, astray>>
  BY DEF List
<1>8. QED
  BY <1>1, <1>3, <1>4, <1>5, <1>6, <1>7, MovesOn DEF SameRows, DriveIInv, DriveTypes

LEMMA StartPickStep ==
  ASSUME DriveIInv, NEW j \in Jobs, NEW f \in Files, StartPick(j, f)
  PROVE  DriveIInv'
<1>1. PICK r : r = [Idle EXCEPT !.at = "meta", !.pick = TRUE, !.file = f]
  OBVIOUS
<1>2. r \in JobStates
  BY <1>1, IdleWith DEF Stages
<1>3. r.at = "meta" /\ r.list = {} /\ r.file = f /\ r.row = Null
  BY <1>1 DEF Idle
<1>4. Works(r) /\ Carries(r)
  BY <1>3 DEF Works, Carries, AtWork
<1>5. Set(j, r) /\ UNCHANGED <<remote, copy, drive, disputed, astray>>
  BY <1>1 DEF StartPick
<1>6. QED
  BY <1>2, <1>3, <1>4, <1>5, MovesOn DEF SameRows, DriveIInv, DriveTypes

LEMMA FetchMetaStep ==
  ASSUME DriveIInv, NEW j \in Jobs, FetchMeta(j)
  PROVE  DriveIInv'
<1>1. PICK x \in JobStates : x = job[j] /\ Works(x) /\ x.at = "meta" /\ ~x.pick
  BY DEF DriveIInv, DriveTypes, FetchMeta
<1>2. PICK c \in x.list :
        Set(j, IF remote[drive[c.row].file] <= c.seen THEN NextRow(j, c.row)
               ELSE [x EXCEPT !.at = "recheck", !.row = c.row, !.file = drive[c.row].file,
                              !.path = drive[c.row].path, !.meta = remote[drive[c.row].file]])
  BY <1>1 DEF FetchMeta
<1>3. Made(c.row) /\ remote[drive[c.row].file] \in Versions
  BY <1>1, <1>2 DEF Works, Made, DriveIInv, DriveTypes
<1>4. PICK r : r = IF remote[drive[c.row].file] <= c.seen THEN NextRow(j, c.row)
               ELSE [x EXCEPT !.at = "recheck", !.row = c.row, !.file = drive[c.row].file,
                              !.path = drive[c.row].path, !.meta = remote[drive[c.row].file]]
  OBVIOUS
<1>5. r \in JobStates /\ r.at # "write" /\ Works(r) /\ Carries(r)
  <2>1. CASE r = NextRow(j, c.row)
    BY <2>1, NextRowKeeps
  <2>2. CASE r = [x EXCEPT !.at = "recheck", !.row = c.row, !.file = drive[c.row].file,
                           !.path = drive[c.row].path, !.meta = remote[drive[c.row].file]]
    <3>1. r \in JobStates
      BY <1>1, <1>3, <2>2 DEF JobStates, Stages, Made
    <3>2. /\ r.at = "recheck" /\ r.row = c.row /\ r.file = drive[c.row].file
          /\ r.path = drive[c.row].path /\ r.meta = remote[drive[c.row].file]
          /\ r.list = x.list /\ r.pick = x.pick
      BY <1>1, <2>2 DEF JobStates
    <3>3. Works(r) /\ Carries(r)
      <4>1. r.meta <= remote[r.file]
        BY <1>3, <3>2, SyncAssumption DEF Versions
      <4>2. Works(r)
        BY <1>1, <1>3, <3>2 DEF Works, Made, AtWork
      <4>3. QED
        BY <3>2, <4>1, <4>2 DEF Carries
    <3>4. QED
      BY <3>1, <3>2, <3>3
  <2>3. QED
    BY <1>4, <2>1, <2>2
<1>6. UNCHANGED <<remote, copy, drive, disputed, astray>>
  BY DEF FetchMeta
<1>7. QED
  BY <1>2, <1>4, <1>5, <1>6, MovesOn DEF SameRows, DriveIInv, DriveTypes

LEMMA PickMetaStep ==
  ASSUME DriveIInv, setup \in Setups, NEW j \in Jobs, PickMeta(j)
  PROVE  DriveIInv'
<1>1. PICK x \in JobStates : x = job[j] /\ Works(x) /\ x.at = "meta" /\ x.pick
  BY DEF DriveIInv, DriveTypes, PickMeta
<1>2. x.file \in Files /\ remote[x.file] \in Versions
  BY <1>1 DEF Works, DriveIInv, DriveTypes
<1>3. setup.paths[x.file] \subseteq Paths
  BY <1>2, SyncAssumption
<1>4. PICK p \in Paths : Set(j, [x EXCEPT !.at = "content", !.path = p, !.meta = remote[x.file]])
  BY <1>1, <1>3 DEF PickMeta
<1>5. PICK r : r = [x EXCEPT !.at = "content", !.path = p, !.meta = remote[x.file]]
  OBVIOUS
<1>6. r \in JobStates
  BY <1>2, <1>5 DEF JobStates, Stages
<1>7. /\ r.at = "content" /\ r.path = p /\ r.meta = remote[x.file] /\ r.file = x.file
      /\ r.row = x.row /\ r.list = x.list /\ r.pick
  BY <1>1, <1>5 DEF JobStates
<1>8. Works(r) /\ Carries(r)
  <2>1. r.meta <= remote[r.file]
    BY <1>2, <1>7, SyncAssumption DEF Versions
  <2>2. Works(r)
    BY <1>1, <1>2, <1>7 DEF Works, AtWork
  <2>3. QED
    BY <1>7, <2>1, <2>2 DEF Carries
<1>9. UNCHANGED <<remote, copy, drive, disputed, astray>>
  BY DEF PickMeta
<1>10. QED
  BY <1>4, <1>5, <1>6, <1>7, <1>8, <1>9, MovesOn DEF SameRows, DriveIInv, DriveTypes

LEMMA RecheckStep ==
  ASSUME DriveIInv, NEW j \in Jobs, Recheck(j)
  PROVE  DriveIInv'
<1>1. PICK x \in JobStates : x = job[j] /\ Works(x) /\ Carries(x) /\ x.at = "recheck"
  BY DEF DriveIInv, DriveTypes, Recheck
<1>2. PICK r : Set(j, r) /\ r \in {[x EXCEPT !.at = "content"], NextRow(j, x.row)}
  BY <1>1 DEF Recheck
<1>3. r \in JobStates /\ r.at # "write" /\ Works(r) /\ Carries(r)
  <2>1. CASE r = NextRow(j, x.row)
    BY <2>1, NextRowKeeps
  <2>2. CASE r = [x EXCEPT !.at = "content"]
    <3>1. /\ r \in JobStates /\ r.at = "content" /\ r.list = x.list /\ r.file = x.file
          /\ r.path = x.path /\ r.pick = x.pick /\ r.row = x.row /\ r.meta = x.meta
      BY <2>2 DEF JobStates, Stages
    <3>2. Works(r)
      BY <1>1, <3>1 DEF Works, AtWork
    <3>3. QED
      BY <1>1, <3>1, <3>2 DEF Carries
  <2>3. QED
    BY <1>2, <2>1, <2>2
<1>4. UNCHANGED <<remote, copy, drive, disputed, astray>>
  BY DEF Recheck
<1>5. QED
  BY <1>2, <1>3, <1>4, MovesOn DEF SameRows, DriveIInv, DriveTypes

LEMMA FindRowStep ==
  ASSUME DriveIInv, NEW j \in Jobs, FindRow(j)
  PROVE  DriveIInv'
<1>1. PICK x \in JobStates : x = job[j] /\ Works(x) /\ Carries(x) /\ x.at = "find"
  BY DEF DriveIInv, DriveTypes, FindRow
<1>2. PICK q : /\ q = Null \/ (q \in Rows /\ drive[q].status # "none" /\ drive[q].file = x.file)
               /\ Set(j, [x EXCEPT !.at = "row", !.row = q])
  BY <1>1 DEF FindRow
<1>3. PICK r : r = [x EXCEPT !.at = "row", !.row = q]
  OBVIOUS
<1>4. /\ r \in JobStates /\ r.at = "row" /\ r.list = x.list /\ r.file = x.file
      /\ r.path = x.path /\ r.pick = x.pick /\ r.row = q /\ r.meta = x.meta
  BY <1>1, <1>2, <1>3 DEF JobStates, Stages
<1>5. q # Null => Made(q)
  BY <1>2 DEF DriveIInv, RowsMade
<1>6. x.pick
  BY <1>1 DEF Works
<1>7. Works(r)
  BY <1>1, <1>2, <1>4, <1>5, <1>6 DEF Works, AtWork
<1>8. Carries(r)
  BY <1>1, <1>4 DEF Carries
<1>9. UNCHANGED <<remote, copy, drive, disputed, astray>>
  BY DEF FindRow
<1>10. QED
  BY <1>2, <1>3, <1>4, <1>7, <1>8, <1>9, MovesOn DEF SameRows, DriveIInv, DriveTypes

LEMMA FailDriveStep ==
  ASSUME DriveIInv, NEW j \in Jobs, FailDrive(j)
  PROVE  DriveIInv'
<1>1. PICK x \in JobStates : x = job[j] /\ Works(x)
  BY DEF DriveIInv, DriveTypes
<1>2. UNCHANGED <<remote, copy, disputed, astray>>
  BY DEF FailDrive
<1>3. CASE Set(j, Idle) /\ UNCHANGED drive
  BY <1>2, <1>3, IdleIsJobState, MovesOn DEF SameRows, DriveIInv, DriveTypes, Idle
<1>4. CASE ~(Set(j, Idle) /\ UNCHANGED drive)
  <2>1. PICK r \in IF x.row # Null THEN {x.row} ELSE {c.row : c \in x.list} :
          /\ Set(j, NextRow(j, r))
          /\ \/ UNCHANGED drive
             \/ /\ x.at \in {"meta", "content"} /\ ~x.pick
                /\ drive' = [drive EXCEPT ![r].status = "reconnect_required"]
    BY <1>1, <1>4 DEF FailDrive
  <2>2. ASSUME x.at \in {"meta", "content"}, ~x.pick
        PROVE  Made(r)
    BY <1>1, <2>1, <2>2 DEF Works, AtWork
  <2>3. /\ SameRows
        /\ drive' \in [Rows -> [status : DriveStatus, file : Files \cup {Null},
                                path : Paths \cup {Null}, seen : Versions]]
    <3>1. CASE UNCHANGED drive
      BY <3>1 DEF SameRows, DriveIInv, DriveTypes
    <3>2. CASE /\ x.at \in {"meta", "content"} /\ ~x.pick
               /\ drive' = [drive EXCEPT ![r].status = "reconnect_required"]
      <4>1. Made(r)
        BY <2>2, <3>2
      <4>2. PICK d \in [status : DriveStatus, file : Files \cup {Null},
                        path : Paths \cup {Null}, seen : Versions] : d = drive[r] /\ d.status # "none"
        BY <4>1 DEF Made, DriveIInv, DriveTypes
      <4>3. PICK e : e = [d EXCEPT !.status = "reconnect_required"]
        OBVIOUS
      <4>4. /\ e \in [status : DriveStatus, file : Files \cup {Null}, path : Paths \cup {Null}, seen : Versions]
            /\ e.status # "none" /\ e.file = d.file /\ e.path = d.path /\ e.seen = d.seen
        BY <4>2, <4>3 DEF DriveStatus
      <4>5. drive' = [drive EXCEPT ![r] = e]
        BY <3>2, <4>2, <4>3
      <4>6. QED
        BY <4>1, <4>2, <4>4, <4>5 DEF SameRows, DriveIInv, DriveTypes
    <3>3. QED
      BY <2>1, <3>1, <3>2
  <2>4. QED
    BY <1>2, <2>1, <2>3, NextRowKeeps, MovesOn
<1>5. QED
  BY <1>3, <1>4

LEMMA EditRemoteStep ==
  ASSUME DriveIInv, NEW f \in Files, EditRemote(f)
  PROVE  DriveIInv'
<1>1. /\ remote' = [remote EXCEPT ![f] = remote[f] + 1] /\ remote[f] < MaxVersion
      /\ UNCHANGED <<copy, drive, job, disputed, astray>>
  BY DEF EditRemote
<1>2. \A g \in Files : remote[g] \in Nat /\ remote'[g] \in Versions /\ remote[g] <= remote'[g]
  <2>1. SUFFICES ASSUME NEW g \in Files
                 PROVE  remote[g] \in Nat /\ remote'[g] \in Versions /\ remote[g] <= remote'[g]
    OBVIOUS
  <2>2. remote[g] \in 0..MaxVersion /\ remote[f] \in 0..MaxVersion
    BY DEF DriveIInv, DriveTypes, Versions
  <2>3. CASE g = f
    BY <1>1, <2>2, <2>3, SyncAssumption DEF DriveIInv, DriveTypes, Versions
  <2>4. CASE g # f
    BY <1>1, <2>2, <2>4, SyncAssumption DEF DriveIInv, DriveTypes, Versions
  <2>5. QED
    BY <2>3, <2>4
<1>3. DriveTypes'
  BY <1>1, <1>2 DEF DriveIInv, DriveTypes
<1>4. Copies'
  <2>1. SUFFICES ASSUME NEW p \in Paths
                 PROVE  IF copy[p].file = Null THEN copy[p].version = 0
                        ELSE copy[p].version <= remote'[copy[p].file]
    BY <1>1 DEF Copies
  <2>2. copy[p].file \in Files \cup {Null} /\ copy[p].version \in Nat
    BY SyncAssumption DEF DriveIInv, DriveTypes, Versions
  <2>3. QED
    BY <1>2, <2>2, SyncAssumption DEF DriveIInv, Copies, Versions
<1>5. ASSUME NEW j \in Jobs
      PROVE  Works(job[j])' /\ Carries(job[j])'
  <2>1. PICK x \in JobStates : x = job[j] /\ Works(x) /\ Carries(x)
    BY DEF DriveIInv, DriveTypes
  <2>2. x.meta \in Nat /\ x.content \in Nat
    BY <2>1, SyncAssumption DEF JobStates, Versions
  <2>3. Works(x)'
    BY <1>1, <2>1 DEF Works, Made
  <2>4. Carries(x)'
    <3>1. x.at \in AtWork => x.file \in Files
      BY <2>1 DEF Works
    <3>2. x.file \in Files => remote[x.file] \in Nat /\ remote'[x.file] \in Nat /\ remote[x.file] <= remote'[x.file]
      BY <1>2, SyncAssumption DEF Versions
    <3>3. QED
      BY <1>1, <2>1, <2>2, <3>1, <3>2 DEF Carries, AtWork
  <2>5. QED
    BY <1>1, <2>1, <2>3, <2>4 DEF Works, Carries, Made
<1>6. OneContent' /\ RowsMade' /\ RowIsNotAheadOfCopy'
  BY <1>1 DEF DriveIInv, OneContent, RowsMade, RowIsNotAheadOfCopy, Made
<1>7. QED
  BY <1>3, <1>4, <1>5, <1>6 DEF DriveIInv

\* The content is fetched: any older one on its way to the path disputes it.
LEMMA FetchContentStep ==
  ASSUME DriveIInv, NEW j \in Jobs, FetchContent(j)
  PROVE  DriveIInv'
<1>1. PICK x \in JobStates : x = job[j] /\ Works(x) /\ Carries(x) /\ x.at = "content"
  BY DEF DriveIInv, DriveTypes, FetchContent
<1>2. x.file \in Files /\ x.path \in Paths /\ remote[x.file] \in Versions
  BY <1>1 DEF Works, AtWork, DriveIInv, DriveTypes
<1>3. PICK r : r = [x EXCEPT !.at = "write", !.content = remote[x.file]]
  OBVIOUS
<1>4. /\ r \in JobStates /\ r.at = "write" /\ r.content = remote[x.file] /\ r.file = x.file
      /\ r.path = x.path /\ r.row = x.row /\ r.list = x.list /\ r.pick = x.pick /\ r.meta = x.meta
  BY <1>2, <1>3 DEF JobStates, Stages
<1>5. Set(j, r) /\ UNCHANGED <<remote, copy, drive, astray>>
  BY <1>1, <1>3 DEF FetchContent
<1>6. \A i \in Jobs : job'[i] = IF i = j THEN r ELSE job[i]
  BY <1>5 DEF DriveIInv, DriveTypes, Set
<1>7. /\ disputed \subseteq disputed' /\ disputed' \subseteq Paths
      /\ x.path \notin disputed' =>
           /\ copy[x.path].file \in {Null, x.file}
           /\ \A i \in Jobs \ {j} : job[i].at = "write" /\ job[i].path = x.path =>
                job[i].file = x.file /\ ~(job[i].content < remote[x.file])
  BY <1>1, <1>2 DEF FetchContent, DriveIInv, DriveTypes
<1>8. DriveTypes' /\ Copies' /\ RowsMade'
  BY <1>4, <1>5, <1>7 DEF DriveIInv, DriveTypes, Copies, RowsMade, Made, Set
<1>9. RowIsNotAheadOfCopy'
  BY <1>5, <1>7 DEF DriveIInv, RowIsNotAheadOfCopy
<1>10. ASSUME NEW i \in Jobs, i # j, job[i].at = "write", job[i].path = x.path, x.path \notin disputed'
       PROVE  job[i].file = x.file /\ job[i].content = remote[x.file]
  <2>1. PICK y \in JobStates : y = job[i] /\ Carries(y)
    BY DEF DriveIInv, DriveTypes
  <2>2. y.file = x.file /\ ~(y.content < remote[x.file]) /\ y.content <= remote[x.file]
    BY <1>7, <1>10, <2>1 DEF Carries
  <2>3. y.content \in Nat /\ remote[x.file] \in Nat
    BY <1>2, <2>1, SyncAssumption DEF JobStates, Versions
  <2>4. QED
    BY <2>1, <2>2, <2>3
<1>11. OneContent'
  <2>1. SUFFICES ASSUME NEW i \in Jobs, NEW k \in Jobs, job'[i].at = "write", job'[k].at = "write",
                        job'[i].path = job'[k].path, job'[i].path \notin disputed'
                 PROVE  job'[i].file = job'[k].file /\ job'[i].content = job'[k].content
    BY DEF OneContent
  <2>2. CASE i # j /\ k # j
    BY <1>6, <1>7, <2>1, <2>2 DEF DriveIInv, OneContent
  <2>3. CASE i = j \/ k = j
    BY <1>4, <1>6, <1>10, <2>1, <2>3
  <2>4. QED
    BY <2>2, <2>3
<1>12. Works(r) /\ Carries(r)'
  <2>1. Works(r)
    BY <1>1, <1>4 DEF Works, AtWork
  <2>2. copy[x.path].file = Null \/ copy[x.path].file = x.file => copy[x.path].version <= remote[x.file]
    BY <1>2, SyncAssumption DEF DriveIInv, Copies, Versions
  <2>3. r.meta <= r.content /\ r.content <= remote[r.file]
    BY <1>1, <1>2, <1>4, SyncAssumption DEF Carries, Versions
  <2>4. r.meta <= remote[r.file]
    BY <1>1, <1>4 DEF Carries
  <2>5. r.path \notin disputed' => copy[r.path].file \in {Null, r.file} /\ copy[r.path].version <= r.content
    BY <1>4, <1>7, <2>2
  <2>6. QED
    BY <1>4, <1>5, <2>1, <2>3, <2>4, <2>5 DEF Carries
<1>13. \A i \in Jobs : Works(job[i])' /\ Carries(job[i])'
  <2>1. SUFFICES ASSUME NEW i \in Jobs
                 PROVE  Works(job[i])' /\ Carries(job[i])'
    OBVIOUS
  <2>2. CASE i = j
    BY <1>5, <1>6, <1>12, <2>2 DEF Works, Carries, Made
  <2>3. CASE i # j
    BY <1>5, <1>6, <1>7, <2>3 DEF DriveIInv, Works, Carries, Made
  <2>4. QED
    BY <2>2, <2>3
<1>14. QED
  BY <1>8, <1>9, <1>11, <1>13 DEF DriveIInv

\* The copy is replaced by what is no older, where the path is not disputed.
LEMMA WriteFileStep ==
  ASSUME DriveIInv, NEW j \in Jobs, WriteFile(j)
  PROVE  DriveIInv'
<1>1. PICK x \in JobStates : x = job[j] /\ Works(x) /\ Carries(x) /\ x.at = "write"
  BY DEF DriveIInv, DriveTypes, WriteFile
<1>2. x.file \in Files /\ x.path \in Paths /\ remote[x.file] \in Versions
  BY <1>1 DEF Works, AtWork, DriveIInv, DriveTypes
<1>3. PICK c : c = [file |-> x.file, version |-> x.content]
  OBVIOUS
<1>4. /\ c \in [file : Files \cup {Null}, version : Versions]
      /\ c.file = x.file /\ c.version = x.content /\ c.version \in Nat /\ x.meta \in Nat
  BY <1>1, <1>2, <1>3, SyncAssumption DEF JobStates, Versions
<1>5. PICK r : r = [x EXCEPT !.at = IF x.pick THEN "find" ELSE "row", !.content = 0]
  OBVIOUS
<1>6. /\ r \in JobStates /\ r.at = (IF x.pick THEN "find" ELSE "row") /\ r.file = x.file
      /\ r.path = x.path /\ r.row = x.row /\ r.list = x.list /\ r.pick = x.pick /\ r.meta = x.meta
  <2>1. PICK at \in Stages : at = IF x.pick THEN "find" ELSE "row"
    BY DEF Stages
  <2>2. 0 \in Versions /\ r = [x EXCEPT !.at = at, !.content = 0]
    BY <1>5, <2>1, SyncAssumption DEF Versions
  <2>3. QED
    BY <2>1, <2>2 DEF JobStates
<1>7. /\ Set(j, r) /\ copy' = [copy EXCEPT ![x.path] = c]
      /\ UNCHANGED <<remote, drive, disputed, astray>>
  BY <1>1, <1>3, <1>5 DEF WriteFile
<1>8. \A i \in Jobs : job'[i] = IF i = j THEN r ELSE job[i]
  BY <1>7 DEF DriveIInv, DriveTypes, Set
<1>9. \A p \in Paths : copy'[p] = IF p = x.path THEN c ELSE copy[p]
  BY <1>7 DEF DriveIInv, DriveTypes
<1>10. DriveTypes'
  BY <1>4, <1>6, <1>7 DEF DriveIInv, DriveTypes, Set
<1>11. Copies'
  <2>1. c.file # Null /\ c.version <= remote[c.file]
    BY <1>1, <1>2, <1>4, SyncAssumption DEF Carries
  <2>2. QED
    BY <1>7, <1>9, <2>1 DEF DriveIInv, Copies
<1>12. OneContent'
  BY <1>6, <1>7, <1>8 DEF DriveIInv, OneContent
<1>13. x.path \notin disputed =>
         copy[x.path].file \in {Null, x.file} /\ copy[x.path].version <= c.version
  BY <1>1, <1>4 DEF Carries
<1>14. \A p \in Paths : copy[p].version \in Nat /\ copy[p].file \in Files \cup {Null}
  BY SyncAssumption DEF DriveIInv, DriveTypes, Versions
<1>15. RowIsNotAheadOfCopy' /\ RowsMade'
  <2>1. SUFFICES ASSUME NEW q \in Rows, drive[q].status # "none", q \notin astray,
                        drive[q].path \notin disputed
                 PROVE  /\ copy'[drive[q].path].file = drive[q].file
                        /\ drive[q].seen <= copy'[drive[q].path].version
    BY <1>7 DEF RowIsNotAheadOfCopy, RowsMade, Made, DriveIInv
  <2>2. /\ copy[drive[q].path].file = drive[q].file /\ drive[q].seen <= copy[drive[q].path].version
        /\ Made(q) /\ drive[q].seen \in Nat
    BY <2>1, SyncAssumption DEF DriveIInv, DriveTypes, RowIsNotAheadOfCopy, RowsMade, Versions
  <2>3. CASE drive[q].path = x.path
    <3>1. copy[x.path].file = x.file /\ copy[x.path].version <= c.version
      BY <1>13, <2>1, <2>2, <2>3, SyncAssumption DEF Made
    <3>2. QED
      BY <1>2, <1>4, <1>9, <1>14, <2>2, <2>3, <3>1
  <2>4. CASE drive[q].path # x.path
    BY <1>9, <2>2, <2>4 DEF Made
  <2>5. QED
    BY <2>3, <2>4
<1>16. ASSUME NEW i \in Jobs
       PROVE  Works(job[i])' /\ Carries(job[i])'
  <2>1. PICK y \in JobStates : y = job[i] /\ Works(y) /\ Carries(y) /\ (y.at \in AtWork => y.path \in Paths)
    BY DEF DriveIInv, DriveTypes, Works
  <2>2. Works(job[i])'
    <3>1. Works(job'[i])
      BY <1>1, <1>6, <1>8, <2>1 DEF Works, AtWork
    <3>2. QED
      BY <1>7, <3>1 DEF Works, Made
  <2>3. CASE i = j
    <3>1. r.at \in {"find", "row"} /\ copy'[r.path] = c
      BY <1>2, <1>6, <1>9
    <3>2. c.file = r.file /\ r.meta <= c.version
      BY <1>1, <1>4, <1>6 DEF Carries
    <3>3. QED
      BY <1>8, <2>2, <2>3, <3>1, <3>2 DEF Carries
  <2>4. CASE i # j
    <3>1. job'[i] = y
      BY <1>8, <2>1, <2>4
    <3>2. y.at = "write" /\ y.path \notin disputed /\ y.path = x.path => y.file = x.file /\ y.content = x.content
      BY <1>1, <2>1 DEF DriveIInv, OneContent
    <3>3. y.at = "write" /\ y.path \notin disputed =>
            copy'[y.path].file \in {Null, y.file} /\ copy'[y.path].version <= y.content
      BY <1>4, <1>9, <2>1, <3>2 DEF Carries, AtWork
    <3>4. y.at \in {"find", "row"} /\ y.path \notin disputed =>
            copy'[y.path].file = y.file /\ y.meta <= copy'[y.path].version
      <4>1. SUFFICES ASSUME y.at \in {"find", "row"}, y.path \notin disputed
                     PROVE  copy'[y.path].file = y.file /\ y.meta <= copy'[y.path].version
        OBVIOUS
      <4>2. copy[y.path].file = y.file /\ y.meta <= copy[y.path].version /\ y.file \in Files /\ y.path \in Paths
        BY <2>1, <4>1 DEF Carries, Works, AtWork
      <4>3. y.meta \in Nat /\ copy[y.path].version \in Nat
        BY <1>14, <2>1, <4>2, SyncAssumption DEF JobStates, Versions
      <4>4. CASE y.path = x.path
        <5>1. copy[x.path].file = x.file /\ copy[x.path].version <= c.version
          BY <1>13, <4>1, <4>2, <4>4, SyncAssumption
        <5>2. QED
          BY <1>4, <1>9, <4>2, <4>3, <4>4, <5>1
      <4>5. CASE y.path # x.path
        BY <1>9, <4>2, <4>5
      <4>6. QED
        BY <4>4, <4>5
    <3>5. QED
      BY <1>7, <2>1, <2>2, <3>1, <3>3, <3>4 DEF Carries
  <2>5. QED
    BY <2>3, <2>4
<1>17. QED
  BY <1>10, <1>11, <1>12, <1>15, <1>16 DEF DriveIInv

\* A new row is of the file and the path just written; a row that exists says the
\* version of its copy, or is astray.
LEMMA WriteRowStep ==
  ASSUME DriveIInv, NEW j \in Jobs, WriteRow(j)
  PROVE  DriveIInv'
<1>1. PICK x \in JobStates : x = job[j] /\ Works(x) /\ Carries(x) /\ x.at = "row"
  BY DEF DriveIInv, DriveTypes, WriteRow, RecordVersion
<1>2. x.file \in Files /\ x.path \in Paths /\ x.meta \in Versions
  BY <1>1 DEF Works, AtWork, JobStates
<1>3. PICK r : Set(j, r) /\ r \in {Idle, NextRow(j, x.row)}
  BY <1>1 DEF WriteRow, RecordVersion
<1>4. r \in JobStates /\ r.at # "write" /\ Works(r) /\ Carries(r)
  <2>1. CASE r = Idle
    BY <2>1, IdleIsJobState DEF Idle
  <2>2. CASE r = NextRow(j, x.row)
    BY <2>2, NextRowKeeps
  <2>3. QED
    BY <1>3, <2>1, <2>2
<1>5. UNCHANGED <<remote, copy, disputed>>
  BY DEF WriteRow, RecordVersion
<1> DEFINE Row == [status : DriveStatus, file : Files \cup {Null}, path : Paths \cup {Null}, seen : Versions]
<1>6. PICK q \in Rows, d \in Row :
        /\ drive' = [drive EXCEPT ![q] = d] /\ d.status # "none" /\ d.seen = x.meta
        /\ d.file = x.file
        /\ \/ drive[q].status = "none" /\ d.path = x.path /\ astray' = astray
           \/ /\ Made(q) /\ d.path = drive[q].path /\ d.file = drive[q].file
              /\ astray' = IF x.path = d.path THEN astray \ {q} ELSE astray \cup {q}
  <2>1. CASE x.row = Null
    <3>1. PICK q \in Rows : /\ drive[q].status = "none" /\ astray' = astray
                            /\ drive' = [drive EXCEPT ![q] = [status |-> "active", file |-> x.file,
                                                              path |-> x.path, seen |-> x.meta]]
      BY <1>1, <2>1 DEF WriteRow, RecordVersion
    <3>2. PICK d : d = [status |-> "active", file |-> x.file, path |-> x.path, seen |-> x.meta]
      OBVIOUS
    <3>3. d \in Row /\ d.status # "none" /\ d.seen = x.meta /\ d.file = x.file /\ d.path = x.path
      BY <1>2, <3>2 DEF DriveStatus
    <3>4. QED
      BY <3>1, <3>2, <3>3
  <2>2. CASE x.row # Null
    <3>1. PICK q \in Rows : q = x.row /\ Made(q) /\ drive[q].file = x.file
      BY <1>1, <2>2 DEF Works, AtWork, Made
    <3>2. PICK e \in Row : e = drive[q] /\ e.status # "none" /\ e.file = x.file
      BY <3>1 DEF DriveIInv, DriveTypes, Made
    <3>3. PICK st \in DriveStatus : st # "none" /\ st = IF x.pick THEN "active" ELSE e.status
      BY <3>2 DEF DriveStatus
    <3>4. /\ drive' = [drive EXCEPT ![q].seen = x.meta, ![q].status = IF x.pick THEN "active" ELSE @]
          /\ astray' = IF x.path = e.path THEN astray \ {q} ELSE astray \cup {q}
      BY <1>1, <2>2, <3>1, <3>2 DEF WriteRow, RecordVersion
    <3>5. PICK d : d = [e EXCEPT !.seen = x.meta, !.status = st]
      OBVIOUS
    <3>6. /\ d \in Row /\ d.status # "none" /\ d.seen = x.meta /\ d.file = x.file /\ d.path = e.path
      BY <1>2, <3>2, <3>3, <3>5
    <3>7. drive' = [drive EXCEPT ![q] = d]
      BY <3>1, <3>2, <3>3, <3>4, <3>5 DEF DriveIInv, DriveTypes
    <3>8. e.path = drive[q].path /\ e.file = drive[q].file
      BY <3>2
    <3>9. /\ d.path = drive[q].path /\ d.file = drive[q].file
          /\ astray' = IF x.path = d.path THEN astray \ {q} ELSE astray \cup {q}
      BY <3>1, <3>4, <3>6, <3>8
    <3>10. QED
      BY <3>1, <3>6, <3>7, <3>9
  <2>3. QED
    BY <2>1, <2>2
<1>7. \A i \in Jobs : job'[i] = IF i = j THEN r ELSE job[i]
  BY <1>3 DEF DriveIInv, DriveTypes, Set
<1>8. \A s \in Rows : drive'[s] = IF s = q THEN d ELSE drive[s]
  BY <1>6 DEF DriveIInv, DriveTypes
<1>9. DriveTypes'
  <2>1. drive' \in [Rows -> Row] /\ astray' \subseteq Rows
    BY <1>6 DEF DriveIInv, DriveTypes
  <2>2. job' \in [Jobs -> JobStates]
    BY <1>3, <1>4 DEF Set, DriveIInv, DriveTypes
  <2>3. QED
    BY <1>5, <2>1, <2>2 DEF DriveIInv, DriveTypes
<1>10. d.path \in Paths
  BY <1>2, <1>6 DEF Made
<1>11. \A s : Made(s) => Made(s)' /\ drive'[s].file = drive[s].file /\ drive'[s].path = drive[s].path
  BY <1>2, <1>6, <1>8, <1>10 DEF Made
<1>12. RowsMade'
  BY <1>2, <1>6, <1>8, <1>10, <1>11 DEF DriveIInv, RowsMade, Made
<1>13. Copies' /\ OneContent'
  BY <1>4, <1>5, <1>7 DEF DriveIInv, Copies, OneContent
<1>14. \A i \in Jobs : Works(job[i])' /\ Carries(job[i])'
  <2>1. \A i \in Jobs : Works(job'[i]) /\ Carries(job'[i])
    BY <1>4, <1>7 DEF DriveIInv
  <2>2. \A y : Carries(y) => Carries(y)'
    BY <1>5 DEF Carries
  <2>3. ASSUME NEW y, Works(y)
        PROVE  Works(y)'
    BY <1>11, <2>3 DEF Works
  <2>4. SUFFICES ASSUME NEW i \in Jobs
                 PROVE  Works(job[i])' /\ Carries(job[i])'
    OBVIOUS
  <2>5. PICK y : y = job'[i] /\ Works(y) /\ Carries(y)
    BY <2>1
  <2>6. Works(y)' /\ Carries(y)'
    BY <2>2, <2>3, <2>5
  <2>7. QED
    BY <2>5, <2>6 DEF Works, Carries, Made
<1>15. RowIsNotAheadOfCopy'
  <2>1. SUFFICES ASSUME NEW s \in Rows, drive'[s].status # "none", s \notin astray',
                        drive'[s].path \notin disputed
                 PROVE  /\ copy[drive'[s].path].file = drive'[s].file
                        /\ drive'[s].seen <= copy[drive'[s].path].version
    BY <1>5 DEF RowIsNotAheadOfCopy
  <2>2. CASE s = q
    <3>1. d.path = x.path
      BY <1>6, <2>1, <2>2
    <3>2. copy[x.path].file = x.file /\ x.meta <= copy[x.path].version
      BY <1>1, <1>8, <2>1, <2>2, <3>1 DEF Carries
    <3>3. QED
      BY <1>6, <1>8, <2>2, <3>1, <3>2
  <2>3. CASE s # q
    BY <1>6, <1>8, <2>1, <2>3 DEF DriveIInv, RowIsNotAheadOfCopy
  <2>4. QED
    BY <2>2, <2>3
<1>16. QED
  BY <1>9, <1>12, <1>13, <1>14, <1>15 DEF DriveIInv

LEMMA DriveRests ==
  ASSUME DriveIInv, job' = [j \in Jobs |-> Idle], UNCHANGED <<remote, copy, drive, disputed, astray>>
  PROVE  DriveIInv'
<1>1. \A j \in Jobs : job'[j] = Idle
  OBVIOUS
<1>2. DriveTypes' /\ Copies' /\ RowsMade' /\ RowIsNotAheadOfCopy'
  BY IdleIsJobState DEF DriveIInv, DriveTypes, Copies, RowsMade, Made, RowIsNotAheadOfCopy
<1>3. OneContent'
  BY <1>1 DEF OneContent, Idle
<1>4. \A j \in Jobs : Works(job[j])' /\ Carries(job[j])'
  BY <1>1 DEF Works, Carries, Idle, AtWork
<1>5. QED
  BY <1>2, <1>3, <1>4 DEF DriveIInv

\* Only the steps of Drive move what the invariant speaks of.
LEMMA DriveStays ==
  ASSUME DriveIInv, UNCHANGED driveVars
  PROVE  DriveIInv'
  BY DEF DriveIInv, DriveTypes, Copies, OneContent, RowsMade, Made, RowIsNotAheadOfCopy, Works,
         Carries, driveVars

LEMMA DriveSteps ==
  ASSUME DriveIInv, setup \in Setups, NEW j \in Jobs,
         List(j) \/ (\E f \in Files : StartPick(j, f)) \/ DriveStep(j)
  PROVE  DriveIInv'
  BY ListStep, StartPickStep, FetchMetaStep, PickMetaStep, RecheckStep, FetchContentStep,
     WriteFileStep, FindRowStep, WriteRowStep, FailDriveStep DEF DriveStep

LEMMA DriveBegins ==
  ASSUME Init
  PROVE  DriveIInv
<1>1. /\ remote = [f \in Files |-> 1]
      /\ copy = [p \in Paths |-> [file |-> Null, version |-> 0]]
      /\ drive = [r \in Rows |-> [status |-> "none", file |-> Null, path |-> Null, seen |-> 0]]
      /\ disputed = {} /\ astray = {} /\ job = [j \in Jobs |-> Idle]
  BY DEF Init
<1>2. 0 \in Versions /\ 1 \in Versions
  BY SyncAssumption DEF Versions
<1>3. [file |-> Null, version |-> 0] \in [file : Files \cup {Null}, version : Versions]
  BY <1>2
<1>4. [status |-> "none", file |-> Null, path |-> Null, seen |-> 0]
        \in [status : DriveStatus, file : Files \cup {Null}, path : Paths \cup {Null}, seen : Versions]
  BY <1>2 DEF DriveStatus
<1>5. DriveTypes
  BY <1>1, <1>2, <1>3, <1>4, IdleIsJobState DEF DriveTypes
<1>6. Copies /\ OneContent /\ RowsMade /\ RowIsNotAheadOfCopy
  BY <1>1 DEF Copies, OneContent, RowsMade, RowIsNotAheadOfCopy, Idle
<1>7. QED
  BY <1>1, <1>5, <1>6, IdleIsJobState DEF DriveIInv

-----------------------------------------------------------------------------
(* What Slack brings in *)

Fetching == {"channel", "file", "mark"}

Connections == [status : SlackStatus, synced : BOOLEAN, mark : 0..MaxMessages, channels : SUBSET Channels,
                format : Formats \cup {Null}, target : Targets \cup {Null}]

SlackTypes ==
  /\ posted \in UNION {[1..n -> [ch : Channels, thread : 0..MaxMessages]] : n \in 0..MaxMessages}
  /\ slack \in Connections
  /\ slack.mark <= Count
  /\ files \in [Targets \X Channels -> SUBSET DOMAIN posted]
  /\ left \subseteq DOMAIN posted
  /\ pull \in [Jobs -> PullStates]
  /\ \A j \in Jobs : pull[j].got \cup pull[j].missed \subseteq DOMAIN posted

Settled(k) == Archived(k) \/ k \in left

\* A sync that moves on has accounted for every message of the channels it is past:
\* written, passed over, or at hand; and for those before lastSyncedAt as it read it.
Accounts(x) ==
  x.at \in Fetching =>
    \A k \in DOMAIN posted :
      /\ k <= x.since => Settled(k)
      /\ posted[k].ch \notin x.todo => Settled(k) \/ k \in x.missed \cup x.got

\* Between two channels a sync holds nothing, after the last one there is none; what
\* it holds is of the channel at hand.
Holds(x) ==
  /\ x.since <= Count
  /\ x.at # "file" => x.got = {}
  /\ x.at = "mark" => x.todo = {}
  /\ x.at \in {"channel", "file"} => x.target \in Targets
  /\ x.at = "file" => /\ x.chan \in Channels
                      /\ \A k \in x.got : posted[k].ch = x.chan

Connected == slack.status # "none" => slack.target \in Targets

SlackIInv ==
  /\ SlackTypes /\ Connected /\ MarkPassesOnlyWhatWasSeen
  /\ \A j \in Jobs : /\ Holds(pull[j]) /\ Accounts(pull[j])
                     /\ pull[j].row => slack.status # "none"

\* The messages are numbered without a gap.
LEMMA Numbered ==
  ASSUME NEW f, NEW m \in 0..MaxMessages, DOMAIN f = 1..m
  PROVE  (CHOOSE n \in 0..MaxMessages : DOMAIN f = 1..n) = m
<1>1. \A n \in 0..MaxMessages : 1..n = 1..m => n = m
  <2>1. SUFFICES ASSUME NEW n \in 0..MaxMessages, 1..n = 1..m
                 PROVE  n = m
    OBVIOUS
  <2>2. (n > 0 => n \in 1..m) /\ (m > 0 => m \in 1..n)
    BY <2>1, SyncAssumption
  <2>3. QED
    BY <2>2, SyncAssumption
<1>2. QED
  BY <1>1

LEMMA Counting ==
  ASSUME SlackTypes
  PROVE  /\ Count \in 0..MaxMessages /\ DOMAIN posted = 1..Count
         /\ \A k \in DOMAIN posted : /\ posted[k].ch \in Channels
                                     /\ posted[k] \in [ch : Channels, thread : 0..MaxMessages]
<1>1. PICK n \in 0..MaxMessages : posted \in [1..n -> [ch : Channels, thread : 0..MaxMessages]]
  BY DEF SlackTypes
<1>2. DOMAIN posted = 1..n
  BY <1>1
<1>3. Count = n
  BY <1>2, Numbered DEF Count
<1>4. QED
  BY <1>1, <1>2, <1>3

\* A step of one sync that keeps the messages and forgets none.
LEMMA SlackMoves ==
  ASSUME SlackIInv, NEW j \in Jobs, NEW r \in PullStates, SetPull(j, r), UNCHANGED posted,
         files' \in [Targets \X Channels -> SUBSET DOMAIN posted], left' \subseteq DOMAIN posted,
         \A k \in DOMAIN posted : Settled(k) => Settled(k)',
         slack' \in Connections, slack'.mark <= Count, Connected',
         slack'.status = "none" => slack.status = "none",
         \A k \in DOMAIN posted : k <= slack'.mark => Settled(k)',
         r.got \cup r.missed \subseteq DOMAIN posted, Holds(r), Accounts(r)',
         r.row => slack'.status # "none"
  PROVE  SlackIInv'
<1>1. \A i \in Jobs : pull'[i] = IF i = j THEN r ELSE pull[i]
  BY DEF SlackIInv, SlackTypes, SetPull
<1>2. Count' = Count
  BY DEF Count
<1>3. SlackTypes'
  <2>1. pull' \in [Jobs -> PullStates]
    BY DEF SlackIInv, SlackTypes, SetPull
  <2>2. \A i \in Jobs : pull'[i].got \cup pull'[i].missed \subseteq DOMAIN posted
    BY <1>1 DEF SlackIInv, SlackTypes
  <2>3. QED
    BY <1>2, <2>1, <2>2 DEF SlackIInv, SlackTypes
<1>4. MarkPassesOnlyWhatWasSeen'
  BY DEF MarkPassesOnlyWhatWasSeen, Settled
<1>5. ASSUME NEW i \in Jobs
      PROVE  /\ Holds(pull[i])' /\ Accounts(pull[i])'
             /\ pull'[i].row => slack'.status # "none"
  <2>1. CASE i = j
    BY <1>1, <1>2, <2>1 DEF Holds, Accounts
  <2>2. CASE i # j
    <3>1. PICK x : x = pull[i] /\ x = pull'[i] /\ Holds(x) /\ Accounts(x)
                   /\ (x.row => slack.status # "none")
      BY <1>1, <2>2 DEF SlackIInv
    <3>2. Accounts(x)'
      <4>1. SUFFICES ASSUME x.at \in Fetching, NEW k \in DOMAIN posted
                     PROVE  /\ k <= x.since => Settled(k)'
                            /\ posted[k].ch \notin x.todo => Settled(k)' \/ k \in x.missed \cup x.got
        BY DEF Accounts
      <4>2. QED
        BY <3>1, <4>1 DEF Accounts
    <3>3. Holds(x)'
      BY <1>2, <3>1 DEF Holds
    <3>4. QED
      BY <3>1, <3>2, <3>3 DEF Holds, Accounts
  <2>3. QED
    BY <2>1, <2>2
<1>6. QED
  BY <1>3, <1>4, <1>5 DEF SlackIInv

\* Such a step that leaves the row and the files alone as well.
LEMMA PullMoves ==
  ASSUME SlackIInv, NEW j \in Jobs, NEW r \in PullStates, SetPull(j, r),
         UNCHANGED <<posted, slack, files, left>>,
         r.got \cup r.missed \subseteq DOMAIN posted, Holds(r), Accounts(r),
         r.row => slack.status # "none"
  PROVE  SlackIInv'
<1>1. \A k \in DOMAIN posted : Settled(k)' <=> Settled(k)
  BY DEF Settled, Archived
<1>2. Accounts(r)'
  BY DEF Accounts, Settled, Archived
<1>3. \A k \in DOMAIN posted : k <= slack'.mark => Settled(k)'
  BY <1>1 DEF SlackIInv, MarkPassesOnlyWhatWasSeen, Settled
<1>4. Connected' /\ slack' \in Connections /\ slack'.mark <= Count
  BY DEF SlackIInv, Connected, SlackTypes
<1>5. files' \in [Targets \X Channels -> SUBSET DOMAIN posted] /\ left' \subseteq DOMAIN posted
  BY DEF SlackIInv, SlackTypes
<1>6. QED
  BY <1>1, <1>2, <1>3, <1>4, <1>5, SlackMoves

\* Records that differ from Quiet in a field or two.
LEMMA QuietWith ==
  ASSUME NEW at \in PullStages \ {"channel", "file"}, NEW row \in BOOLEAN,
         NEW missed \in SUBSET Messages
  PROVE  /\ Quiet \in PullStates
         /\ [Quiet EXCEPT !.at = at, !.row = row] \in PullStates
         /\ [Quiet EXCEPT !.at = at, !.row = row, !.missed = missed] \in PullStates
<1>1. Quiet \in PullStates
  BY SyncAssumption DEF Quiet, PullStates, PullStages
<1>2. PICK x \in PullStates : x = Quiet
  BY <1>1
<1>3. /\ [x EXCEPT !.at = at, !.row = row] \in PullStates
      /\ [x EXCEPT !.at = at, !.row = row, !.missed = missed] \in PullStates
  BY DEF PullStates
<1>4. QED
  BY <1>1, <1>2, <1>3

LEMMA QuietIsPullState ==
  ASSUME SlackIInv
  PROVE  Quiet \in PullStates /\ Holds(Quiet) /\ Accounts(Quiet)
<1>1. Quiet \in PullStates
  BY SyncAssumption DEF Quiet, PullStates, PullStages
<1>2. Count \in Nat
  BY Counting, SyncAssumption DEF SlackIInv
<1>3. QED
  BY <1>1, <1>2 DEF Holds, Accounts, Quiet, Fetching

\* Syncs that begin, and a failed one that is about to say so.
LEMMA PlainSync ==
  ASSUME SlackIInv, NEW at \in {"read", "fail"}, NEW row \in BOOLEAN
  PROVE  LET r == [Quiet EXCEPT !.at = at, !.row = row]
         IN  /\ r \in PullStates /\ r.row = row /\ r.got = {} /\ r.missed = {}
             /\ Holds(r) /\ Accounts(r)
<1>1. PICK r : r = [Quiet EXCEPT !.at = at, !.row = row]
  OBVIOUS
<1>2. r \in PullStates
  BY <1>1, QuietWith DEF PullStages
<1>3. r.at = at /\ r.row = row /\ r.got = {} /\ r.missed = {} /\ r.since = 0
  BY <1>1 DEF Quiet
<1>4. Count \in Nat
  BY Counting, SyncAssumption DEF SlackIInv
<1>5. Holds(r) /\ Accounts(r)
  BY <1>3, <1>4 DEF Holds, Accounts, Fetching
<1>6. QED
  BY <1>1, <1>2, <1>3, <1>5

LEMMA ListSlackStep ==
  ASSUME SlackIInv, NEW j \in Jobs, ListSlack(j) \/ StartPull(j)
  PROVE  SlackIInv'
<1>1. PICK r : r = [Quiet EXCEPT !.at = "read", !.row = TRUE]
  OBVIOUS
<1>2. SetPull(j, r) /\ UNCHANGED <<posted, slack, files, left>> /\ slack.status # "none"
  BY <1>1 DEF ListSlack, StartPull
<1>3. /\ r \in PullStates /\ r.row = TRUE /\ r.got = {} /\ r.missed = {}
      /\ Holds(r) /\ Accounts(r)
  BY <1>1, PlainSync
<1>4. QED
  BY <1>2, <1>3, PullMoves

\* Another list of channels leaves lastSyncedAt and the target as they are.
LEMMA ConnectSlackStep ==
  ASSUME SlackIInv, NEW j \in Jobs, NEW chs \in SUBSET Channels, NEW format \in Formats,
         NEW target \in Targets, ConnectSlack(j, chs, format, target)
  PROVE  SlackIInv'
<1>1. PICK r : r = [Quiet EXCEPT !.at = "read", !.row = TRUE]
  OBVIOUS
<1>2. SetPull(j, r) /\ UNCHANGED <<posted, files, left>>
  BY <1>1 DEF ConnectSlack
<1>3. /\ r \in PullStates /\ r.row = TRUE /\ r.got = {} /\ r.missed = {}
      /\ Holds(r) /\ Accounts(r)
  BY <1>1, PlainSync
<1>4. PICK c \in Connections : c = slack /\ c.mark <= Count
  BY DEF SlackIInv, SlackTypes
<1>5. PICK d : /\ d = slack'
               /\ d = IF c.status = "none"
                      THEN [status |-> "active", synced |-> FALSE, mark |-> 0, channels |-> chs,
                            format |-> format, target |-> target]
                      ELSE [c EXCEPT !.status = "active", !.channels = chs, !.format = format]
  BY <1>4 DEF ConnectSlack
<1>6. Count \in Nat
  BY Counting, SyncAssumption DEF SlackIInv
<1>7. /\ d \in Connections /\ d.status = "active" /\ d.mark \in {0, c.mark} /\ d.target \in Targets
  <2>1. CASE c.status = "none"
    BY <1>5, <2>1, SyncAssumption DEF Connections, SlackStatus
  <2>2. CASE c.status # "none"
    <3>1. c.target \in Targets
      BY <1>4, <2>2 DEF SlackIInv, Connected
    <3>2. QED
      BY <1>4, <1>5, <2>2, <3>1 DEF Connections, SlackStatus
  <2>3. QED
    BY <2>1, <2>2
<1>8. \A k \in DOMAIN posted : Settled(k)' <=> Settled(k)
  BY <1>2 DEF Settled, Archived
<1>9. \A k \in DOMAIN posted : k <= slack'.mark => Settled(k)'
  <2>1. \A k \in DOMAIN posted : k \in Nat /\ k # 0
    BY Counting DEF SlackIInv
  <2>2. \A k \in DOMAIN posted : k <= c.mark => Settled(k)
    BY <1>4 DEF SlackIInv, MarkPassesOnlyWhatWasSeen, Settled
  <2>3. QED
    BY <1>5, <1>7, <1>8, <2>1, <2>2
<1>10. Accounts(r)'
  BY <1>2, <1>3 DEF Accounts, Settled, Archived
<1>11. QED
  <2>1. slack'.mark <= Count /\ Connected' /\ slack' \in Connections /\ slack'.status # "none"
    BY <1>4, <1>5, <1>6, <1>7 DEF Connected
  <2>2. files' \in [Targets \X Channels -> SUBSET DOMAIN posted] /\ left' \subseteq DOMAIN posted
    BY <1>2 DEF SlackIInv, SlackTypes
  <2>3. QED
    BY <1>2, <1>3, <1>8, <1>9, <1>10, <2>1, <2>2, SlackMoves

LEMMA DisconnectStep ==
  ASSUME SlackIInv, DisconnectSlack
  PROVE  SlackIInv'
<1>1. /\ slack' = NoConnection /\ pull' = [j \in Jobs |-> [pull[j] EXCEPT !.row = FALSE]]
      /\ UNCHANGED <<posted, files, left>>
  BY DEF DisconnectSlack
<1>2. Count' = Count /\ \A k \in DOMAIN posted : k \in Nat /\ k # 0
  <2>1. Count' = Count
    BY <1>1 DEF Count
  <2>2. \A k \in DOMAIN posted : k \in Nat /\ k # 0
    BY Counting, SyncAssumption DEF SlackIInv
  <2>3. QED
    BY <2>1, <2>2
<1>3. slack' \in Connections /\ slack'.status = "none" /\ slack'.mark = 0
  BY <1>1, SyncAssumption DEF NoConnection, Connections, SlackStatus
<1>4. ASSUME NEW j \in Jobs
      PROVE  /\ pull'[j] \in PullStates /\ pull'[j].got \cup pull'[j].missed \subseteq DOMAIN posted
             /\ Holds(pull[j])' /\ Accounts(pull[j])' /\ ~pull'[j].row
  <2>1. PICK x \in PullStates : x = pull[j] /\ Holds(x) /\ Accounts(x)
                                /\ x.got \cup x.missed \subseteq DOMAIN posted
    BY DEF SlackIInv, SlackTypes
  <2>2. PICK r : r = [x EXCEPT !.row = FALSE]
    OBVIOUS
  <2>3. /\ r \in PullStates /\ r.at = x.at /\ r.since = x.since /\ r.todo = x.todo /\ r.chan = x.chan
        /\ r.target = x.target /\ r.got = x.got /\ r.missed = x.missed /\ ~r.row
    BY <2>2 DEF PullStates
  <2>4. Holds(r) /\ Accounts(r)
    BY <2>1, <2>3 DEF Holds, Accounts
  <2>5. pull'[j] = r
    BY <1>1, <2>1, <2>2
  <2>6. QED
    BY <1>1, <1>2, <2>1, <2>3, <2>4, <2>5 DEF Holds, Accounts, Settled, Archived
<1>5. SlackTypes'
  <2>1. slack'.mark <= Count'
    BY <1>2, <1>3, Counting, SyncAssumption DEF SlackIInv
  <2>2. pull' \in [Jobs -> PullStates]
    BY <1>1, <1>4
  <2>3. QED
    BY <1>1, <1>2, <1>3, <1>4, <2>1, <2>2 DEF SlackIInv, SlackTypes
<1>6. MarkPassesOnlyWhatWasSeen' /\ Connected'
  BY <1>1, <1>2, <1>3 DEF MarkPassesOnlyWhatWasSeen, Connected
<1>7. QED
  BY <1>3, <1>4, <1>5, <1>6 DEF SlackIInv

\* A message that comes later than a sync reached its channel is passed over.
LEMMA PostStep ==
  ASSUME SlackIInv, NEW ch \in Channels, NEW root \in 0..MaxMessages, NEW own \in BOOLEAN,
         Post(ch, root, own)
  PROVE  SlackIInv'
<1>1. /\ Count < MaxMessages /\ UNCHANGED <<slack, files, left>>
      /\ posted' = [k \in 1..(Count + 1) |->
                      IF k > Count THEN [ch |-> ch, thread |-> root]
                      ELSE IF k = root /\ own THEN [ch |-> ch, thread |-> root] ELSE posted[k]]
      /\ root # 0 => root \in DOMAIN posted /\ posted[root].ch = ch
  BY DEF Post, After
<1>2. PICK n \in Nat : n = Count /\ n <= MaxMessages /\ DOMAIN posted = 1..n
  BY Counting, SyncAssumption DEF SlackIInv
<1>3. DOMAIN posted' = 1..(n + 1) /\ n + 1 \in 0..MaxMessages
  BY <1>1, <1>2, SyncAssumption
<1>4. Count' = n + 1
  BY <1>3, Numbered DEF Count
<1>5. \A k \in 1..(n + 1) : posted'[k] \in [ch : Channels, thread : 0..MaxMessages]
  <2>1. \A k \in 1..n : posted[k] \in [ch : Channels, thread : 0..MaxMessages]
    BY <1>2, Counting DEF SlackIInv
  <2>2. [ch |-> ch, thread |-> root] \in [ch : Channels, thread : 0..MaxMessages]
    OBVIOUS
  <2>3. \A k \in 1..(n + 1) : k > n \/ k \in 1..n
    BY <1>2
  <2>4. QED
    BY <1>1, <1>2, <2>1, <2>2, <2>3
<1>6. posted' \in [1..(n + 1) -> [ch : Channels, thread : 0..MaxMessages]]
  BY <1>1, <1>2, <1>5
<1>7. \A k \in 1..n : posted'[k].ch = posted[k].ch
  <2>1. SUFFICES ASSUME NEW k \in 1..n
                 PROVE  posted'[k].ch = posted[k].ch
    OBVIOUS
  <2>2. k \in 1..(n + 1) /\ ~(k > n)
    BY <1>2
  <2>3. posted'[k] = IF k = root /\ own THEN [ch |-> ch, thread |-> root] ELSE posted[k]
    BY <1>1, <1>2, <2>2
  <2>4. CASE k = root /\ own
    <3>1. k # 0
      BY <1>2
    <3>2. QED
      BY <1>1, <2>3, <2>4, <3>1
  <2>5. CASE ~(k = root /\ own)
    BY <2>3, <2>5
  <2>6. QED
    BY <2>4, <2>5
<1>8. posted'[n + 1].ch = ch
  BY <1>1, <1>2
<1>9. \A k \in 1..n : Settled(k)' <=> Settled(k)
  BY <1>1, <1>7 DEF Settled, Archived
<1>10. ASSUME NEW j \in Jobs
       PROVE  /\ pull'[j] \in PullStates /\ pull'[j].got \cup pull'[j].missed \subseteq 1..(n + 1)
              /\ Holds(pull[j])' /\ Accounts(pull[j])' /\ pull'[j].row = pull[j].row
  <2>1. PICK x \in PullStates : x = pull[j] /\ Holds(x) /\ Accounts(x) /\ x.got \cup x.missed \subseteq 1..n
    BY <1>2 DEF SlackIInv, SlackTypes
  <2>2. PICK r : r = IF x.at \in Fetching /\ ch \notin x.todo
                     THEN [x EXCEPT !.missed = @ \cup {n + 1}] ELSE x
    OBVIOUS
  <2>3. pull'[j] = r
    BY <1>2, <2>1, <2>2 DEF Post, Fetching
  <2>4. n + 1 \in Messages
    BY <1>2, <1>3 DEF Messages
  <2>5. /\ r \in PullStates /\ r.at = x.at /\ r.since = x.since /\ r.todo = x.todo /\ r.chan = x.chan
        /\ r.target = x.target /\ r.got = x.got /\ r.row = x.row
        /\ r.missed = IF x.at \in Fetching /\ ch \notin x.todo THEN x.missed \cup {n + 1} ELSE x.missed
    BY <2>1, <2>2, <2>4 DEF PullStates
  <2>6. x.since \in Nat /\ x.since <= n
    BY <1>2, <2>1, SyncAssumption DEF Holds, PullStates
  <2>7. \A k \in 1..(n + 1) : k = n + 1 \/ k \in 1..n
    BY <1>2
  <2>8. Accounts(r)'
    <3>1. SUFFICES ASSUME x.at \in Fetching, NEW k \in 1..(n + 1)
                   PROVE  /\ k <= x.since => Settled(k)'
                          /\ posted'[k].ch \notin x.todo => Settled(k)' \/ k \in r.missed \cup r.got
      BY <1>3, <2>5 DEF Accounts
    <3>2. CASE k = n + 1
      BY <1>8, <2>5, <2>6, <3>1, <3>2
    <3>3. CASE k \in 1..n
      <4>1. /\ k <= x.since => Settled(k)
            /\ posted[k].ch \notin x.todo => Settled(k) \/ k \in x.missed \cup x.got
        BY <1>2, <2>1, <3>1, <3>3 DEF Accounts
      <4>2. x.missed \cup x.got \subseteq r.missed \cup r.got
        BY <2>5
      <4>3. QED
        BY <1>7, <1>9, <3>3, <4>1, <4>2
    <3>4. QED
      BY <2>7, <3>2, <3>3
  <2>9. Holds(r)'
    <3>1. \A k \in r.got : posted'[k].ch = posted[k].ch
      BY <1>7, <2>1, <2>5
    <3>2. r.since <= Count'
      BY <1>2, <1>4, <2>5, <2>6
    <3>3. QED
      BY <2>1, <2>5, <3>1, <3>2 DEF Holds
  <2>10. r.got \cup r.missed \subseteq 1..(n + 1)
    <3>1. 1..n \subseteq 1..(n + 1) /\ n + 1 \in 1..(n + 1)
      BY <1>2
    <3>2. QED
      BY <2>1, <2>5, <3>1
  <2>11. QED
    BY <2>1, <2>3, <2>5, <2>8, <2>9, <2>10 DEF Holds, Accounts
<1>11. SlackTypes'
  <2>1. 1..n \subseteq 1..(n + 1)
    BY <1>2
  <2>2. files' \in [Targets \X Channels -> SUBSET DOMAIN posted'] /\ left' \subseteq DOMAIN posted'
    BY <1>1, <1>2, <1>3, <2>1 DEF SlackIInv, SlackTypes
  <2>3. slack'.mark <= Count'
    <3>1. slack.mark \in Nat /\ slack.mark <= n
      BY <1>2, SyncAssumption DEF SlackIInv, SlackTypes, Connections
    <3>2. QED
      BY <1>1, <1>2, <1>4, <3>1
  <2>4. pull' \in [Jobs -> PullStates]
    BY <1>10 DEF Post
  <2>5. posted' \in UNION {[1..m -> [ch : Channels, thread : 0..MaxMessages]] : m \in 0..MaxMessages}
    BY <1>3, <1>6
  <2>6. QED
    BY <1>1, <1>3, <1>10, <2>2, <2>3, <2>4, <2>5 DEF SlackIInv, SlackTypes
<1>12. MarkPassesOnlyWhatWasSeen'
  <2>1. SUFFICES ASSUME NEW k \in 1..(n + 1), k <= slack.mark
                 PROVE  Settled(k)'
    BY <1>1, <1>3 DEF MarkPassesOnlyWhatWasSeen, Settled
  <2>2. slack.mark \in Nat /\ slack.mark <= n
    BY <1>2, SyncAssumption DEF SlackIInv, SlackTypes, Connections
  <2>3. k \in 1..n
    BY <1>2, <2>1, <2>2
  <2>4. QED
    BY <1>2, <1>9, <2>1, <2>3 DEF SlackIInv, MarkPassesOnlyWhatWasSeen, Settled
<1>13. Connected'
  BY <1>1 DEF SlackIInv, Connected
<1>14. QED
  BY <1>1, <1>10, <1>11, <1>12, <1>13 DEF SlackIInv

LEMMA ReadConnectionStep ==
  ASSUME SlackIInv, NEW j \in Jobs, ReadConnection(j)
  PROVE  SlackIInv'
<1>1. PICK x \in PullStates : /\ x = pull[j] /\ x.at = "read" /\ Holds(x)
                              /\ x.row => slack.status # "none"
  BY DEF SlackIInv, SlackTypes, ReadConnection
<1>2. PICK c \in Connections : c = slack /\ c.mark <= Count
  BY DEF SlackIInv, SlackTypes
<1>3. UNCHANGED <<posted, slack, files, left>>
  BY DEF ReadConnection
<1>4. CASE ~x.row
  <2>1. SetPull(j, Quiet)
    BY <1>1, <1>4 DEF ReadConnection
  <2>2. Quiet.got = {} /\ Quiet.missed = {} /\ Quiet.row = FALSE
    BY DEF Quiet
  <2>3. QED
    BY <1>3, <2>1, <2>2, QuietIsPullState, PullMoves
<1>5. CASE x.row
  <2>1. PICK at \in PullStages, first \in BOOLEAN, over \in SUBSET DOMAIN posted :
          /\ at = IF c.channels = {} THEN "mark" ELSE "channel"
          /\ first = ~c.synced /\ over = After(c.mark, Channels \ c.channels)
    BY <1>2 DEF PullStages, After, Connections
  <2>2. /\ over \in SUBSET Messages
        /\ c.mark \in 0..MaxMessages /\ c.channels \in SUBSET Channels
        /\ c.format \in Formats \cup {Null} /\ c.target \in Targets \cup {Null}
    <3>1. DOMAIN posted \subseteq Messages
      BY Counting, SyncAssumption DEF SlackIInv, Messages
    <3>2. QED
      BY <2>1, <3>1 DEF Connections
  <2>3. PICK r : r = [x EXCEPT !.at = at, !.first = first, !.since = c.mark, !.format = c.format,
                               !.target = c.target, !.todo = c.channels, !.missed = over]
    OBVIOUS
  <2>4. SetPull(j, r)
    BY <1>1, <1>2, <1>5, <2>1, <2>3 DEF ReadConnection
  <2>5. /\ r \in PullStates /\ r.at = at /\ r.row = x.row /\ r.since = c.mark /\ r.target = c.target
        /\ r.todo = c.channels /\ r.got = x.got /\ r.missed = over
    BY <1>1, <2>1, <2>2, <2>3 DEF PullStates
  <2>6. x.got = {} /\ c.target \in Targets
    BY <1>1, <1>2, <1>5 DEF Holds, SlackIInv, Connected
  <2>7. Holds(r)
    BY <1>2, <2>1, <2>5, <2>6 DEF Holds
  <2>8. Accounts(r)
    <3>1. SUFFICES ASSUME NEW k \in DOMAIN posted
                   PROVE  /\ k <= c.mark => Settled(k)
                          /\ posted[k].ch \notin c.channels => Settled(k) \/ k \in over
      BY <2>5, <2>6 DEF Accounts
    <3>2. k <= c.mark => Settled(k)
      BY <1>2, <3>1 DEF SlackIInv, MarkPassesOnlyWhatWasSeen, Settled
    <3>3. posted[k].ch \in Channels /\ k \in Nat /\ c.mark \in Nat
      BY <1>2, <3>1, Counting, SyncAssumption DEF SlackIInv, Connections
    <3>4. QED
      BY <2>1, <3>1, <3>2, <3>3 DEF After
  <2>9. QED
    BY <1>1, <1>3, <1>5, <2>1, <2>4, <2>5, <2>6, <2>7, <2>8, PullMoves
<1>6. QED
  BY <1>4, <1>5

\* Every later message of the channel is taken or passed over.
LEMMA FetchChannelStep ==
  ASSUME SlackIInv, NEW j \in Jobs, NEW ch \in Channels, FetchChannel(j, ch)
  PROVE  SlackIInv'
<1>1. PICK x \in PullStates : /\ x = pull[j] /\ x.at = "channel" /\ ch \in x.todo
                              /\ Holds(x) /\ Accounts(x) /\ (x.row => slack.status # "none")
                              /\ x.got \cup x.missed \subseteq DOMAIN posted
  BY DEF SlackIInv, SlackTypes, FetchChannel
<1>2. PICK got \in SUBSET {k \in DOMAIN posted : posted[k].ch = ch} :
        SetPull(j, [x EXCEPT !.at = "file", !.todo = @ \ {ch}, !.chan = ch, !.got = got,
                             !.missed = @ \cup (After(x.since, {ch}) \ got)])
  BY <1>1 DEF FetchChannel, Shown, After
<1>3. PICK over : over = x.missed \cup (After(x.since, {ch}) \ got)
  OBVIOUS
<1>4. DOMAIN posted \subseteq Messages
  BY Counting, SyncAssumption DEF SlackIInv, Messages
<1>5. over \subseteq DOMAIN posted
  BY <1>1, <1>3 DEF After
<1>6. PICK r : r = [x EXCEPT !.at = "file", !.todo = x.todo \ {ch}, !.chan = ch, !.got = got, !.missed = over]
  OBVIOUS
<1>7. SetPull(j, r)
  BY <1>1, <1>2, <1>3, <1>6 DEF SetPull
<1>8. /\ r \in PullStates /\ r.at = "file" /\ r.row = x.row /\ r.since = x.since /\ r.target = x.target
      /\ r.todo = x.todo \ {ch} /\ r.chan = ch /\ r.got = got /\ r.missed = over
  <2>1. got \in SUBSET Messages /\ over \in SUBSET Messages
    BY <1>2, <1>4, <1>5
  <2>2. QED
    BY <1>1, <1>6, <2>1 DEF PullStates, PullStages
<1>9. Holds(r)
  BY <1>1, <1>2, <1>8 DEF Holds
<1>10. Accounts(r)
  <2>1. SUFFICES ASSUME NEW k \in DOMAIN posted
                 PROVE  /\ k <= x.since => Settled(k)
                        /\ posted[k].ch \notin x.todo \ {ch} => Settled(k) \/ k \in over \cup got
    BY <1>8 DEF Accounts
  <2>2. /\ k <= x.since => Settled(k)
        /\ posted[k].ch \notin x.todo => Settled(k) \/ k \in x.missed \cup x.got
    BY <1>1, <2>1 DEF Accounts, Fetching
  <2>3. k \in Nat /\ x.since \in Nat
    BY <1>1, <2>1, Counting, SyncAssumption DEF SlackIInv, PullStates
  <2>4. CASE posted[k].ch = ch
    <3>1. k <= x.since \/ k \in After(x.since, {ch})
      BY <2>1, <2>3, <2>4 DEF After
    <3>2. QED
      BY <1>3, <2>2, <3>1
  <2>5. CASE posted[k].ch # ch
    <3>1. x.got = {}
      BY <1>1 DEF Holds
    <3>2. QED
      BY <1>3, <2>2, <2>5, <3>1
  <2>6. QED
    BY <2>4, <2>5
<1>11. UNCHANGED <<posted, slack, files, left>>
  BY DEF FetchChannel
<1>12. got \cup over \subseteq DOMAIN posted
  BY <1>2, <1>5
<1>13. QED
  BY <1>1, <1>7, <1>8, <1>9, <1>10, <1>11, <1>12, PullMoves

\* The record of a sync after a channel.
AfterChannel(x, todo, over) ==
  IF todo = {} THEN [Quiet EXCEPT !.at = "mark", !.row = x.row, !.missed = over]
  ELSE [x EXCEPT !.at = "channel", !.todo = todo, !.chan = Null, !.got = {}, !.missed = over]

LEMMA AfterChannelKeeps ==
  ASSUME SlackIInv, NEW x \in PullStates, Holds(x), x.at \in {"channel", "file"},
         NEW todo \in SUBSET x.todo, NEW over \in SUBSET DOMAIN posted,
         NEW r, r = AfterChannel(x, todo, over)
  PROVE  /\ r \in PullStates /\ Holds(r) /\ r.got = {} /\ r.row = x.row /\ r.todo = todo
         /\ r.missed = over /\ r.since \in {0, x.since}
<1>1. over \in SUBSET Messages
  <2>1. DOMAIN posted \subseteq Messages
    BY Counting, SyncAssumption DEF SlackIInv, Messages
  <2>2. QED
    BY <2>1
<1>2. Count \in Nat
  BY Counting, SyncAssumption DEF SlackIInv
<1>3. CASE todo = {}
  <2>1. r = [Quiet EXCEPT !.at = "mark", !.row = x.row, !.missed = over] /\ x.row \in BOOLEAN
    BY <1>3 DEF AfterChannel, PullStates
  <2>2. r \in PullStates
    <3>1. PICK at \in PullStages \ {"channel", "file"} : at = "mark"
      BY DEF PullStages
    <3>2. [Quiet EXCEPT !.at = at, !.row = x.row, !.missed = over] \in PullStates
      BY <1>1, <2>1, QuietWith
    <3>3. QED
      BY <2>1, <3>1, <3>2
  <2>3. r.at = "mark" /\ r.row = x.row /\ r.missed = over /\ r.since = 0 /\ r.todo = {} /\ r.got = {}
    BY <2>1 DEF Quiet
  <2>4. QED
    BY <1>2, <1>3, <2>2, <2>3 DEF Holds
<1>4. CASE todo # {}
  <2>1. r = [x EXCEPT !.at = "channel", !.todo = todo, !.chan = Null, !.got = {}, !.missed = over]
    BY <1>4 DEF AfterChannel
  <2>2. todo \in SUBSET Channels
    BY DEF PullStates
  <2>3. /\ r \in PullStates /\ r.at = "channel" /\ r.row = x.row /\ r.missed = over /\ r.since = x.since
        /\ r.todo = todo /\ r.got = {} /\ r.target = x.target
    BY <1>1, <2>1, <2>2 DEF PullStates, PullStages
  <2>4. QED
    BY <2>3 DEF Holds
<1>5. QED
  BY <1>3, <1>4

LEMMA FailChannelStep ==
  ASSUME SlackIInv, NEW j \in Jobs, FailChannel(j)
  PROVE  SlackIInv'
<1>1. PICK x \in PullStates : /\ x = pull[j] /\ x.at \in {"channel", "file"} /\ Holds(x) /\ Accounts(x)
                              /\ x.row => slack.status # "none"
                              /\ x.got \cup x.missed \subseteq DOMAIN posted
  BY DEF SlackIInv, SlackTypes, FailChannel
<1>2. PICK todo \in SUBSET x.todo, missed \in SUBSET DOMAIN posted :
        /\ NextChannel(j, todo, missed)
        /\ x.got \subseteq missed
        /\ \A k \in DOMAIN posted : posted[k].ch \in x.todo \ todo => k <= x.since \/ k \in missed
  <2>1. CASE x.at = "channel"
    <3>1. PICK ch \in x.todo : NextChannel(j, x.todo \ {ch}, After(x.since, {ch}))
      BY <1>1, <2>1 DEF FailChannel
    <3>2. PICK todo \in SUBSET x.todo, missed \in SUBSET DOMAIN posted :
            todo = x.todo \ {ch} /\ missed = After(x.since, {ch})
      BY DEF After
    <3>3. \A k \in DOMAIN posted : k \in Nat /\ x.since \in Nat
      BY Counting, SyncAssumption DEF SlackIInv, PullStates
    <3>4. \A k \in DOMAIN posted : posted[k].ch \in x.todo \ todo => k <= x.since \/ k \in missed
      BY <3>2, <3>3 DEF After
    <3>5. x.got \subseteq missed
      BY <1>1, <2>1 DEF Holds
    <3>6. NextChannel(j, todo, missed)
      BY <3>1, <3>2
    <3>7. QED
      BY <3>4, <3>5, <3>6
  <2>2. CASE x.at = "file"
    BY <1>1, <2>2 DEF FailChannel
  <2>3. QED
    BY <1>1, <2>1, <2>2
<1>3. PICK over \in SUBSET DOMAIN posted, r \in PullStates :
        /\ SetPull(j, r) /\ Holds(r) /\ r.got = {} /\ r.row = x.row /\ r.todo = todo
        /\ over = x.missed \cup missed /\ r.missed = over /\ r.since \in {0, x.since}
  <2>1. PICK over : over = x.missed \cup missed
    OBVIOUS
  <2>2. PICK r : r = AfterChannel(x, todo, over)
    OBVIOUS
  <2>3. SetPull(j, r)
    BY <1>1, <1>2, <2>1, <2>2 DEF NextChannel, AfterChannel
  <2>4. over \in SUBSET DOMAIN posted
    BY <1>1, <2>1
  <2>5. /\ r \in PullStates /\ Holds(r) /\ r.got = {} /\ r.row = x.row /\ r.todo = todo
        /\ r.missed = over /\ r.since \in {0, x.since}
    BY <1>1, <2>2, <2>4, AfterChannelKeeps
  <2>6. QED
    BY <2>1, <2>3, <2>4, <2>5
<1>4. Accounts(r)
  <2>1. SUFFICES ASSUME NEW k \in DOMAIN posted
                 PROVE  /\ k <= r.since => Settled(k)
                        /\ posted[k].ch \notin todo => Settled(k) \/ k \in x.missed \cup missed
    BY <1>3 DEF Accounts
  <2>2. /\ k <= x.since => Settled(k)
        /\ posted[k].ch \notin x.todo => Settled(k) \/ k \in x.missed \cup x.got
    BY <1>1, <2>1 DEF Accounts, Fetching
  <2>3. k \in Nat /\ k # 0
    BY <2>1, Counting DEF SlackIInv
  <2>4. k <= r.since => Settled(k)
    BY <1>3, <2>2, <2>3
  <2>5. posted[k].ch \notin todo => Settled(k) \/ k \in x.missed \cup missed
    BY <1>2, <2>1, <2>2
  <2>6. QED
    BY <2>4, <2>5
<1>5. UNCHANGED <<posted, slack, files, left>>
  BY DEF FailChannel
<1>6. QED
  BY <1>1, <1>3, <1>4, <1>5, PullMoves

\* What a channel's file holds from now on is in it, what it no longer holds is left.
LEMMA WriteChannelStep ==
  ASSUME SlackIInv, NEW j \in Jobs, WriteChannel(j)
  PROVE  SlackIInv'
<1>1. PICK x \in PullStates : /\ x = pull[j] /\ x.at \in {"channel", "file"} /\ Holds(x) /\ Accounts(x)
                              /\ x.at = "file" /\ (x.row => slack.status # "none")
                              /\ x.got \cup x.missed \subseteq DOMAIN posted
  BY DEF SlackIInv, SlackTypes, WriteChannel
<1>2. PICK todo \in SUBSET x.todo : todo = x.todo
  OBVIOUS
<1>3. PICK over \in SUBSET DOMAIN posted, r \in PullStates :
        /\ SetPull(j, r) /\ Holds(r) /\ r.got = {} /\ r.row = x.row /\ r.todo = todo
        /\ over = x.missed /\ r.missed = over /\ r.since \in {0, x.since}
  <2>1. PICK over : over = x.missed /\ x.missed \cup {} = over
    OBVIOUS
  <2>2. PICK r : r = AfterChannel(x, todo, over)
    OBVIOUS
  <2>3. SetPull(j, r)
    BY <1>1, <1>2, <2>1, <2>2 DEF WriteChannel, NextChannel, AfterChannel
  <2>4. over \in SUBSET DOMAIN posted
    BY <1>1, <2>1
  <2>5. /\ r \in PullStates /\ Holds(r) /\ r.got = {} /\ r.row = x.row /\ r.todo = todo
        /\ r.missed = over /\ r.since \in {0, x.since}
    BY <1>1, <2>2, <2>4, AfterChannelKeeps
  <2>6. QED
    BY <2>1, <2>3, <2>4, <2>5
<1>4. /\ r.got = {} /\ r.row = x.row /\ r.todo = x.todo /\ r.missed = x.missed
      /\ r.since \in {0, x.since} /\ SetPull(j, r) /\ Holds(r)
  BY <1>2, <1>3
<1>5. PICK path \in Targets \X Channels : path = <<x.target, x.chan>>
  BY <1>1 DEF Holds
<1>6. /\ files' = [files EXCEPT ![path] = x.got] /\ left' = (left \cup files[path]) \ x.got
      /\ UNCHANGED <<posted, slack>>
  BY <1>1, <1>5 DEF WriteChannel
<1>7. files \in [Targets \X Channels -> SUBSET DOMAIN posted] /\ left \subseteq DOMAIN posted
  BY DEF SlackIInv, SlackTypes
<1>8. files' \in [Targets \X Channels -> SUBSET DOMAIN posted] /\ left' \subseteq DOMAIN posted
  BY <1>1, <1>5, <1>6, <1>7
<1>9. \A k \in x.got : Settled(k)'
  <2>1. SUFFICES ASSUME NEW k \in x.got
                 PROVE  \E target \in Targets : k \in files'[<<target, posted[k].ch>>]
    BY <1>6 DEF Settled, Archived
  <2>2. path = <<x.target, posted[k].ch>> /\ x.target \in Targets
    BY <1>1, <1>5, <2>1 DEF Holds
  <2>3. files'[path] = x.got
    BY <1>5, <1>6, <1>7
  <2>4. QED
    BY <2>1, <2>2, <2>3
<1>10. \A k \in DOMAIN posted : Settled(k) => Settled(k)'
  <2>1. SUFFICES ASSUME NEW k \in DOMAIN posted, Settled(k), k \notin x.got
                 PROVE  Settled(k)'
    BY <1>9
  <2>2. CASE k \in left \cup files[path]
    BY <1>6, <2>1, <2>2 DEF Settled
  <2>3. CASE k \notin left \cup files[path]
    <3>1. PICK target \in Targets : k \in files[<<target, posted[k].ch>>]
      BY <2>1, <2>3 DEF Settled, Archived
    <3>2. files'[<<target, posted[k].ch>>] = files[<<target, posted[k].ch>>]
      BY <1>5, <1>6, <1>7, <2>3, <3>1
    <3>3. QED
      BY <1>6, <3>1, <3>2 DEF Settled, Archived
  <2>4. QED
    BY <2>2, <2>3
<1>11. Accounts(r)'
  <2>1. SUFFICES ASSUME NEW k \in DOMAIN posted
                 PROVE  /\ k <= r.since => Settled(k)'
                        /\ posted[k].ch \notin x.todo => Settled(k)' \/ k \in x.missed
    BY <1>6, <1>4 DEF Accounts
  <2>2. /\ k <= x.since => Settled(k)
        /\ posted[k].ch \notin x.todo => Settled(k) \/ k \in x.missed \cup x.got
    BY <1>1, <2>1 DEF Accounts, Fetching
  <2>3. k \in Nat /\ k # 0
    BY <2>1, Counting DEF SlackIInv
  <2>4. k <= r.since => Settled(k)'
    BY <1>4, <1>10, <2>1, <2>2, <2>3
  <2>5. posted[k].ch \notin x.todo => Settled(k)' \/ k \in x.missed
    BY <1>9, <1>10, <2>1, <2>2
  <2>6. QED
    BY <2>4, <2>5
<1>12. \A k \in DOMAIN posted : k <= slack'.mark => Settled(k)'
  BY <1>6, <1>10 DEF SlackIInv, MarkPassesOnlyWhatWasSeen, Settled
<1>13. slack' \in Connections /\ slack'.mark <= Count /\ Connected'
  BY <1>6 DEF SlackIInv, SlackTypes, Connected
<1>14. r.got \cup r.missed \subseteq DOMAIN posted /\ (r.row => slack'.status # "none")
  BY <1>1, <1>6, <1>4
<1>15. QED
  BY <1>6, <1>4, <1>8, <1>10, <1>11, <1>12, <1>13, <1>14, SlackMoves

\* At the end of a sync every message is in its file or has been passed over.
LEMMA MarkStep ==
  ASSUME SlackIInv, NEW j \in Jobs, Mark(j)
  PROVE  SlackIInv'
<1>1. PICK x \in PullStates : /\ x = pull[j] /\ x.at = "mark" /\ x.row /\ Holds(x) /\ Accounts(x)
                              /\ x.missed \subseteq DOMAIN posted
  BY DEF SlackIInv, SlackTypes, Mark
<1>2. PICK c \in Connections : c = slack /\ c.status # "none"
  BY <1>1 DEF SlackIInv, SlackTypes
<1>3. PICK n \in 0..MaxMessages : n = Count
  BY Counting DEF SlackIInv
<1>4. /\ slack' = [c EXCEPT !.status = "active", !.synced = TRUE, !.mark = n]
      /\ left' = left \cup {k \in x.missed : ~Archived(k)}
      /\ SetPull(j, Quiet) /\ UNCHANGED <<posted, files>>
  BY <1>1, <1>2, <1>3 DEF Mark, Synced
<1>5. /\ slack' \in Connections /\ slack'.status = "active" /\ slack'.mark = n
      /\ slack'.target = c.target
  BY <1>2, <1>4 DEF Connections, SlackStatus
<1>6. \A k \in DOMAIN posted : Archived(k)' <=> Archived(k)
  BY <1>4 DEF Archived
<1>7. \A k \in DOMAIN posted : Settled(k)'
  <2>1. SUFFICES ASSUME NEW k \in DOMAIN posted
                 PROVE  Archived(k) \/ k \in left'
    BY <1>6 DEF Settled
  <2>2. x.todo = {} /\ x.got = {}
    BY <1>1 DEF Holds
  <2>3. Settled(k) \/ k \in x.missed
    BY <1>1, <2>1, <2>2 DEF Accounts, Fetching
  <2>4. QED
    BY <1>4, <2>3 DEF Settled
<1>8. files' \in [Targets \X Channels -> SUBSET DOMAIN posted] /\ left' \subseteq DOMAIN posted
  BY <1>1, <1>4 DEF SlackIInv, SlackTypes
<1>9. Connected' /\ slack'.mark <= Count
  BY <1>2, <1>3, <1>5, SyncAssumption DEF Connected, SlackIInv
<1>10. /\ Quiet \in PullStates /\ Holds(Quiet) /\ Quiet.at = "idle" /\ Quiet.got = {}
       /\ Quiet.missed = {} /\ Quiet.row = FALSE
  BY QuietIsPullState DEF Quiet
<1>11. Accounts(Quiet)'
  BY <1>10 DEF Accounts, Fetching
<1>12. QED
  BY <1>4, <1>5, <1>7, <1>8, <1>9, <1>10, <1>11, SlackMoves

LEMMA FailSlackStep ==
  ASSUME SlackIInv, NEW j \in Jobs, FailSlack(j)
  PROVE  SlackIInv'
<1>1. UNCHANGED <<posted, slack, files, left>>
  BY DEF FailSlack
<1>2. PICK row \in BOOLEAN : row = pull[j].row /\ (row => slack.status # "none")
  BY DEF SlackIInv, SlackTypes, PullStates
<1>3. CASE SetPull(j, Quiet)
  <2>1. Quiet.got = {} /\ Quiet.missed = {} /\ Quiet.row = FALSE
    BY DEF Quiet
  <2>2. QED
    BY <1>1, <1>3, <2>1, QuietIsPullState, PullMoves
<1>4. CASE SetPull(j, [Quiet EXCEPT !.at = "fail", !.row = row])
  <2>1. PICK r : r = [Quiet EXCEPT !.at = "fail", !.row = row]
    OBVIOUS
  <2>2. /\ r \in PullStates /\ r.row = row /\ r.got = {} /\ r.missed = {}
        /\ Holds(r) /\ Accounts(r)
    BY <2>1, PlainSync
  <2>3. SetPull(j, r)
    BY <1>4, <2>1
  <2>4. QED
    BY <1>1, <1>2, <2>2, <2>3, PullMoves
<1>5. QED
  BY <1>2, <1>3, <1>4 DEF FailSlack

LEMMA WriteFailureStep ==
  ASSUME SlackIInv, NEW j \in Jobs, WriteFailure(j)
  PROVE  SlackIInv'
<1>1. SetPull(j, Quiet) /\ UNCHANGED <<posted, files, left>>
  BY DEF WriteFailure
<1>2. /\ Quiet \in PullStates /\ Holds(Quiet) /\ Quiet.at = "idle" /\ Quiet.got = {}
      /\ Quiet.missed = {} /\ Quiet.row = FALSE
  BY QuietIsPullState DEF Quiet
<1>3. CASE UNCHANGED slack
  BY <1>1, <1>2, <1>3, QuietIsPullState, PullMoves
<1>4. CASE slack' # slack
  <2>1. PICK c \in Connections : c = slack /\ c.status # "none" /\ c.mark <= Count
    BY <1>4 DEF SlackIInv, SlackTypes, WriteFailure
  <2>2. PICK status \in {"auth_failed", "sync_failed"} : slack' = [c EXCEPT !.status = status]
    BY <1>4, <2>1 DEF WriteFailure
  <2>3. slack' \in Connections /\ slack'.status # "none" /\ slack'.mark = c.mark /\ slack'.target = c.target
    BY <2>1, <2>2 DEF Connections, SlackStatus
  <2>4. \A k \in DOMAIN posted : Settled(k)' <=> Settled(k)
    BY <1>1 DEF Settled, Archived
  <2>5. \A k \in DOMAIN posted : k <= slack'.mark => Settled(k)'
    BY <2>1, <2>3, <2>4 DEF SlackIInv, MarkPassesOnlyWhatWasSeen, Settled
  <2>6. Connected' /\ slack'.mark <= Count
    BY <2>1, <2>3 DEF Connected, SlackIInv
  <2>7. files' \in [Targets \X Channels -> SUBSET DOMAIN posted] /\ left' \subseteq DOMAIN posted
    BY <1>1 DEF SlackIInv, SlackTypes
  <2>8. Accounts(Quiet)'
    BY <1>2 DEF Accounts, Fetching
  <2>9. QED
    BY <1>1, <1>2, <2>1, <2>3, <2>4, <2>5, <2>6, <2>7, <2>8, SlackMoves
<1>5. QED
  BY <1>3, <1>4

LEMMA SlackRests ==
  ASSUME SlackIInv, pull' = [j \in Jobs |-> Quiet], UNCHANGED <<posted, slack, files, left>>
  PROVE  SlackIInv'
<1>1. \A j \in Jobs : pull'[j] = Quiet
  OBVIOUS
<1>2. /\ Quiet \in PullStates /\ Holds(Quiet) /\ Quiet.at = "idle" /\ Quiet.got = {}
      /\ Quiet.missed = {} /\ Quiet.row = FALSE /\ Accounts(Quiet)
  BY QuietIsPullState DEF Quiet
<1>3. SlackTypes'
  BY <1>1, <1>2 DEF SlackIInv, SlackTypes, Count
<1>4. MarkPassesOnlyWhatWasSeen' /\ Connected'
  BY DEF SlackIInv, MarkPassesOnlyWhatWasSeen, Connected, Archived
<1>5. \A j \in Jobs : Holds(pull[j])' /\ Accounts(pull[j])' /\ ~pull'[j].row
  BY <1>1, <1>2 DEF Holds, Accounts, Settled, Archived, Count
<1>6. QED
  BY <1>3, <1>4, <1>5 DEF SlackIInv

\* Only the steps of Slack move what the invariant speaks of.
LEMMA SlackStays ==
  ASSUME SlackIInv, UNCHANGED slackVars
  PROVE  SlackIInv'
<1>1. /\ posted' = posted /\ slack' = slack /\ files' = files /\ pull' = pull /\ left' = left
  BY DEF slackVars
<1>2. SlackTypes'
  BY <1>1 DEF SlackIInv, SlackTypes, Count
<1>3. MarkPassesOnlyWhatWasSeen' /\ Connected'
  BY <1>1 DEF SlackIInv, MarkPassesOnlyWhatWasSeen, Connected, Archived
<1>4. \A j \in Jobs : Holds(pull[j])' /\ Accounts(pull[j])'
  BY <1>1 DEF SlackIInv, Holds, Accounts, Settled, Archived, Count
<1>5. QED
  BY <1>1, <1>2, <1>3, <1>4 DEF SlackIInv

LEMMA SlackSteps ==
  ASSUME SlackIInv, NEW j \in Jobs,
         \/ ListSlack(j) \/ StartPull(j) \/ SlackStep(j)
         \/ \E chs \in SUBSET Channels \ {{}}, format \in Formats, target \in Targets :
              ConnectSlack(j, chs, format, target)
  PROVE  SlackIInv'
  BY ListSlackStep, ConnectSlackStep, ReadConnectionStep, FetchChannelStep, WriteChannelStep,
     FailChannelStep, MarkStep, FailSlackStep, WriteFailureStep DEF SlackStep

LEMMA SlackBegins ==
  ASSUME Init
  PROVE  SlackIInv
<1>1. /\ posted = <<>> /\ slack = NoConnection /\ files = [path \in Targets \X Channels |-> {}]
      /\ left = {} /\ pull = [j \in Jobs |-> Quiet]
  BY DEF Init
<1>2. DOMAIN posted = {} /\ DOMAIN posted = 1..0 /\ 0 \in 0..MaxMessages
  BY <1>1, SyncAssumption
<1>3. Count = 0
  BY <1>2, Numbered DEF Count
<1>4. Quiet \in PullStates
  BY SyncAssumption DEF Quiet, PullStates, PullStages
<1>5. slack \in Connections /\ slack.mark = 0 /\ slack.status = "none"
  BY <1>1, SyncAssumption DEF NoConnection, Connections, SlackStatus
<1>6. SlackTypes
  <2>1. posted \in [1..0 -> [ch : Channels, thread : 0..MaxMessages]]
    BY <1>1
  <2>2. posted \in UNION {[1..n -> [ch : Channels, thread : 0..MaxMessages]] : n \in 0..MaxMessages}
    BY <1>2, <2>1
  <2>3. \A j \in Jobs : pull[j].got \cup pull[j].missed = {}
    BY <1>1 DEF Quiet
  <2>4. QED
    BY <1>1, <1>3, <1>4, <1>5, <2>2, <2>3 DEF SlackTypes
<1>7. MarkPassesOnlyWhatWasSeen /\ Connected
  BY <1>2, <1>5 DEF MarkPassesOnlyWhatWasSeen, Connected
<1>8. \A j \in Jobs : Holds(pull[j]) /\ Accounts(pull[j]) /\ pull[j].row = FALSE
  BY <1>1, <1>3 DEF Holds, Accounts, Quiet, Fetching
<1>9. QED
  BY <1>6, <1>7, <1>8 DEF SlackIInv

-----------------------------------------------------------------------------
(* Both connectors *)

IInv == setup \in Setups /\ DriveIInv /\ SlackIInv

LEMMA InitIInv == Init => IInv
  BY DriveBegins, SlackBegins DEF Init, IInv

LEMMA IInvStep == IInv /\ [Next]_vars => IInv'
<1> SUFFICES ASSUME IInv, [Next]_vars
             PROVE  IInv'
  OBVIOUS
<1>1. setup' = setup
  BY DEF Next, World, Start, DriveStep, SlackStep, EditRemote, Post, List, StartPick, ListSlack,
         StartPull, ConnectSlack, DisconnectSlack, FetchMeta, PickMeta, Recheck, FetchContent,
         WriteFile, FindRow, WriteRow, RecordVersion, FailDrive, ReadConnection, FetchChannel,
         WriteChannel, FailChannel, Mark, FailSlack, WriteFailure, Crash, vars
<1>2. CASE Next
  <2>1. ASSUME NEW f \in Files, EditRemote(f)
        PROVE  DriveIInv' /\ SlackIInv'
    BY <2>1, EditRemoteStep, SlackStays DEF IInv, EditRemote, slackVars
  <2>2. ASSUME NEW ch \in Channels, NEW root \in 0..MaxMessages, NEW own \in BOOLEAN,
               Post(ch, root, own)
        PROVE  DriveIInv' /\ SlackIInv'
    BY <2>2, PostStep, DriveStays DEF IInv, Post, driveVars
  <2>3. CASE DisconnectSlack
    BY <2>3, DisconnectStep, DriveStays DEF IInv, DisconnectSlack, driveVars
  <2>4. CASE Crash
    BY <2>4, DriveRests, SlackRests DEF IInv, Crash
  <2>5. ASSUME NEW j \in Jobs, List(j) \/ (\E f \in Files : StartPick(j, f)) \/ DriveStep(j)
        PROVE  DriveIInv' /\ SlackIInv'
    <3>1. UNCHANGED slackVars
      BY <2>5 DEF DriveStep, List, StartPick, FetchMeta, PickMeta, Recheck, FetchContent,
             WriteFile, FindRow, WriteRow, RecordVersion, FailDrive, slackVars
    <3>2. QED
      BY <2>5, <3>1, DriveSteps, SlackStays DEF IInv
  <2>6. ASSUME NEW j \in Jobs,
               \/ ListSlack(j) \/ StartPull(j) \/ SlackStep(j)
               \/ \E chs \in SUBSET Channels \ {{}}, format \in Formats, target \in Targets :
                    ConnectSlack(j, chs, format, target)
        PROVE  DriveIInv' /\ SlackIInv'
    <3>1. UNCHANGED driveVars
      BY <2>6 DEF SlackStep, ListSlack, StartPull, ConnectSlack, ReadConnection, FetchChannel,
             WriteChannel, FailChannel, Mark, FailSlack, WriteFailure, driveVars
    <3>2. QED
      BY <2>6, <3>1, SlackSteps, DriveStays DEF IInv
  <2>7. QED
    BY <1>1, <1>2, <2>1, <2>2, <2>3, <2>4, <2>5, <2>6 DEF Next, World, Start, IInv
<1>3. CASE UNCHANGED vars
  BY <1>1, <1>3, DriveStays, SlackStays DEF IInv, vars
<1>4. QED
  BY <1>2, <1>3

LEMMA InvariantHolds == Spec => []IInv
  BY InitIInv, IInvStep, PTL DEF Spec

\* The variables of the connectors keep their types, and what is counted as written
\* or passed over has been posted (drive-connector.ts, slack-connector.ts).
THEOREM SyncTypeCorrect == Spec => []TypeOK
<1>1. IInv => TypeOK
  BY DEF IInv, DriveIInv, DriveTypes, SlackIInv, SlackTypes, Connections, TypeOK
<1>2. QED
  BY <1>1, InvariantHolds, PTL

\* Whatever is edited, fails, overlaps or is connected again, no row is ahead of the
\* copy at its path, but for rows moved on by a connect that wrote elsewhere and for
\* disputed paths: lines 251-293 and 366-417 of drive-connector.ts.
THEOREM CopyIsAsNewAsItsRow == Spec => []RowIsNotAheadOfCopy
<1>1. IInv => RowIsNotAheadOfCopy
  BY DEF IInv, DriveIInv
<1>2. QED
  BY <1>1, InvariantHolds, PTL

\* lastSyncedAt passes no message that is in no file, unless a sync replaced its file
\* or had one of the stated reasons to leave it out: lines 186-231 and 446-546 of
\* slack-connector.ts.
THEOREM WatermarkPassesNothingUnseen == Spec => []MarkPassesOnlyWhatWasSeen
<1>1. IInv => MarkPassesOnlyWhatWasSeen
  BY DEF IInv, SlackIInv
<1>2. QED
  BY <1>1, InvariantHolds, PTL

-----------------------------------------------------------------------------
(* What the distiller makes of it *)

Working(d) == pass[d].pc \in {"extract", "facts"}

\* What a snapshot holds exists; facts are those of an item.
Snapshots ==
  \A d \in Passes :
    /\ pass[d].pc = "facts" => pass[d].item \in Items
    /\ \A c \in Candidates : pass[d].known[c] # {} => verdict[c] # "NONE"

\* A pass that overlaps no other is the only one under way.
Overlap ==
  \A d, o \in Passes : pass[d].pc # "idle" /\ pass[d].alone /\ o # d => pass[o].pc = "idle"

\* To such a pass every candidate is known that was never rejected.
Complete ==
  \A d \in Passes : Working(d) /\ pass[d].alone =>
    \A c \in Candidates \ rejected : verdict[c] \in Live => pass[d].known[c] # {}

\* It knows the sources of a candidate until it merges into it.
UpToDate ==
  \A d \in Passes : Working(d) /\ pass[d].alone =>
    \A c \in Candidates \ pass[d].merged :
      pass[d].known[c] # {} => sourceItems[c] = pass[d].known[c]

Rejections == \A c \in Candidates : verdict[c] = "REJECTED" => c \in rejected

DistillIInv ==
  DistillTypeOK /\ Snapshots /\ Overlap /\ Complete /\ UpToDate /\ Rejections
    /\ DuplicatesAreExplained

LEMMA DistillInitIInv == DistillInit => DistillIInv
<1> SUFFICES ASSUME DistillInit PROVE DistillIInv
  OBVIOUS
<1> USE DEF DistillInit
<1>1. Asleep \in PassStates
  BY DEF Asleep, PassStates
<1>2. DistillTypeOK
  BY <1>1 DEF DistillTypeOK, Verdicts
<1>3. Snapshots /\ Overlap /\ Complete /\ UpToDate
  BY DEF Snapshots, Overlap, Complete, UpToDate, Working, Asleep
<1>4. Rejections /\ DuplicatesAreExplained
  BY DEF Rejections, DuplicatesAreExplained, Live
<1> QED
  BY <1>2, <1>3, <1>4 DEF DistillIInv

\* A verdict brings a candidate back to life only if it was rejected before.
LEMMA DecideKeeps ==
  ASSUME DistillIInv, NEW c \in Candidates, NEW v \in {"CONFIRMED", "REJECTED"}, Decide(c, v)
  PROVE  DistillIInv'
<1> USE DEF DistillIInv, Decide
<1>1. DistillTypeOK'
  BY DEF DistillTypeOK, Verdicts
<1>2. Snapshots' /\ Overlap'
  BY DEF Snapshots, Overlap, DistillTypeOK, Verdicts
<1>3. \A b \in Candidates : verdict'[b] = "REJECTED" => b \in rejected'
  BY DEF Rejections, DistillTypeOK
<1>4. \A b \in Candidates \ rejected' : verdict'[b] \in Live => verdict[b] \in Live
  BY DEF Rejections, DistillTypeOK, Live, Verdicts
<1>5. rejected \subseteq rejected'
  OBVIOUS
<1>6. Complete'
  BY <1>4, <1>5 DEF Complete, Working
<1>7. UpToDate'
  BY DEF UpToDate, Working
<1>8. DuplicatesAreExplained'
  BY <1>4, <1>5 DEF DuplicatesAreExplained
<1> QED
  BY <1>1, <1>2, <1>3, <1>6, <1>7, <1>8 DEF Rejections

\* Whoever begins is alone only if nobody else is there, and nobody else is alone then.
LEMMA BeginPassKeeps ==
  ASSUME DistillIInv, NEW d \in Passes, NEW items \in SUBSET Items, BeginPass(d, items)
  PROVE  DistillIInv'
<1> USE DEF DistillIInv
<1>1. PICK alone \in BOOLEAN :
        /\ alone <=> \A o \in Passes : pass[o].pc = "idle"
        /\ pass' = [o \in Passes |->
                      IF o = d
                      THEN [Asleep EXCEPT !.pc = "read", !.items = items, !.alone = alone]
                      ELSE [pass[o] EXCEPT !.alone = (pass[o].pc = "idle")]]
  BY DEF BeginPass
<1>2. begun' = begun + 1 /\ UNCHANGED <<cands, rejected, raced>>
  BY DEF BeginPass
<1>3. /\ pass'[d] \in PassStates /\ pass'[d].pc = "read" /\ pass'[d].alone = alone
      /\ pass'[d].known = [c \in Candidates |-> {}]
  BY <1>1 DEF Asleep, PassStates
<1>4. \A o \in Passes \ {d} :
        /\ pass'[o] \in PassStates
        /\ pass'[o].pc = pass[o].pc /\ pass'[o].item = pass[o].item
        /\ pass'[o].known = pass[o].known /\ pass'[o].alone = (pass[o].pc = "idle")
  <2> SUFFICES ASSUME NEW o \in Passes \ {d}
               PROVE  /\ pass'[o] \in PassStates
                      /\ pass'[o].pc = pass[o].pc /\ pass'[o].item = pass[o].item
                      /\ pass'[o].known = pass[o].known /\ pass'[o].alone = (pass[o].pc = "idle")
    OBVIOUS
  <2>1. pass[o] \in PassStates /\ (pass[o].pc = "idle") \in BOOLEAN
    BY DEF DistillTypeOK
  <2>2. pass'[o] = [pass[o] EXCEPT !.alone = (pass[o].pc = "idle")]
    BY <1>1
  <2> QED
    BY <2>1, <2>2 DEF PassStates
<1>5. DistillTypeOK'
  <2>1. \A o \in Passes : pass'[o] \in PassStates
    BY <1>3, <1>4
  <2>2. pass' \in [Passes -> PassStates]
    BY <1>1, <2>1, Zenon
  <2>3. QED
    BY <1>2, <2>2 DEF DistillTypeOK, cands
<1>6. Snapshots'
  BY <1>2, <1>3, <1>4 DEF Snapshots, cands
<1>7. Overlap'
  BY <1>1, <1>3, <1>4 DEF Overlap
<1>8. Complete' /\ UpToDate'
  BY <1>3, <1>4 DEF Complete, UpToDate, Working
<1> QED
  BY <1>2, <1>5, <1>6, <1>7, <1>8 DEF Rejections, DuplicatesAreExplained, cands

\* A pass that changes only itself and stays as alone as it was: what is left to see.
LEMMA OthersKept ==
  ASSUME DistillIInv, NEW d \in Passes, NEW x \in PassStates,
         pass' = [pass EXCEPT ![d] = x],
         x.pc # "idle" => pass[d].pc # "idle" /\ x.alone = pass[d].alone
  PROVE  /\ pass' \in [Passes -> PassStates] /\ pass'[d] = x
         /\ \A o \in Passes \ {d} : pass'[o] = pass[o]
         /\ Overlap'
         /\ \A o \in Passes \ {d} : pass[d].pc # "idle" => ~(Working(o) /\ pass[o].alone)
  BY DEF DistillIInv, DistillTypeOK, Overlap, Working

\* A step that leaves the candidates alone.
LEMMA PassStepKeeps ==
  ASSUME DistillIInv, NEW d \in Passes, NEW x \in PassStates,
         pass' = [pass EXCEPT ![d] = x], UNCHANGED <<cands, history>>,
         x.pc # "idle" => pass[d].pc # "idle" /\ x.alone = pass[d].alone,
         x.pc = "facts" => x.item \in Items,
         \A c \in Candidates : x.known[c] # {} => verdict[c] # "NONE",
         x.pc \in {"extract", "facts"} /\ x.alone =>
           /\ \A c \in Candidates \ rejected : verdict[c] \in Live => x.known[c] # {}
           /\ \A c \in Candidates \ x.merged : x.known[c] # {} => sourceItems[c] = x.known[c]
  PROVE  DistillIInv'
<1>1. /\ pass' \in [Passes -> PassStates] /\ pass'[d] = x
      /\ \A o \in Passes \ {d} : pass'[o] = pass[o]
      /\ Overlap'
  BY OthersKept
<1> USE <1>1 DEF DistillIInv, cands, history
<1>2. DistillTypeOK'
  BY DEF DistillTypeOK
<1>3. Snapshots'
  BY DEF Snapshots
<1>4. Complete'
  BY DEF Complete, Working
<1>5. UpToDate'
  BY DEF UpToDate, Working
<1> QED
  BY <1>2, <1>3, <1>4, <1>5 DEF Rejections, DuplicatesAreExplained

\* The snapshot knows every candidate that is not rejected, with its sources.
LEMMA SnapshotKeeps ==
  ASSUME DistillIInv, NEW d \in Passes, ReadCandidates(d)
  PROVE  DistillIInv'
<1> DEFINE known == [c \in Candidates |-> IF verdict[c] \in Live THEN sourceItems[c] ELSE {}]
<1> DEFINE x == [pass[d] EXCEPT !.pc = "extract", !.known = known]
<1>1. pass[d] \in PassStates
  BY DEF DistillIInv, DistillTypeOK
<1>2. known \in [Candidates -> SUBSET Items]
  BY DEF DistillIInv, DistillTypeOK
<1>3. /\ x \in PassStates /\ x.pc = "extract" /\ x.known = known
      /\ x.alone = pass[d].alone
  BY <1>1, <1>2 DEF PassStates
<1>4. pass' = [pass EXCEPT ![d] = x] /\ UNCHANGED <<cands, history>> /\ pass[d].pc = "read"
  BY DEF ReadCandidates, Snapshot, DistillIInv, DistillTypeOK
<1>5. \A c \in Candidates :
        /\ known[c] # {} => verdict[c] # "NONE" /\ sourceItems[c] = known[c]
        /\ verdict[c] \in Live => known[c] # {}
  BY DEF DistillIInv, DistillTypeOK, Live
<1> HIDE DEF x, known
<1> QED
  BY <1>3, <1>4, <1>5, PassStepKeeps

LEMMA ExtractKeeps ==
  ASSUME DistillIInv, NEW d \in Passes, NEW i \in Items, NEW facts \in SUBSET Facts,
         Extract(d, i, facts)
  PROVE  DistillIInv'
<1> DEFINE x == [pass[d] EXCEPT !.pc = "facts", !.item = i, !.facts = facts, !.items = @ \ {i}]
<1>1. pass[d] \in PassStates
  BY DEF DistillIInv, DistillTypeOK
<1>2. /\ x \in PassStates /\ x.pc = "facts" /\ x.item = i /\ x.known = pass[d].known
      /\ x.alone = pass[d].alone /\ x.merged = pass[d].merged
  BY <1>1 DEF PassStates
<1>3. pass' = [pass EXCEPT ![d] = x] /\ UNCHANGED <<cands, history>> /\ pass[d].pc = "extract"
  BY DEF Extract, DistillIInv, DistillTypeOK
<1>4. \A c \in Candidates : pass[d].known[c] # {} => verdict[c] # "NONE"
  BY DEF DistillIInv, Snapshots
<1>5. pass[d].alone =>
        /\ \A c \in Candidates \ rejected : verdict[c] \in Live => pass[d].known[c] # {}
        /\ \A c \in Candidates \ pass[d].merged :
             pass[d].known[c] # {} => sourceItems[c] = pass[d].known[c]
  BY <1>3 DEF DistillIInv, Complete, UpToDate, Working
<1> HIDE DEF x
<1> QED
  BY <1>2, <1>3, <1>4, <1>5, PassStepKeeps

LEMMA AsleepKeeps ==
  ASSUME DistillIInv, NEW d \in Passes, pass' = [pass EXCEPT ![d] = Asleep],
         UNCHANGED <<cands, history>>
  PROVE  DistillIInv'
<1>1. /\ Asleep \in PassStates /\ Asleep.pc = "idle"
      /\ \A c \in Candidates : Asleep.known[c] = {}
  BY DEF Asleep, PassStates
<1> QED
  BY <1>1, PassStepKeeps, Zenon

LEMMA NextItemKeeps ==
  ASSUME DistillIInv, NEW d \in Passes, NextItem(d)
  PROVE  DistillIInv'
<1>1. CASE pass[d].items = {}
  BY <1>1, AsleepKeeps DEF NextItem
<1>2. CASE pass[d].items # {}
  <2> DEFINE x == [pass[d] EXCEPT !.pc = "extract", !.item = None]
  <2>1. pass[d] \in PassStates
    BY DEF DistillIInv, DistillTypeOK
  <2>2. /\ x \in PassStates /\ x.pc = "extract" /\ x.known = pass[d].known
        /\ x.alone = pass[d].alone /\ x.merged = pass[d].merged
    BY <2>1 DEF PassStates
  <2>3. pass' = [pass EXCEPT ![d] = x] /\ UNCHANGED <<cands, history>> /\ pass[d].pc = "facts"
    BY <1>2 DEF NextItem, DistillIInv, DistillTypeOK
  <2>4. \A c \in Candidates : pass[d].known[c] # {} => verdict[c] # "NONE"
    BY DEF DistillIInv, Snapshots
  <2>5. pass[d].alone =>
          /\ \A c \in Candidates \ rejected : verdict[c] \in Live => pass[d].known[c] # {}
          /\ \A c \in Candidates \ pass[d].merged :
               pass[d].known[c] # {} => sourceItems[c] = pass[d].known[c]
    BY <2>3 DEF DistillIInv, Complete, UpToDate, Working
  <2> HIDE DEF x
  <2> QED
    BY <2>2, <2>3, <2>4, <2>5, PassStepKeeps
<1> QED
  BY <1>1, <1>2

LEMMA FailPassKeeps ==
  ASSUME DistillIInv, NEW d \in Passes, FailPass(d)
  PROVE  DistillIInv'
BY AsleepKeeps DEF FailPass

\* A merge writes what the snapshot says of the candidate, which exists.
LEMMA MergeKeeps ==
  ASSUME DistillIInv, NEW d \in Passes, NEW f \in Facts, NEW c \in Candidates, Merge(d, f, c)
  PROVE  DistillIInv'
<1>1. /\ pass[d] \in PassStates /\ pass[d].pc = "facts" /\ pass[d].item \in Items
      /\ pass[d].known[c] # {} /\ verdict[c] # "NONE"
  BY DEF DistillIInv, DistillTypeOK, Snapshots, Merge, Known
<1>2. \A b \in Candidates : pass[d].known[b] # {} => verdict[b] # "NONE"
  BY DEF DistillIInv, Snapshots
<1>3. pass[d].alone =>
        /\ \A b \in Candidates \ rejected : verdict[b] \in Live => pass[d].known[b] # {}
        /\ \A b \in Candidates \ pass[d].merged :
             pass[d].known[b] # {} => sourceItems[b] = pass[d].known[b]
  BY <1>1 DEF DistillIInv, Complete, UpToDate, Working
<1>4. CASE UNCHANGED sourceItems /\ pass' = [pass EXCEPT ![d] = FactDone(d, f)]
  <2> DEFINE x == FactDone(d, f)
  <2>1. /\ x \in PassStates /\ x.pc = "facts" /\ x.item = pass[d].item /\ x.known = pass[d].known
        /\ x.alone = pass[d].alone /\ x.merged = pass[d].merged
    BY <1>1 DEF PassStates, FactDone
  <2>2. UNCHANGED <<cands, history>> /\ pass' = [pass EXCEPT ![d] = x]
    BY <1>4 DEF Merge, cands
  <2>3. x.pc = "facts" => pass[d].pc # "idle" /\ x.alone = pass[d].alone /\ x.item \in Items
    BY <1>1, <2>1
  <2> HIDE DEF x
  <2>4. /\ \A b \in Candidates : x.known[b] # {} => verdict[b] # "NONE"
        /\ x.alone => /\ \A b \in Candidates \ rejected : verdict[b] \in Live => x.known[b] # {}
                      /\ \A b \in Candidates \ x.merged : x.known[b] # {} => sourceItems[b] = x.known[b]
    BY <1>2, <1>3, <2>1
  <2> QED
    BY <2>1, <2>2, <2>3, <2>4, PassStepKeeps, Zenon
<1>5. CASE /\ sourceItems' = [sourceItems EXCEPT ![c] = pass[d].known[c] \cup {pass[d].item}]
           /\ pass' = [pass EXCEPT ![d] = [FactDone(d, f) EXCEPT !.merged = @ \cup {c}]]
  <2> DEFINE x == [FactDone(d, f) EXCEPT !.merged = @ \cup {c}]
  <2>1. /\ x \in PassStates /\ x.pc = "facts" /\ x.item = pass[d].item /\ x.known = pass[d].known
        /\ x.alone = pass[d].alone /\ x.merged = pass[d].merged \cup {c}
    BY <1>1 DEF PassStates, FactDone
  <2>2. /\ UNCHANGED <<verdict, fact, history>>
        /\ pass' = [pass EXCEPT ![d] = x]
    BY <1>5 DEF Merge
  <2> HIDE DEF x
  <2>3. /\ pass' \in [Passes -> PassStates] /\ pass'[d] = x
        /\ \A o \in Passes \ {d} : pass'[o] = pass[o]
        /\ Overlap'
        /\ \A o \in Passes \ {d} : ~(Working(o) /\ pass[o].alone)
    BY <1>1, <2>1, <2>2, OthersKept
  <2>4. /\ pass[d].known[c] \cup {pass[d].item} \in SUBSET Items
        /\ pass[d].known[c] \cup {pass[d].item} # {}
    BY <1>1 DEF PassStates
  <2>5. DistillTypeOK'
    BY <1>1, <1>5, <2>2, <2>3, <2>4 DEF DistillIInv, DistillTypeOK, history
  <2>6. Snapshots'
    BY <1>1, <1>2, <2>1, <2>2, <2>3 DEF DistillIInv, Snapshots
  <2>7. Complete'
    BY <1>3, <2>1, <2>2, <2>3 DEF Complete, Working, history
  <2>8. UpToDate'
    <3>1. \A b \in Candidates \ {c} : sourceItems'[b] = sourceItems[b]
      BY <1>5 DEF DistillIInv, DistillTypeOK
    <3> QED
      BY <1>3, <2>1, <2>2, <2>3, <3>1 DEF UpToDate, Working
  <2> QED
    BY <2>2, <2>3, <2>5, <2>6, <2>7, <2>8
       DEF DistillIInv, Rejections, DuplicatesAreExplained, history
<1> QED
  BY <1>4, <1>5 DEF Merge

\* A pass that is alone and knows no such candidate duplicates none that was never rejected.
LEMMA ProposeKeeps ==
  ASSUME DistillIInv, NEW d \in Passes, NEW f \in Facts, NEW c \in Candidates, Propose(d, f, c)
  PROVE  DistillIInv'
<1>1. /\ pass[d] \in PassStates /\ pass[d].pc = "facts" /\ pass[d].item \in Items
      /\ Known(d, f) = {} /\ verdict[c] = "NONE"
  BY DEF DistillIInv, DistillTypeOK, Snapshots, Propose
<1> DEFINE x == [FactDone(d, f) EXCEPT !.known[c] = {pass[d].item}]
<1>2. /\ x \in PassStates /\ x.pc = "facts" /\ x.item = pass[d].item
      /\ x.alone = pass[d].alone /\ x.merged = pass[d].merged
      /\ x.known = [pass[d].known EXCEPT ![c] = {pass[d].item}]
  BY <1>1 DEF PassStates, FactDone
<1>3. /\ pass' = [pass EXCEPT ![d] = x]
      /\ verdict' = [verdict EXCEPT ![c] = "TENTATIVE"]
      /\ fact' = [fact EXCEPT ![c] = f]
      /\ sourceItems' = [sourceItems EXCEPT ![c] = {pass[d].item}]
      /\ raced' = IF pass[d].alone THEN raced ELSE raced \cup {c}
      /\ UNCHANGED <<begun, rejected>>
  BY DEF Propose
<1> HIDE DEF x
<1>4. /\ pass' \in [Passes -> PassStates] /\ pass'[d] = x
      /\ \A o \in Passes \ {d} : pass'[o] = pass[o]
      /\ Overlap'
      /\ \A o \in Passes \ {d} : ~(Working(o) /\ pass[o].alone)
  BY <1>1, <1>2, <1>3, OthersKept
<1>5. /\ x.known[c] = {pass[d].item}
      /\ \A b \in Candidates \ {c} : x.known[b] = pass[d].known[b]
  BY <1>1, <1>2 DEF PassStates
<1>6. /\ verdict'[c] = "TENTATIVE" /\ fact'[c] = f /\ sourceItems'[c] = {pass[d].item}
      /\ \A b \in Candidates \ {c} : /\ verdict'[b] = verdict[b] /\ fact'[b] = fact[b]
                                     /\ sourceItems'[b] = sourceItems[b]
  BY <1>3 DEF DistillIInv, DistillTypeOK
<1>7. pass[d].alone =>
        /\ \A b \in Candidates \ rejected : verdict[b] \in Live => pass[d].known[b] # {}
        /\ \A b \in Candidates \ pass[d].merged :
             pass[d].known[b] # {} => sourceItems[b] = pass[d].known[b]
  BY <1>1 DEF DistillIInv, Complete, UpToDate, Working
<1>8. DistillTypeOK'
  <2>1. /\ verdict' \in [Candidates -> {"NONE"} \cup Verdicts]
        /\ fact' \in [Candidates -> Facts \cup {None}]
        /\ sourceItems' \in [Candidates -> SUBSET Items]
        /\ begun' \in Nat /\ rejected' \subseteq Candidates /\ raced' \subseteq Candidates
    BY <1>1, <1>3 DEF DistillIInv, DistillTypeOK, Verdicts
  <2>2. \A b \in Candidates : verdict'[b] = "NONE" <=> sourceItems'[b] = {}
    BY <1>6 DEF DistillIInv, DistillTypeOK
  <2> QED
    BY <1>4, <2>1, <2>2 DEF DistillTypeOK
<1>9. Snapshots'
  <2>1. \A b \in Candidates : x.known[b] # {} => verdict'[b] # "NONE"
    BY <1>5, <1>6 DEF DistillIInv, Snapshots
  <2>2. \A o \in Passes \ {d} : \A b \in Candidates : pass[o].known[b] # {} => verdict'[b] # "NONE"
    BY <1>6 DEF DistillIInv, Snapshots
  <2>3. \A o \in Passes : pass'[o].pc = "facts" => pass'[o].item \in Items
    BY <1>1, <1>2, <1>4 DEF DistillIInv, Snapshots
  <2>4. \A o \in Passes : \A b \in Candidates : pass'[o].known[b] # {} => verdict'[b] # "NONE"
    BY <1>4, <2>1, <2>2, Zenon
  <2> QED
    BY <2>3, <2>4 DEF Snapshots
<1>10. Complete'
  <2>1. pass[d].alone => \A b \in Candidates \ rejected : verdict'[b] \in Live => x.known[b] # {}
    BY <1>5, <1>6, <1>7
  <2> QED
    BY <1>2, <1>3, <1>4, <2>1 DEF Complete, Working
<1>11. UpToDate'
  <2>1. pass[d].alone => \A b \in Candidates \ pass[d].merged :
                           x.known[b] # {} => sourceItems'[b] = x.known[b]
    BY <1>5, <1>6, <1>7
  <2> QED
    BY <1>2, <1>4, <2>1 DEF UpToDate, Working
<1>12. Rejections'
  BY <1>3, <1>6 DEF DistillIInv, Rejections
<1>13. DuplicatesAreExplained'
  <2>1. raced \subseteq raced' /\ (pass[d].alone \/ c \in raced')
    BY <1>3
  <2>2. pass[d].alone => \A b \in Candidates \ {c} :
          fact[b] = f /\ verdict[b] \in Live => b \in rejected
    BY <1>1, <1>7 DEF Known
  <2>3. \A a, b \in Candidates \ {c} :
          a # b /\ fact[a] = fact[b] /\ verdict[a] \in Live /\ verdict[b] \in Live
            => {a, b} \cap (raced' \cup rejected) # {}
    BY <2>1 DEF DistillIInv, DuplicatesAreExplained
  <2> QED
    BY <1>3, <1>6, <2>1, <2>2, <2>3 DEF DuplicatesAreExplained
<1> QED
  BY <1>4, <1>8, <1>9, <1>10, <1>11, <1>12, <1>13 DEF DistillIInv

LEMMA DistillInvariance == DistillSpec => []DistillIInv
<1>1. DistillIInv /\ [DistillNext]_distillVars => DistillIInv'
  <2> SUFFICES ASSUME DistillIInv, [DistillNext]_distillVars PROVE DistillIInv'
    OBVIOUS
  <2>1. CASE UNCHANGED distillVars
    BY <2>1 DEF DistillIInv, DistillTypeOK, Snapshots, Overlap, Complete, UpToDate, Working,
         Rejections, DuplicatesAreExplained, distillVars, cands, history
  <2>2. ASSUME NEW c \in Candidates, NEW v \in {"CONFIRMED", "REJECTED"}, Decide(c, v)
        PROVE  DistillIInv'
    BY <2>2, DecideKeeps
  <2>3. ASSUME NEW d \in Passes, Distill(d)
        PROVE  DistillIInv'
    BY <2>3, BeginPassKeeps, SnapshotKeeps, NextItemKeeps, FailPassKeeps, ExtractKeeps,
       MergeKeeps, ProposeKeeps DEF Distill
  <2> QED
    BY <2>1, <2>2, <2>3 DEF DistillNext
<1> QED
  BY <1>1, DistillInitIInv, PTL DEF DistillSpec

\* The rows and passes of the distiller keep their types; a candidate has sources from
\* its proposal on, whatever passes merge into it.
THEOREM DistillTypeCorrect == DistillSpec => []DistillTypeOK
<1>1. DistillIInv => DistillTypeOK
  BY DEF DistillIInv
<1> QED
  BY <1>1, DistillInvariance, PTL

\* Two live candidates for one fact come only of passes that overlapped or of a
\* rejection, for any number of passes.
THEOREM FactsAreProposedOnce == DistillSpec => []DuplicatesAreExplained
<1>1. DistillIInv => DuplicatesAreExplained
  BY DEF DistillIInv
<1> QED
  BY <1>1, DistillInvariance, PTL

\* A merge takes a source away only if its pass has merged into the candidate before or
\* has overlapped another pass.
THEOREM SourcesAreNotLost == DistillSpec => SourcesAreKept
<1> DEFINE Kept(c) == \/ sourceItems[c] \subseteq sourceItems'[c]
                      \/ \E d \in Passes : pass[d] # pass'[d] /\ (c \in pass[d].merged \/ ~pass[d].alone)
<1>1. DistillIInv /\ [DistillNext]_distillVars => \A c \in Candidates : Kept(c)
  <2> SUFFICES ASSUME DistillIInv, [DistillNext]_distillVars, NEW c \in Candidates
               PROVE  Kept(c)
    OBVIOUS
  <2>1. CASE UNCHANGED sourceItems
    BY <2>1
  <2>2. ASSUME NEW d \in Passes, NEW f \in Facts, NEW b \in Candidates, Merge(d, f, b),
               sourceItems' # sourceItems
        PROVE  Kept(c)
    <3>1. /\ pass[d].pc = "facts" /\ f \in pass[d].facts /\ pass[d].known[b] # {}
          /\ sourceItems' = [sourceItems EXCEPT ![b] = pass[d].known[b] \cup {pass[d].item}]
          /\ pass' = [pass EXCEPT ![d] = [FactDone(d, f) EXCEPT !.merged = @ \cup {b}]]
      BY <2>2 DEF Merge, Known
    <3>2. pass'[d].facts = pass[d].facts \ {f}
      BY <3>1 DEF FactDone, DistillIInv, DistillTypeOK, PassStates
    <3>3. pass[d] # pass'[d]
      BY <3>1, <3>2
    <3>4. CASE c = b
      <4>1. CASE b \in pass[d].merged \/ ~pass[d].alone
        BY <3>3, <3>4, <4>1
      <4>2. CASE ~(b \in pass[d].merged \/ ~pass[d].alone)
        <5>1. sourceItems[b] = pass[d].known[b]
          BY <3>1, <4>2 DEF DistillIInv, UpToDate, Working
        <5> QED
          BY <3>1, <3>4, <5>1 DEF DistillIInv, DistillTypeOK
      <4> QED
        BY <4>1, <4>2
    <3>5. CASE c # b
      BY <3>1, <3>5 DEF DistillIInv, DistillTypeOK
    <3> QED
      BY <3>4, <3>5
  <2>3. ASSUME NEW d \in Passes, NEW f \in Facts, NEW b \in Candidates, Propose(d, f, b)
        PROVE  Kept(c)
    BY <2>3 DEF Propose, DistillIInv, DistillTypeOK
  <2> HIDE DEF Kept
  <2> QED
    BY <2>1, <2>2, <2>3 DEF DistillNext, Distill, Decide, BeginPass, ReadCandidates, Snapshot,
         NextItem, FailPass, Extract, distillVars, cands
<1>2. DistillIInv /\ [DistillNext]_distillVars =>
        [\A c \in Candidates : sourceItems[c] \subseteq sourceItems'[c]
           \/ \E d \in Passes : pass[d] # pass'[d] /\ (c \in pass[d].merged \/ ~pass[d].alone)]_distillVars
  BY <1>1
<1> QED
  BY <1>2, DistillInvariance, PTL DEF DistillSpec, SourcesAreKept
=============================================================================
