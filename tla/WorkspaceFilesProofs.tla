------------------------ MODULE WorkspaceFilesProofs ------------------------
(***************************************************************************)
(* For any contents and any number of changes and requests: decisions are  *)
(* final and tell what happened to the file, a diff shows what its change  *)
(* does, and the hash of an import is that of the file it wrote, wherever  *)
(* requests interleave and break off.                                      *)
(***************************************************************************)
EXTENDS WorkspaceFiles, WellFoundedInduction, TLAPS

\* A change in nobody's dispute has one review at most, before it is decided.
OneReview ==
  \A j \in Jobs : job[j].change \in Changes \ disputed =>
    /\ status[job[j].change] = "PENDING"
    /\ \A k \in Jobs : job[k].change = job[j].change => k = j

\* Whatever is reviewed or was applied has a row.
Reviewed ==
  /\ \A j \in Jobs : job[j].change # None => status[job[j].change] # "NONE"
  /\ \A c \in applied : status[c] # "NONE"

\* An approval that comes to its decision has written the file; the text of a change
\* is in the file by an approval, which has decided or is about to.
Written ==
  /\ \A j \in Jobs : job[j].op = "approve" /\ job[j].pc = "record" => job[j].change \in applied
  /\ \A c \in applied \ disputed :
       \/ status[c] = "APPROVED"
       \/ \E j \in Jobs : job[j].op = "approve" /\ job[j].pc = "record" /\ job[j].change = c

\* An import alone has what was imported last, and nobody makes its row meanwhile.
OneImport ==
  mixed \/ \A j \in Jobs : job[j].op = "import" =>
    /\ job[j].seen = imported
    /\ job[j].pc = "insert" => row = None
    /\ \A k \in Jobs : job[k].op = "import" => k = j

IInv == /\ TypeOK /\ OneReview /\ Reviewed /\ Written /\ OneImport
        /\ DecisionMatchesFile /\ RowMatchesImport

-----------------------------------------------------------------------------
\* What the statement a request stands at says of its record.
JobFacts(x) ==
  /\ x.pc \in {"idle", "create", "write", "record", "lookup", "insert", "update"}
  /\ x.pc = "idle" => x = Quiet
  /\ x.pc = "create" => x.op = "propose" /\ x.change = None /\ x.seen \in Contents \cup {Blank}
  /\ x.pc = "write" => x.op = "approve" /\ x.change \in Changes
  /\ x.pc = "record" => x.op \in {"approve", "reject"} /\ x.change \in Changes
  /\ x.pc \in {"lookup", "insert", "update"} =>
       x.op = "import" /\ x.change = None /\ x.seen \in Contents
  /\ x.change \in Changes \cup {None}

LEMMA JobsHaveFacts ==
  ASSUME TypeOK
  PROVE  \A j \in Jobs : job[j] \in JobStates /\ JobFacts(job[j])
<1>1. ASSUME NEW x \in JobStates
      PROVE  JobFacts(x)
  BY DEF JobStates, JobFacts, Quiet
<1>2. QED
  BY <1>1 DEF TypeOK

LEMMA InitIInv == Init => IInv
<1> SUFFICES ASSUME Init
             PROVE  IInv
  OBVIOUS
<1>1. TypeOK
  BY DEF Init, TypeOK, JobStates, Decided
<1>2. OneReview /\ Reviewed /\ Written /\ DecisionMatchesFile
  BY NoneAssumption DEF Init, Quiet, OneReview, Reviewed, Written, DecisionMatchesFile
<1>3. OneImport /\ RowMatchesImport
  BY DEF Init, Quiet, OneImport, RowMatchesImport
<1>4. QED
  BY <1>1, <1>2, <1>3 DEF IInv

-----------------------------------------------------------------------------
\* A statement that takes a request on keeps the types of the requests.
LEMMA JobsTyped ==
  ASSUME job \in [Jobs -> JobStates], NEW j \in Jobs,
         NEW x \in JobStates, job' = [job EXCEPT ![j] = x]
  PROVE  job' \in [Jobs -> JobStates]
  OBVIOUS

LEMMA TypeStep ==
  ASSUME IInv, Next
  PROVE  TypeOK'
<1>0. TypeOK /\ \A j \in Jobs : job[j] \in JobStates /\ JobFacts(job[j])
  BY JobsHaveFacts DEF IInv
<1>1. CASE \E v \in Contents \cup {None} : EditFile(v)
  BY <1>0, <1>1 DEF TypeOK, EditFile, changes, history
<1>2. CASE \E j \in Jobs : BeginPropose(j)
  <2>1. PICK j \in Jobs : BeginPropose(j)
    BY <1>2
  <2>2. PICK x \in JobStates : job' = [job EXCEPT ![j] = x]
    BY <1>0, <2>1 DEF BeginPropose, Start, JobStates, TypeOK
  <2>3. QED
    BY <1>0, <2>1, <2>2, JobsTyped DEF TypeOK, BeginPropose, changes, history
<1>3. CASE \E j \in Jobs, c \in Changes, v \in Contents : CreateChange(j, c, v)
  <2>1. PICK j \in Jobs, c \in Changes, v \in Contents : CreateChange(j, c, v)
    BY <1>3
  <2>2. job[j].seen \in Contents \cup {Blank}
    BY <1>0, <2>1 DEF CreateChange, JobFacts
  <2>3. Quiet \in JobStates /\ job' = [job EXCEPT ![j] = Quiet]
    BY <2>1 DEF CreateChange, End, JobStates
  <2>4. QED
    BY <1>0, <2>1, <2>2, <2>3, JobsTyped, NoneAssumption DEF TypeOK, CreateChange, history, Decided
<1>4. CASE \E j \in Jobs, c \in Changes : BeginApprove(j, c) \/ BeginReject(j, c)
  <2>1. PICK j \in Jobs, c \in Changes : BeginApprove(j, c) \/ BeginReject(j, c)
    BY <1>4
  <2>2. PICK x \in JobStates : job' = [job EXCEPT ![j] = x]
    BY <2>1 DEF BeginApprove, BeginReject, BeginReview, Start, JobStates
  <2>3. disputed' \subseteq Changes
    BY <1>0, <2>1 DEF BeginApprove, BeginReject, BeginReview, Dispute, TypeOK
  <2>4. QED
    BY <1>0, <2>1, <2>2, <2>3, JobsTyped DEF TypeOK, BeginApprove, BeginReject, BeginReview, changes
<1>5. CASE \E j \in Jobs : WriteChange(j)
  <2>1. PICK j \in Jobs : WriteChange(j)
    BY <1>5
  <2>2. job[j].change \in Changes /\ job[j] \in JobStates /\ job[j].op = "approve" /\ job[j].pc = "write"
    BY <1>0, <2>1 DEF WriteChange, JobFacts
  <2>3. [job[j] EXCEPT !.pc = "record"] \in JobStates
    BY <2>2 DEF JobStates, Quiet
  <2>4. text[job[j].change] \in Contents \cup {None}
    BY <1>0, <2>2 DEF TypeOK
  <2>5. job' \in [Jobs -> JobStates]
    BY <1>0, <2>1, <2>3, JobsTyped DEF WriteChange, Goto, TypeOK
  <2>6. QED
    BY <1>0, <2>1, <2>2, <2>4, <2>5 DEF TypeOK, WriteChange, changes
<1>6. CASE \E j \in Jobs : Record(j)
  <2>1. PICK j \in Jobs : Record(j)
    BY <1>6
  <2>2. job[j].change \in Changes
    BY <1>0, <2>1 DEF Record, JobFacts
  <2>3. Quiet \in JobStates /\ job' = [job EXCEPT ![j] = Quiet]
    BY <2>1 DEF Record, End, JobStates
  <2>4. text[job[j].change] # None
    BY <1>0, <2>2, NoneAssumption DEF IInv, Reviewed, TypeOK
  <2>5. QED
    BY <1>0, <2>1, <2>2, <2>3, <2>4, JobsTyped DEF TypeOK, Record, Decided, history
<1>7. CASE \E j \in Jobs, v \in Contents : WriteImport(j, v)
  <2>1. PICK j \in Jobs, v \in Contents : WriteImport(j, v)
    BY <1>7
  <2>2. PICK x \in JobStates : job' = [job EXCEPT ![j] = x]
    BY <2>1 DEF WriteImport, Start, JobStates
  <2>3. QED
    BY <1>0, <2>1, <2>2, JobsTyped DEF TypeOK, WriteImport, changes
<1>8. CASE \E j \in Jobs : Lookup(j)
  <2>1. PICK j \in Jobs : Lookup(j)
    BY <1>8
  <2>2. job[j] \in [op : {"import"}, pc : {"lookup", "insert", "update"}, change : {None}, seen : Contents]
    BY <1>0, <2>1 DEF Lookup, JobStates, Quiet
  <2>3. \A pc \in {"insert", "update"} : [job[j] EXCEPT !.pc = pc] \in JobStates
    BY <2>2 DEF JobStates
  <2>4. PICK x \in JobStates : job' = [job EXCEPT ![j] = x]
    BY <2>1, <2>3 DEF Lookup, Goto, End, JobStates
  <2>5. QED
    BY <1>0, <2>1, <2>4, JobsTyped DEF TypeOK, Lookup, changes, history
<1>9. CASE \E j \in Jobs : InsertRow(j) \/ UpdateRow(j)
  <2>1. PICK j \in Jobs : InsertRow(j) \/ UpdateRow(j)
    BY <1>9
  <2>2. job[j].seen \in Contents
    BY <1>0, <2>1 DEF InsertRow, UpdateRow, JobFacts
  <2>3. Quiet \in JobStates /\ job' = [job EXCEPT ![j] = Quiet]
    BY <2>1 DEF InsertRow, UpdateRow, End, JobStates
  <2>4. QED
    BY <1>0, <2>1, <2>2, <2>3, JobsTyped DEF TypeOK, InsertRow, UpdateRow, changes, history
<1>10. CASE \E j \in Jobs : Fail(j)
  <2>1. PICK j \in Jobs : Fail(j)
    BY <1>10
  <2>2. Quiet \in JobStates /\ job' = [job EXCEPT ![j] = Quiet]
    BY <2>1 DEF Fail, End, JobStates
  <2>3. disputed' \subseteq Changes
    BY <1>0, <2>1 DEF Fail, TypeOK, JobFacts
  <2>4. mixed' \in BOOLEAN
    BY <2>1 DEF Fail
  <2>5. QED
    BY <1>0, <2>1, <2>2, <2>3, <2>4, JobsTyped DEF TypeOK, Fail, changes
<1>11. QED
  BY <1>1, <1>2, <1>3, <1>4, <1>5, <1>6, <1>7, <1>8, <1>9, <1>10 DEF Next, Review, Import

\* An import that looks for its row leaves everything but itself alone.
LEMMA LookupOutcome ==
  ASSUME IInv, NEW j \in Jobs, Lookup(j)
  PROVE  /\ UNCHANGED <<file, changes, row, history>>
         /\ job[j].op = "import" /\ job[j].change = None
         /\ \A i \in Jobs \ {j} : job'[i] = job[i]
         /\ \/ row = job[j].seen /\ job'[j] = Quiet
            \/ /\ row # job[j].seen
               /\ job'[j].op = "import" /\ job'[j].change = None
               /\ job'[j].seen = job[j].seen /\ (job'[j].pc = "insert" => row = None)
<1>1. PICK x \in JobStates : x = job[j] /\ JobFacts(x)
  BY JobsHaveFacts DEF IInv
<1>2. x.op = "import" /\ x.change = None /\ x.seen \in Contents
  BY <1>1 DEF Lookup, JobFacts
<1>3. \A i \in Jobs \ {j} : job'[i] = job[i]
  BY DEF Lookup, Goto, End, IInv, TypeOK
<1>4. CASE row = x.seen
  <2>1. row # None
    BY <1>2, <1>4, NoneAssumption
  <2>2. job'[j] = Quiet
    BY <1>1, <1>4, <2>1 DEF Lookup, End, IInv, TypeOK
  <2>3. QED
    BY <1>1, <1>2, <1>3, <1>4, <2>2 DEF Lookup
<1>5. CASE row # x.seen
  <2>1. PICK pc \in {"insert", "update"} : /\ job'[j] = [x EXCEPT !.pc = pc]
                                           /\ pc = "insert" => row = None
    BY <1>1, <1>5 DEF Lookup, Goto, IInv, TypeOK
  <2>2. /\ job'[j].op = x.op /\ job'[j].change = x.change /\ job'[j].seen = x.seen
        /\ job'[j].pc = pc
    BY <2>1 DEF JobStates, Quiet
  <2>3. QED
    BY <1>1, <1>2, <1>3, <1>5, <2>1, <2>2 DEF Lookup
<1>6. QED
  BY <1>4, <1>5

LEMMA ReviewStep ==
  ASSUME IInv, Next
  PROVE  OneReview' /\ Reviewed'
<1>0. TypeOK /\ (\A j \in Jobs : job[j] \in JobStates /\ JobFacts(job[j]))
  BY JobsHaveFacts DEF IInv
<1>1. CASE \E v \in Contents \cup {None} : EditFile(v)
  BY <1>1
  DEF IInv, OneReview, Reviewed, EditFile, changes, history
<1>2. CASE \E j \in Jobs : BeginPropose(j)
  BY <1>2
  DEF IInv, Quiet, OneReview, Reviewed, BeginPropose, Start, changes, history
<1>3. CASE \E j \in Jobs, c \in Changes, v \in Contents : CreateChange(j, c, v)
  BY <1>3, NoneAssumption
  DEF IInv, Quiet, OneReview, Reviewed, CreateChange, End, history
<1>4. CASE \E j \in Jobs, c \in Changes : BeginApprove(j, c)
  BY <1>4
  DEF IInv, OneReview, Reviewed, BeginApprove, BeginReview, Dispute, Start, changes
<1>5. CASE \E j \in Jobs, c \in Changes : BeginReject(j, c)
  BY <1>5
  DEF IInv, OneReview, Reviewed, BeginReject, BeginReview, Dispute, Start, changes
<1>6. CASE \E j \in Jobs : WriteChange(j)
  BY <1>0, <1>6, NoneAssumption
  DEF IInv, JobFacts, OneReview, Reviewed, WriteChange, Goto, changes
<1>7. CASE \E j \in Jobs : Record(j)
  BY <1>7, NoneAssumption
  DEF IInv, TypeOK, Quiet, OneReview, Reviewed, Record, End, history
<1>8. CASE \E j \in Jobs, v \in Contents : WriteImport(j, v)
  BY <1>8
  DEF IInv, Quiet, OneReview, Reviewed, WriteImport, Start, changes
<1>9. CASE \E j \in Jobs : Lookup(j)
  <2>1. PICK j \in Jobs : Lookup(j)
    BY <1>9
  <2>2. UNCHANGED <<status, applied, disputed>> /\ \A i \in Jobs : job'[i].change = job[i].change
    BY <2>1, LookupOutcome DEF Quiet, changes, history
  <2>3. QED
    BY <2>2 DEF IInv, OneReview, Reviewed
<1>10. CASE \E j \in Jobs : InsertRow(j)
  BY <1>10, NoneAssumption
  DEF IInv, Quiet, OneReview, Reviewed, InsertRow, End, changes, history
<1>11. CASE \E j \in Jobs : UpdateRow(j)
  BY <1>11, NoneAssumption
  DEF IInv, Quiet, OneReview, Reviewed, UpdateRow, End, changes, history
<1>12. CASE \E j \in Jobs : Fail(j)
  BY <1>12, NoneAssumption
  DEF IInv, Quiet, OneReview, Reviewed, Fail, End, changes
<1>13. QED
  BY <1>1, <1>2, <1>3, <1>4, <1>5, <1>6, <1>7, <1>8, <1>9, <1>10, <1>11, <1>12
  DEF Next, Review, Import

LEMMA WrittenStep ==
  ASSUME IInv, Next
  PROVE  Written' /\ DecisionMatchesFile'
<1>0. TypeOK /\ (\A j \in Jobs : job[j] \in JobStates /\ JobFacts(job[j]))
  BY JobsHaveFacts DEF IInv
<1>1. CASE \E v \in Contents \cup {None} : EditFile(v)
  BY <1>1
  DEF IInv, Written, DecisionMatchesFile, EditFile, changes, history
<1>2. CASE \E j \in Jobs : BeginPropose(j)
  BY <1>2
  DEF IInv, Quiet, Written, DecisionMatchesFile, BeginPropose, Start, changes, history
<1>3. CASE \E j \in Jobs, c \in Changes, v \in Contents : CreateChange(j, c, v)
  BY <1>3
  DEF IInv, Quiet, Written, DecisionMatchesFile, CreateChange, End, history
<1>4. CASE \E j \in Jobs, c \in Changes : BeginApprove(j, c)
  BY <1>4
  DEF IInv, Quiet, Written, DecisionMatchesFile, BeginApprove, BeginReview, Dispute, Start, changes
<1>5. CASE \E j \in Jobs, c \in Changes : BeginReject(j, c)
  BY <1>5
  DEF IInv, Quiet, Written, DecisionMatchesFile, BeginReject, BeginReview, Dispute, Start, changes
<1>6. CASE \E j \in Jobs : WriteChange(j)
  BY <1>6
  DEF IInv, TypeOK, OneReview, Written, DecisionMatchesFile, WriteChange, Goto, changes
<1>7. CASE \E j \in Jobs : Record(j)
  BY <1>7
  DEF IInv, TypeOK, Quiet, OneReview, Written, DecisionMatchesFile, Record, End, history
<1>8. CASE \E j \in Jobs, v \in Contents : WriteImport(j, v)
  BY <1>8
  DEF IInv, Quiet, Written, DecisionMatchesFile, WriteImport, Start, changes
<1>9. CASE \E j \in Jobs : Lookup(j)
  <2>1. PICK j \in Jobs : Lookup(j)
    BY <1>9
  <2>2. /\ UNCHANGED <<status, applied, disputed>>
        /\ \A i \in Jobs \ {j} : job'[i] = job[i]
        /\ job[j].op = "import" /\ job'[j].op # "approve"
    BY <2>1, LookupOutcome DEF Quiet, changes, history
  <2>3. QED
    BY <2>2 DEF IInv, Written, DecisionMatchesFile
<1>10. CASE \E j \in Jobs : InsertRow(j)
  BY <1>10
  DEF IInv, Quiet, Written, DecisionMatchesFile, InsertRow, End, changes, history
<1>11. CASE \E j \in Jobs : UpdateRow(j)
  BY <1>11
  DEF IInv, Quiet, Written, DecisionMatchesFile, UpdateRow, End, changes, history
<1>12. CASE \E j \in Jobs : Fail(j)
  BY <1>12, NoneAssumption
  DEF IInv, TypeOK, Quiet, Written, DecisionMatchesFile, Fail, End, changes
<1>13. QED
  BY <1>1, <1>2, <1>3, <1>4, <1>5, <1>6, <1>7, <1>8, <1>9, <1>10, <1>11, <1>12
  DEF Next, Review, Import

LEMMA ImportStep ==
  ASSUME IInv, Next
  PROVE  OneImport' /\ RowMatchesImport'
<1>0. TypeOK /\ (\A j \in Jobs : job[j] \in JobStates /\ JobFacts(job[j]))
  BY JobsHaveFacts DEF IInv
<1>1. CASE \E v \in Contents \cup {None} : EditFile(v)
  BY <1>1
  DEF IInv, OneImport, RowMatchesImport, EditFile, history
<1>2. CASE \E j \in Jobs : BeginPropose(j)
  BY <1>2
  DEF IInv, Quiet, OneImport, RowMatchesImport, BeginPropose, Start, history
<1>3. CASE \E j \in Jobs, c \in Changes, v \in Contents : CreateChange(j, c, v)
  BY <1>0, <1>3
  DEF IInv, JobFacts, Quiet, OneImport, RowMatchesImport, CreateChange, End, history
<1>4. CASE \E j \in Jobs, c \in Changes : BeginApprove(j, c)
  BY <1>4
  DEF IInv, Quiet, OneImport, RowMatchesImport, BeginApprove, BeginReview, Start
<1>5. CASE \E j \in Jobs, c \in Changes : BeginReject(j, c)
  BY <1>5
  DEF IInv, Quiet, OneImport, RowMatchesImport, BeginReject, BeginReview, Start
<1>6. CASE \E j \in Jobs : WriteChange(j)
  BY <1>6
  DEF IInv, OneImport, RowMatchesImport, WriteChange, Goto
<1>7. CASE \E j \in Jobs : Record(j)
  BY <1>0, <1>7
  DEF IInv, JobFacts, Quiet, OneImport, RowMatchesImport, Record, End, history
<1>8. CASE \E j \in Jobs, v \in Contents : WriteImport(j, v)
  <2>1. PICK j \in Jobs, v \in Contents : WriteImport(j, v)
    BY <1>8
  <2>2. /\ \A i \in Jobs \ {j} : job'[i] = job[i]
        /\ job'[j].op = "import" /\ job'[j].pc = "lookup" /\ job'[j].seen = v
        /\ imported' = v
    BY <1>0, <2>1 DEF WriteImport, Start, TypeOK
  <2>3. mixed' \/ \A k \in Jobs : job[k].op # "import"
    BY <2>1 DEF WriteImport
  <2>4. QED
    BY <2>2, <2>3 DEF OneImport, RowMatchesImport
<1>9. CASE \E j \in Jobs : Lookup(j)
  <2>1. PICK j \in Jobs : Lookup(j)
    BY <1>9
  <2>2. UNCHANGED <<row, imported, mixed>> /\ \A i \in Jobs \ {j} : job'[i] = job[i]
    BY <2>1, LookupOutcome DEF history
  <2>3. CASE row = job[j].seen /\ job'[j] = Quiet
    BY <2>1, <2>2, <2>3, LookupOutcome DEF IInv, OneImport, RowMatchesImport, Quiet
  <2>4. CASE row # job[j].seen
    <3>1. /\ job[j].op = "import" /\ job'[j].op = "import" /\ job'[j].seen = job[j].seen
          /\ job'[j].pc = "insert" => row = None
      BY <2>1, <2>4, LookupOutcome
    <3>2. QED
      BY <2>2, <3>1 DEF IInv, OneImport, RowMatchesImport
  <2>5. QED
    BY <2>1, <2>3, <2>4, LookupOutcome
<1>10. CASE \E j \in Jobs : InsertRow(j)
  BY <1>0, <1>10
  DEF IInv, TypeOK, JobFacts, Quiet, OneImport, RowMatchesImport, InsertRow, End, history
<1>11. CASE \E j \in Jobs : UpdateRow(j)
  BY <1>0, <1>11
  DEF IInv, JobFacts, Quiet, OneImport, RowMatchesImport, UpdateRow, End, history
<1>12. CASE \E j \in Jobs : Fail(j)
  <2>1. PICK j \in Jobs : Fail(j)
    BY <1>12
  <2>2. /\ UNCHANGED <<row, imported>> /\ (mixed => mixed') /\ (job[j].op = "import" => mixed')
        /\ \A i \in Jobs \ {j} : job'[i] = job[i]
        /\ job'[j].op = "none"
    BY <1>0, <2>1 DEF Fail, End, Quiet, TypeOK
  <2>3. QED
    BY <2>2 DEF IInv, OneImport, RowMatchesImport
<1>13. QED
  BY <1>1, <1>2, <1>3, <1>4, <1>5, <1>6, <1>7, <1>8, <1>9, <1>10, <1>11, <1>12
  DEF Next, Review, Import

-----------------------------------------------------------------------------
LEMMA IInvStep == IInv /\ [Next]_vars => IInv'
<1> SUFFICES ASSUME IInv, [Next]_vars
             PROVE  IInv'
  OBVIOUS
<1>1. CASE Next
  BY <1>1, TypeStep, ReviewStep, WrittenStep, ImportStep DEF IInv
<1>2. CASE UNCHANGED vars
  BY <1>2
  DEF IInv, TypeOK, OneReview, Reviewed, Written, OneImport, DecisionMatchesFile,
    RowMatchesImport, vars, changes, history
<1>3. QED
  BY <1>1, <1>2

LEMMA InvariantHolds == Spec => []IInv
  BY InitIInv, IInvStep, PTL DEF Spec

-----------------------------------------------------------------------------
\* The variables keep their types, for any contents, changes and requests.
THEOREM FilesTypeCorrect == Spec => []TypeOK
<1>1. IInv => TypeOK
  BY DEF IInv
<1>2. QED
  BY <1>1, InvariantHolds, PTL

\* An approved change was written to the file and a rejected one was not, unless an
\* approval of it overlapped another review or broke off.
THEOREM DecisionsMatchTheFile == Spec => []DecisionMatchesFile
<1>1. IInv => DecisionMatchesFile
  BY DEF IInv
<1>2. QED
  BY <1>1, InvariantHolds, PTL

\* Once decided, a change stays decided as it is, unless two reviews of it were in
\* flight at once.
THEOREM DecisionsAreFinal == Spec => DecisionIsFinal
<1>1. IInv /\ [Next]_vars =>
        [\A c \in Changes \ disputed : status[c] \in Decided => status'[c] = status[c]]_vars
  <2> SUFFICES ASSUME IInv, Next, NEW c \in Changes \ disputed, status[c] \in Decided
               PROVE  status'[c] = status[c]
    OBVIOUS
  <2>1. CASE \E j \in Jobs : Record(j)
    <3>1. PICK j \in Jobs : Record(j)
      BY <2>1
    <3>2. job[j].change \in Changes
      BY <3>1, JobsHaveFacts DEF IInv, Record, JobFacts
    <3>3. job[j].change # c
      BY <3>2 DEF IInv, OneReview, Decided
    <3>4. QED
      BY <3>1, <3>3 DEF Record, IInv, TypeOK
  <2>2. CASE \E j \in Jobs, d \in Changes, v \in Contents : CreateChange(j, d, v)
    BY <2>2 DEF CreateChange, IInv, TypeOK, Decided
  <2>3. CASE UNCHANGED status
    BY <2>3
  <2>4. QED
    BY <2>1, <2>2, <2>3
    DEF Next, Review, Import, EditFile, BeginPropose, BeginApprove, BeginReject, BeginReview,
      WriteChange, WriteImport, Lookup, InsertRow, UpdateRow, Fail, changes
<1>2. QED
  BY <1>1, InvariantHolds, PTL DEF Spec, DecisionIsFinal

\* Between imports the row has the hash of what was imported last, unless two imports
\* overlapped or one broke off.
THEOREM RowsMatchImports == Spec => []RowMatchesImport
<1>1. IInv => RowMatchesImport
  BY DEF IInv
<1>2. QED
  BY <1>1, InvariantHolds, PTL

-----------------------------------------------------------------------------
(* Induction over the natural numbers, from the well-foundedness of < *)

LEMMA LeastNat ==
  ASSUME NEW T \in SUBSET Nat, T # {}
  PROVE  \E x \in T : \A y \in T : x <= y
<1>1. PICK x \in T : \A y \in T : ~(<<y, x>> \in OpToRel(<, Nat))
  BY NatLessThanWellFounded, WFMin
<1>2. \A y \in T : <<y,x>> \in OpToRel(<, Nat) <=> y < x
  BY Zenon DEF OpToRel
<1>3. \A y \in T : ~(y < x)
  BY <1>1, <1>2, Zenon
<1>4. QED BY <1>3

LEMMA Induction ==
  ASSUME NEW P \in SUBSET Nat, 0 \in P, \A n \in P : n + 1 \in P
  PROVE  P = Nat
<1> SUFFICES ASSUME Nat \ P # {} PROVE FALSE
  OBVIOUS
<1>1. PICK x \in Nat \ P : \A y \in Nat \ P : x <= y
  BY LeastNat
<1>2. x - 1 \in P /\ x # 0
  BY <1>1
<1>3. QED BY <1>1, <1>2

-----------------------------------------------------------------------------
(* The two sides of a diff, unfolded line by line *)

\* What the diff is made of.  The empty line is named, for the provers do not know
\* that a literal is in STRING.
Texts == STRING \cup {""}
Lines == [mark : {" ", "-", "+"}, text : Texts]

\* One step of Side, and its values up to the n-th line.
KeepLine(d, marks, i, s) == IF d[i].mark \in marks THEN Append(s, d[i].text) ELSE s

IsKept(f, d, marks, n) ==
  f = [i \in 0 .. n |-> IF i = 0 THEN <<>> ELSE KeepLine(d, marks, i, f[i - 1])]

LEMMA KeptExists ==
  ASSUME NEW d, NEW marks
  PROVE  \A n \in Nat : \E f : IsKept(f, d, marks, n)
<1> DEFINE P == {n \in Nat : \E f : IsKept(f, d, marks, n)}
<1>1. 0 \in P
  <2>1. IsKept([i \in 0 .. 0 |-> <<>>], d, marks, 0)
    BY DEF IsKept
  <2>2. QED
    BY <2>1
<1>2. ASSUME NEW n \in P
      PROVE  n + 1 \in P
  <2>1. PICK f : IsKept(f, d, marks, n)
    OBVIOUS
  <2> DEFINE g == [i \in 0 .. n + 1 |-> IF i = n + 1 THEN KeepLine(d, marks, n + 1, f[n]) ELSE f[i]]
  <2>2. \A i \in 0 .. n : g[i] = f[i]
    OBVIOUS
  <2>3. ASSUME NEW i \in 0 .. n + 1
        PROVE  g[i] = IF i = 0 THEN <<>> ELSE KeepLine(d, marks, i, g[i - 1])
    <3>1. CASE i = n + 1
      BY <2>2, <3>1
    <3>2. CASE i \in 0 .. n
      <4>1. i = 0 \/ i - 1 \in 0 .. n
        BY <3>2
      <4>2. QED
        BY <2>1, <2>2, <3>2, <4>1 DEF IsKept
    <3>3. QED
      BY <3>1, <3>2
  <2>4. IsKept(g, d, marks, n + 1)
    BY <2>3 DEF IsKept
  <2>5. QED
    BY <2>4
<1>3. P = Nat
  BY <1>1, <1>2, Induction
<1>4. QED
  BY <1>3

LEMMA SideUnfolds ==
  ASSUME NEW d, NEW marks, Len(d) \in Nat
  PROVE  \E f : IsKept(f, d, marks, Len(d)) /\ Side(d, marks) = f[Len(d)]
<1> DEFINE f == CHOOSE f : IsKept(f, d, marks, Len(d))
<1>1. IsKept(f, d, marks, Len(d))
  BY KeptExists
<1>2. Side(d, marks) = f[Len(d)]
  BY DEF Side, IsKept, KeepLine
<1>3. QED
  BY <1>1, <1>2

IsKeptAt(f, d, marks, n) ==
  f[0] = <<>> /\ \A i \in 1 .. n : f[i] = KeepLine(d, marks, i, f[i - 1])

LEMMA KeptAt ==
  ASSUME NEW f, NEW d, NEW marks, NEW n \in Nat, IsKept(f, d, marks, n)
  PROVE  IsKeptAt(f, d, marks, n)
<1>1. f[0] = <<>>
  BY DEF IsKept
<1>2. ASSUME NEW i \in 1 .. n
      PROVE  f[i] = KeepLine(d, marks, i, f[i - 1])
  BY DEF IsKept
<1>3. QED
  BY <1>1, <1>2 DEF IsKeptAt

LEMMA SideAppend ==
  ASSUME NEW d \in Seq(Lines), NEW l \in Lines, NEW marks
  PROVE  Side(Append(d, l), marks) =
           IF l.mark \in marks THEN Append(Side(d, marks), l.text) ELSE Side(d, marks)
<1> DEFINE n == Len(d)
           e == Append(d, l)
<1>1. n \in Nat /\ Len(e) = n + 1 /\ e[n + 1] = l /\ \A i \in 1 .. n : e[i] = d[i]
  OBVIOUS
<1> HIDE DEF e
<1>2. PICK f : IsKept(f, d, marks, n) /\ Side(d, marks) = f[n]
  BY <1>1, SideUnfolds
<1>3. PICK g : IsKept(g, e, marks, n + 1) /\ Side(e, marks) = g[n + 1]
  BY <1>1, SideUnfolds
<1>4. IsKeptAt(f, d, marks, n) /\ IsKeptAt(g, e, marks, n + 1)
  BY <1>1, <1>2, <1>3, KeptAt
<1>5. \A i \in Nat : i <= n => f[i] = g[i]
  <2> DEFINE P == {i \in Nat : i <= n => f[i] = g[i]}
  <2>1. 0 \in P
    BY <1>4 DEF IsKeptAt
  <2>2. ASSUME NEW i \in P
        PROVE  i + 1 \in P
    <3>1. CASE i + 1 <= n
      <4>1. f[i] = g[i] /\ i + 1 \in 1 .. n /\ i + 1 \in 1 .. n + 1 /\ (i + 1) - 1 = i
        BY <1>1, <3>1
      <4>2. e[i + 1] = d[i + 1]
        BY <1>1, <4>1
      <4>3. QED
        BY <1>4, <4>1, <4>2 DEF IsKeptAt, KeepLine
    <3>2. CASE ~(i + 1 <= n)
      BY <3>2
    <3>3. QED
      BY <3>1, <3>2
  <2>3. P = Nat
    BY <2>1, <2>2, Induction
  <2>4. QED
    BY <2>3
<1>6. g[n + 1] = KeepLine(e, marks, n + 1, f[n])
  <2>1. n + 1 \in 1 .. n + 1 /\ (n + 1) - 1 = n /\ f[n] = g[n]
    BY <1>1, <1>5
  <2>2. QED
    BY <1>4, <2>1 DEF IsKeptAt
<1>7. QED
  BY <1>1, <1>2, <1>3, <1>6 DEF KeepLine, e

LEMMA SideEmpty == \A marks : Side(<<>>, marks) = <<>>
<1>1. SUFFICES ASSUME NEW marks
               PROVE  Side(<<>>, marks) = <<>>
  OBVIOUS
<1>2. PICK f : IsKept(f, <<>>, marks, 0) /\ Side(<<>>, marks) = f[0]
  BY SideUnfolds
<1>3. QED
  BY <1>2 DEF IsKept

-----------------------------------------------------------------------------
(* The hunks of a diff, unfolded in the same way *)

AddHunk(o, p, i, s) == s \o Hunk(o, p, i)

IsUpTo(f, o, p, n) ==
  f = [i \in 0 .. n |-> IF i = 0 THEN <<>> ELSE AddHunk(o, p, i, f[i - 1])]

LEMMA UpToExists ==
  ASSUME NEW o, NEW p
  PROVE  \A n \in Nat : \E f : IsUpTo(f, o, p, n)
<1> DEFINE P == {n \in Nat : \E f : IsUpTo(f, o, p, n)}
<1>1. 0 \in P
  <2>1. IsUpTo([i \in 0 .. 0 |-> <<>>], o, p, 0)
    BY DEF IsUpTo
  <2>2. QED
    BY <2>1
<1>2. ASSUME NEW n \in P
      PROVE  n + 1 \in P
  <2>1. PICK f : IsUpTo(f, o, p, n)
    OBVIOUS
  <2> DEFINE g == [i \in 0 .. n + 1 |-> IF i = n + 1 THEN AddHunk(o, p, n + 1, f[n]) ELSE f[i]]
  <2>2. \A i \in 0 .. n : g[i] = f[i]
    OBVIOUS
  <2>3. ASSUME NEW i \in 0 .. n + 1
        PROVE  g[i] = IF i = 0 THEN <<>> ELSE AddHunk(o, p, i, g[i - 1])
    <3>1. CASE i = n + 1
      BY <2>2, <3>1
    <3>2. CASE i \in 0 .. n
      <4>1. i = 0 \/ i - 1 \in 0 .. n
        BY <3>2
      <4>2. QED
        BY <2>1, <2>2, <3>2, <4>1 DEF IsUpTo
    <3>3. QED
      BY <3>1, <3>2
  <2>4. IsUpTo(g, o, p, n + 1)
    BY <2>3 DEF IsUpTo
  <2>5. QED
    BY <2>4
<1>3. P = Nat
  BY <1>1, <1>2, Induction
<1>4. QED
  BY <1>3

LEMMA HunksUnfold ==
  ASSUME NEW o, NEW p, NEW n \in Nat
  PROVE  \E f : /\ Hunks(o, p, n) = f[n] /\ f[0] = <<>>
                /\ \A i \in 1 .. n : f[i] = AddHunk(o, p, i, f[i - 1])
<1> DEFINE f == CHOOSE f : IsUpTo(f, o, p, n)
<1>1. IsUpTo(f, o, p, n)
  BY UpToExists
<1>2. Hunks(o, p, n) = f[n]
  BY DEF Hunks, IsUpTo, AddHunk
<1> HIDE DEF f
<1>3. f[0] = <<>>
  BY <1>1 DEF IsUpTo
<1>4. ASSUME NEW i \in 1 .. n
      PROVE  f[i] = AddHunk(o, p, i, f[i - 1])
  BY <1>1 DEF IsUpTo
<1>5. QED
  BY <1>2, <1>3, <1>4

-----------------------------------------------------------------------------
(* Every hunk adds the next line of either side to that side, so that the diff up to *)
(* the n-th line has the first n lines of both                                       *)

\* The first n elements, or all.
Take(s, n) == [i \in 1 .. IF n <= Len(s) THEN n ELSE Len(s) |-> s[i]]

LEMMA TakeNext ==
  ASSUME NEW s \in Seq(Texts), NEW n \in Nat
  PROVE  /\ Take(s, n) \in Seq(Texts)
         /\ n + 1 <= Len(s) => Take(s, n + 1) = Append(Take(s, n), s[n + 1])
         /\ ~(n + 1 <= Len(s)) => Take(s, n + 1) = Take(s, n)
         /\ Take(s, 0) = <<>>
         /\ n >= Len(s) => Take(s, n) = s
<1>1. Take(s, n) \in Seq(Texts)
  BY DEF Take
<1>2. ASSUME n + 1 <= Len(s)
      PROVE  Take(s, n + 1) = Append(Take(s, n), s[n + 1])
  BY <1>2 DEF Take
<1>3. ASSUME ~(n + 1 <= Len(s))
      PROVE  Take(s, n + 1) = Take(s, n)
  BY <1>3 DEF Take
<1>4. Take(s, 0) = <<>>
  BY DEF Take
<1>5. ASSUME n >= Len(s)
      PROVE  Take(s, n) = s
  BY <1>5 DEF Take
<1>6. QED
  BY <1>1, <1>2, <1>3, <1>4, <1>5

LEMMA Concatenations ==
  ASSUME NEW d \in Seq(Lines), NEW l \in Lines, NEW m \in Lines
  PROVE  /\ d \o << l >> = Append(d, l)
         /\ d \o (<< l >> \o <<>>) = Append(d, l)
         /\ d \o (<<>> \o << m >>) = Append(d, m)
         /\ d \o (<< l >> \o << m >>) = Append(Append(d, l), m)
<1>1. \A s, r \in Seq(Lines) : /\ s \o <<>> = s /\ <<>> \o s = s
                                 /\ s \o r \in Seq(Lines)
  OBVIOUS
<1>2. << l >> \in Seq(Lines) /\ << m >> \in Seq(Lines) /\ <<>> \in Seq(Lines)
  OBVIOUS
<1>3. \A s \in Seq(Lines), k \in Lines : s \o << k >> = Append(s, k)
  OBVIOUS
<1>4. d \o (<< l >> \o << m >>) = Append(Append(d, l), m)
  <2>1. Append(<< l >>, m) = << l >> \o << m >>
    BY <1>2, <1>3
  <2>2. d \o (<< l >> \o << m >>) = (d \o << l >>) \o << m >>
    BY <1>2
  <2>3. d \o << l >> \in Seq(Lines)
    BY <1>1, <1>2
  <2>4. QED
    BY <1>3, <2>2, <2>3
<1>5. QED
  BY <1>1, <1>2, <1>3, <1>4

LEMMA ALine ==
  ASSUME NEW m \in {" ", "-", "+"}, NEW s \in Texts
  PROVE  [mark |-> m, text |-> s] \in Lines
BY Zenon DEF Lines

LEMMA AnElement ==
  ASSUME NEW S, NEW s \in Seq(S), NEW i \in Nat \ {0}, i <= Len(s)
  PROVE  s[i] \in S
<1>1. i \in 1 .. Len(s)
  OBVIOUS
<1>2. QED
  BY <1>1

Original == {" ", "-"}
Proposed == {" ", "+"}

LEMMA SidesAppend ==
  ASSUME NEW d \in Seq(Lines), NEW l \in Lines
  PROVE  /\ Append(d, l) \in Seq(Lines)
         /\ l.mark \in Original => Side(Append(d, l), Original) = Append(Side(d, Original), l.text)
         /\ l.mark \notin Original => Side(Append(d, l), Original) = Side(d, Original)
         /\ l.mark \in Proposed => Side(Append(d, l), Proposed) = Append(Side(d, Proposed), l.text)
         /\ l.mark \notin Proposed => Side(Append(d, l), Proposed) = Side(d, Proposed)
<1>1. Append(d, l) \in Seq(Lines)
  OBVIOUS
<1>2. Side(Append(d, l), Original) =
        IF l.mark \in Original THEN Append(Side(d, Original), l.text) ELSE Side(d, Original)
  BY SideAppend, Zenon
<1>3. Side(Append(d, l), Proposed) =
        IF l.mark \in Proposed THEN Append(Side(d, Proposed), l.text) ELSE Side(d, Proposed)
  BY SideAppend, Zenon
<1>4. QED
  BY <1>1, <1>2, <1>3, Zenon

LEMMA HunkSides ==
  ASSUME NEW o \in Seq(Texts), NEW p \in Seq(Texts), NEW i \in Nat \ {0}, NEW d \in Seq(Lines)
  PROVE  /\ AddHunk(o, p, i, d) \in Seq(Lines)
         /\ Side(AddHunk(o, p, i, d), Original) =
              IF i <= Len(o) THEN Append(Side(d, Original), o[i]) ELSE Side(d, Original)
         /\ Side(AddHunk(o, p, i, d), Proposed) =
              IF i <= Len(p) THEN Append(Side(d, Proposed), p[i]) ELSE Side(d, Proposed)
<1> DEFINE same == [mark |-> " ", text |-> o[i]]
           gone == [mark |-> "-", text |-> o[i]]
           come == [mark |-> "+", text |-> p[i]]
<1>1. i <= Len(o) => o[i] \in Texts /\ same \in Lines /\ gone \in Lines
  <2>1. SUFFICES ASSUME i <= Len(o)
                 PROVE  o[i] \in Texts /\ same \in Lines /\ gone \in Lines
    OBVIOUS
  <2>2. o[i] \in Texts
    BY <2>1, AnElement, Zenon
  <2>3. QED
    BY <2>2, ALine, Zenon
<1>2. i <= Len(p) => p[i] \in Texts /\ come \in Lines
  <2>1. SUFFICES ASSUME i <= Len(p)
                 PROVE  p[i] \in Texts /\ come \in Lines
    OBVIOUS
  <2>2. p[i] \in Texts
    BY <2>1, AnElement, Zenon
  <2>3. QED
    BY <2>2, ALine, Zenon
<1>3. /\ same.mark = " " /\ same.text = o[i] /\ gone.mark = "-" /\ gone.text = o[i]
      /\ come.mark = "+" /\ come.text = p[i]
  OBVIOUS
<1>a. /\ " " \in Original /\ "-" \in Original /\ "+" \notin Original
      /\ " " \in Proposed /\ "-" \notin Proposed /\ "+" \in Proposed
  BY DEF Original, Proposed
<1>5. CASE i <= Len(o) /\ i <= Len(p) /\ o[i] = p[i]
  <2>1. Hunk(o, p, i) = << same >>
    BY <1>5 DEF Hunk, Line
  <2> HIDE DEF same, gone, come
  <2>2. same \in Lines
    BY <1>1, <1>2, <1>5
  <2>3. AddHunk(o, p, i, d) = Append(d, same)
    BY <2>1, <2>2, Concatenations, Zenon DEF AddHunk
  <2>4. AddHunk(o, p, i, d) \in Seq(Lines)
    BY <2>2, <2>3, SidesAppend, Zenon
  <2>5. /\ Side(AddHunk(o, p, i, d), Original) = Append(Side(d, Original), o[i])
        /\ Side(AddHunk(o, p, i, d), Proposed) = Append(Side(d, Proposed), p[i])
    <3>1. Side(AddHunk(o, p, i, d), Original) = Append(Side(d, Original), o[i])
      BY <1>3, <1>a, <2>2, <2>3, SidesAppend, Zenon
    <3>2. Side(AddHunk(o, p, i, d), Proposed) = Append(Side(d, Proposed), o[i])
      BY <1>3, <1>a, <2>2, <2>3, SidesAppend, Zenon
    <3>3. QED
      BY <1>5, <3>1, <3>2, Zenon
  <2>6. QED
    BY <1>5, <2>4, <2>5
<1>6. CASE i <= Len(o) /\ i <= Len(p) /\ o[i] # p[i]
  <2>1. Hunk(o, p, i) = << gone >> \o << come >>
    BY <1>6 DEF Hunk, Line
  <2> HIDE DEF same, gone, come
  <2>2. gone \in Lines /\ come \in Lines
    BY <1>1, <1>2, <1>6
  <2>3. AddHunk(o, p, i, d) = Append(Append(d, gone), come)
    <3>1. d \o (<< gone >> \o << come >>) = Append(Append(d, gone), come)
      BY <2>2, Concatenations, Zenon
    <3>2. QED
      BY <2>1, <3>1, Zenon DEF AddHunk
  <2>4. Append(d, gone) \in Seq(Lines) /\ AddHunk(o, p, i, d) \in Seq(Lines)
    BY <2>2, <2>3, SidesAppend, Zenon
  <2>5. /\ Side(AddHunk(o, p, i, d), Original) = Append(Side(d, Original), o[i])
        /\ Side(AddHunk(o, p, i, d), Proposed) = Append(Side(d, Proposed), p[i])
    <3>1. /\ Side(AddHunk(o, p, i, d), Original) = Side(Append(d, gone), Original)
          /\ Side(AddHunk(o, p, i, d), Proposed) = Append(Side(Append(d, gone), Proposed), p[i])
      <4>1. PICK s \in Seq(Lines) : s = Append(d, gone)
        BY <2>4
      <4>2. /\ Side(Append(s, come), Original) = Side(s, Original)
            /\ Side(Append(s, come), Proposed) = Append(Side(s, Proposed), p[i])
        BY <1>3, <1>a, <2>2, SidesAppend, Zenon
      <4>3. QED
        BY <2>3, <4>1, <4>2, Zenon
    <3>2. /\ Side(Append(d, gone), Original) = Append(Side(d, Original), o[i])
          /\ Side(Append(d, gone), Proposed) = Side(d, Proposed)
      BY <1>3, <1>a, <2>2, SidesAppend, Zenon
    <3>3. QED
      BY <3>1, <3>2, Zenon
  <2>6. QED
    BY <1>6, <2>4, <2>5
<1>7. CASE i <= Len(o) /\ ~(i <= Len(p))
  <2>1. Hunk(o, p, i) = << gone >> \o <<>>
    BY <1>7 DEF Hunk, Line
  <2> HIDE DEF same, gone, come
  <2>2. gone \in Lines
    BY <1>1, <1>2, <1>7
  <2>3. AddHunk(o, p, i, d) = Append(d, gone)
    BY <2>1, <2>2, Concatenations, Zenon DEF AddHunk
  <2>4. AddHunk(o, p, i, d) \in Seq(Lines)
    BY <2>2, <2>3, SidesAppend, Zenon
  <2>5. /\ Side(AddHunk(o, p, i, d), Original) = Append(Side(d, Original), o[i])
        /\ Side(AddHunk(o, p, i, d), Proposed) = Side(d, Proposed)
    BY <1>3, <1>a, <2>2, <2>3, SidesAppend, Zenon
  <2>6. QED
    BY <1>7, <2>4, <2>5
<1>8. CASE ~(i <= Len(o)) /\ i <= Len(p)
  <2>1. Hunk(o, p, i) = <<>> \o << come >>
    BY <1>8 DEF Hunk, Line
  <2> HIDE DEF same, gone, come
  <2>2. come \in Lines
    BY <1>1, <1>2, <1>8
  <2>3. AddHunk(o, p, i, d) = Append(d, come)
    BY <2>1, <2>2, Concatenations, Zenon DEF AddHunk
  <2>4. AddHunk(o, p, i, d) \in Seq(Lines)
    BY <2>2, <2>3, SidesAppend, Zenon
  <2>5. /\ Side(AddHunk(o, p, i, d), Original) = Side(d, Original)
        /\ Side(AddHunk(o, p, i, d), Proposed) = Append(Side(d, Proposed), p[i])
    BY <1>3, <1>a, <2>2, <2>3, SidesAppend, Zenon
  <2>6. QED
    BY <1>8, <2>4, <2>5
<1>9. CASE ~(i <= Len(o)) /\ ~(i <= Len(p))
  <2>1. Hunk(o, p, i) = <<>> \o <<>>
    BY <1>9 DEF Hunk, Line
  <2>2. AddHunk(o, p, i, d) = d
    BY <2>1 DEF AddHunk
  <2>3. QED
    BY <1>9, <2>2
<1>10. QED
  BY <1>5, <1>6, <1>7, <1>8, <1>9

LEMMA HunksSides ==
  ASSUME NEW o \in Seq(Texts), NEW p \in Seq(Texts), NEW n \in Nat
  PROVE  /\ Side(Hunks(o, p, n), Original) = Take(o, n)
         /\ Side(Hunks(o, p, n), Proposed) = Take(p, n)
<1>1. PICK f : /\ Hunks(o, p, n) = f[n] /\ f[0] = <<>>
               /\ \A i \in 1 .. n : f[i] = AddHunk(o, p, i, f[i - 1])
  BY HunksUnfold
<1> DEFINE Good(i) == /\ f[i] \in Seq(Lines)
                      /\ Side(f[i], Original) = Take(o, i)
                      /\ Side(f[i], Proposed) = Take(p, i)
           P == {i \in Nat : i <= n => Good(i)}
<1>2. 0 \in P
  <2>1. f[0] = <<>> /\ <<>> \in Seq(Lines)
    BY <1>1
  <2>2. Take(o, 0) = <<>> /\ Take(p, 0) = <<>>
    BY TakeNext
  <2>3. Side(f[0], Original) = <<>> /\ Side(f[0], Proposed) = <<>>
    BY <2>1, SideEmpty, Zenon
  <2>4. Good(0)
    BY <2>1, <2>2, <2>3, Zenon
  <2>5. QED
    BY <2>4
<1>3. ASSUME NEW i \in P
      PROVE  i + 1 \in P
  <2>1. SUFFICES ASSUME i + 1 <= n
                 PROVE  Good(i + 1)
    OBVIOUS
  <2>2. i \in Nat /\ i + 1 \in 1 .. n /\ (i + 1) - 1 = i /\ i + 1 \in Nat \ {0} /\ Good(i)
    BY <2>1
  <2>3. f[i + 1] = AddHunk(o, p, i + 1, f[i])
    BY <1>1, <2>2
  <2>4. /\ f[i + 1] \in Seq(Lines)
        /\ Side(f[i + 1], Original) =
             IF i + 1 <= Len(o) THEN Append(Take(o, i), o[i + 1]) ELSE Take(o, i)
        /\ Side(f[i + 1], Proposed) =
             IF i + 1 <= Len(p) THEN Append(Take(p, i), p[i + 1]) ELSE Take(p, i)
    <3>1. f[i] \in Seq(Lines) /\ i + 1 \in Nat \ {0}
      BY <2>2
    <3>2. /\ f[i + 1] \in Seq(Lines)
          /\ Side(f[i + 1], Original) =
               IF i + 1 <= Len(o) THEN Append(Side(f[i], Original), o[i + 1]) ELSE Side(f[i], Original)
          /\ Side(f[i + 1], Proposed) =
               IF i + 1 <= Len(p) THEN Append(Side(f[i], Proposed), p[i + 1]) ELSE Side(f[i], Proposed)
      <4>1. PICK k \in Nat \ {0}, s \in Seq(Lines) : k = i + 1 /\ s = f[i]
        BY <3>1
      <4>2. /\ AddHunk(o, p, k, s) \in Seq(Lines)
            /\ Side(AddHunk(o, p, k, s), Original) =
                 IF k <= Len(o) THEN Append(Side(s, Original), o[k]) ELSE Side(s, Original)
            /\ Side(AddHunk(o, p, k, s), Proposed) =
                 IF k <= Len(p) THEN Append(Side(s, Proposed), p[k]) ELSE Side(s, Proposed)
        BY HunkSides
      <4>3. QED
        BY <2>3, <4>1, <4>2, Zenon
    <3>3. Side(f[i], Original) = Take(o, i) /\ Side(f[i], Proposed) = Take(p, i)
      BY <2>2
    <3>4. QED
      BY <3>2, <3>3, Zenon
  <2>5. /\ Take(o, i + 1) = IF i + 1 <= Len(o) THEN Append(Take(o, i), o[i + 1]) ELSE Take(o, i)
        /\ Take(p, i + 1) = IF i + 1 <= Len(p) THEN Append(Take(p, i), p[i + 1]) ELSE Take(p, i)
    BY <2>2, TakeNext
  <2>6. QED
    BY <2>4, <2>5, Zenon
<1>4. P = Nat
  BY <1>2, <1>3, Induction
<1>5. n \in P
  BY <1>4
<1>6. QED
  BY <1>1, <1>5

LEMMA LineDiffSides ==
  ASSUME NEW o \in Seq(Texts), NEW p \in Seq(Texts)
  PROVE  /\ Side(LineDiff(o, p), {" ", "-"}) = o
         /\ Side(LineDiff(o, p), {" ", "+"}) = p
<1>1. PICK n \in Nat : n = IF Len(o) > Len(p) THEN Len(o) ELSE Len(p)
  OBVIOUS
<1>2. LineDiff(o, p) = Hunks(o, p, n) /\ n >= Len(o) /\ n >= Len(p)
  BY <1>1 DEF LineDiff
<1>3. Take(o, n) = o /\ Take(p, n) = p
  BY <1>2, TakeNext
<1>4. Side(LineDiff(o, p), Original) = o /\ Side(LineDiff(o, p), Proposed) = p
  <2>1. Side(Hunks(o, p, n), Original) = Take(o, n) /\ Side(Hunks(o, p, n), Proposed) = Take(p, n)
    BY HunksSides
  <2>2. QED
    BY <1>2, <1>3, <2>1, Zenon
<1>5. QED
  BY <1>4, Zenon DEF Original, Proposed

-----------------------------------------------------------------------------
(* What the reviewer is shown *)

LEMMA ContentsAreTexts ==
  /\ Contents \subseteq Seq(Texts)
  /\ Blank \in Seq(Texts)
<1>1. ASSUME NEW s \in Contents
      PROVE  s \in Seq(Texts)
  <2>1. s \in Seq(STRING)
    BY ContentsAssumption
  <2>2. Len(s) \in Nat /\ s \in [1 .. Len(s) -> STRING]
    BY <2>1
  <2>3. s \in [1 .. Len(s) -> Texts]
    BY <2>2 DEF Texts
  <2>4. QED
    BY <2>2, <2>3
<1>2. "" \in Texts
  BY DEF Texts
<1>3. \A x \in Texts : << x >> \in Seq(Texts)
  OBVIOUS
<1>4. QED
  BY <1>1, <1>2, <1>3, Zenon DEF Blank

\* Every change has its diff.
HaveDiffs == diff = [c \in Changes |-> diff[c]]

LEMMA DiffStep ==
  ASSUME IInv, HaveDiffs, DiffShowsChange, [Next]_vars
  PROVE  HaveDiffs' /\ DiffShowsChange'
<1>0. TypeOK /\ Reviewed /\ (\A j \in Jobs : job[j] \in JobStates /\ JobFacts(job[j]))
  BY JobsHaveFacts DEF IInv
<1>1. CASE \E j \in Jobs, c \in Changes, v \in Contents : CreateChange(j, c, v)
  <2>1. PICK j \in Jobs, c \in Changes, v \in Contents : CreateChange(j, c, v)
    BY <1>1
  <2>2. job[j].seen \in Seq(Texts) /\ v \in Seq(Texts)
    <3>1. job[j].seen \in Contents \cup {Blank}
      BY <1>0, <2>1 DEF CreateChange, JobFacts
    <3>2. QED
      BY <3>1, ContentsAreTexts
  <2>3. PICK o \in Seq(Texts), p \in Seq(Texts) : o = job[j].seen /\ p = v
    BY <2>2
  <2>4. PICK l : l = LineDiff(o, p)
    OBVIOUS
  <2>5. /\ status' = [status EXCEPT ![c] = "PENDING"] /\ base' = [base EXCEPT ![c] = o]
        /\ text' = [text EXCEPT ![c] = p] /\ diff' = [diff EXCEPT ![c] = l]
    BY <2>1, <2>3, <2>4, Zenon DEF CreateChange
  <2>6. /\ diff'[c] = l /\ base'[c] = o /\ text'[c] = p
        /\ \A d \in Changes \ {c} : /\ status'[d] = status[d] /\ base'[d] = base[d]
                                     /\ text'[d] = text[d] /\ diff'[d] = diff[d]
    BY <1>0, <2>5 DEF TypeOK, HaveDiffs
  <2>7. Side(l, {" ", "-"}) = o /\ Side(l, {" ", "+"}) = p
    BY <2>4, LineDiffSides
  <2>8. HaveDiffs'
    BY <2>5 DEF HaveDiffs
  <2>9. QED
    BY <2>6, <2>7, <2>8 DEF DiffShowsChange
<1>2. CASE \E j \in Jobs : Record(j)
  <2>1. PICK j \in Jobs : Record(j)
    BY <1>2
  <2>2. UNCHANGED <<base, text, diff>> /\ \A d \in Changes : status'[d] # "NONE" => status[d] # "NONE"
    BY <1>0, <2>1, NoneAssumption DEF Record, Reviewed, TypeOK, JobFacts
  <2>3. QED
    BY <2>2 DEF DiffShowsChange, HaveDiffs
<1>3. CASE UNCHANGED changes
  BY <1>3 DEF DiffShowsChange, HaveDiffs, changes
<1>4. QED
  BY <1>1, <1>2, <1>3
  DEF Next, Review, Import, vars, EditFile, BeginPropose, BeginApprove, BeginReject, BeginReview,
    WriteChange, WriteImport, Lookup, InsertRow, UpdateRow, Fail

\* A reviewer sees all of a change, whatever its texts are and however long: the diff
\* without the added lines is the original as it was read, without the removed lines
\* the proposed content.
THEOREM DiffsShowChanges == Spec => []DiffShowsChange
<1>1. Init => HaveDiffs /\ DiffShowsChange
  BY DEF Init, HaveDiffs, DiffShowsChange
<1>2. IInv /\ HaveDiffs /\ DiffShowsChange /\ [Next]_vars => HaveDiffs' /\ DiffShowsChange'
  BY DiffStep
<1>3. QED
  BY <1>1, <1>2, InvariantHolds, PTL DEF Spec
=============================================================================
