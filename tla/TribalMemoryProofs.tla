------------------------- MODULE TribalMemoryProofs -------------------------
(***************************************************************************)
(* For any number of entries, candidates and handlers: the lineage of the  *)
(* entries and the record of the reviews are what TribalMemory says,       *)
(* wherever handlers interleave and break off.                             *)
(***************************************************************************)
EXTENDS TribalMemory, TLAPS

\* The row a handler works on has been made; the one it recorded is from its
\* candidate.
Rows ==
  /\ \A j \in Jobs : job[j].cand # None => verdict[job[j].cand] # "NONE"
  /\ \A j \in Jobs : job[j].entry # None => status[job[j].entry] # "NONE"
  /\ \A j \in Jobs : job[j].pc \in {"target", "retire"} => target[job[j].cand] # None
  /\ \A j \in Jobs : job[j].op = "confirm" /\ job[j].pc = "record" =>
       from[job[j].entry] = job[j].cand
  /\ \A c \in Candidates : promoted[c] # None => status[promoted[c]] # "NONE"
  /\ \A c \in Candidates : target[c] # None => status[target[c]] # "NONE"
  /\ \A e \in Entries : status[e] = "NONE" => old[e] = None /\ from[e] = None

\* An entry has its successor, is about to get it, or has lost it.
Succeeded(e) ==
  \/ \E n \in Entries : Exists(n) /\ old[n] = e
  \/ \E j \in Jobs : job[j].pc = "create" /\ target[job[j].cand] = e
  \/ e \in broken

\* Also what an edit will write back has been replaced.
Lineage ==
  /\ \A e \in Entries : status[e] = "SUPERSEDED" => Succeeded(e)
  /\ \A j \in Jobs : job[j].seen = "SUPERSEDED" /\ Exists(job[j].entry) => Succeeded(job[j].entry)

\* An entry that is still there has a successor, or one that is about to be created.
Retired(e) ==
  \/ \E n \in Entries : Exists(n) /\ old[n] = e
  \/ Exists(e) /\ \E j \in Jobs : job[j].pc = "create" /\ target[job[j].cand] = e

\* Also the edits in flight know of the retirement.
Retirement ==
  \A e \in Entries \ edited : Retired(e) =>
    /\ status[e] = "SUPERSEDED"
    /\ \A j \in Jobs : job[j].op = "edit" /\ job[j].entry = e => job[j].seen = "SUPERSEDED"

\* An undisputed candidate has one review at most, before its verdict.
OneReview ==
  \A j \in Jobs : job[j].cand \in Candidates \ disputed =>
    /\ verdict[job[j].cand] = "TENTATIVE"
    /\ \A k \in Jobs : job[k].cand = job[j].cand => k = j

IInv == TypeOK /\ Rows /\ Lineage /\ Retirement /\ OneReview /\ PromotionIsRecorded

-----------------------------------------------------------------------------
\* What the statement a handler stands at says of its record.
JobFacts(x) ==
  /\ x.pc \in {"target", "retire", "create"} =>
       x.op = "confirm" /\ x.cand \in Candidates /\ x.entry = None /\ x.seen = "NONE"
  /\ x.pc = "record" =>
       /\ x.op \in {"confirm", "reject"} /\ x.cand \in Candidates /\ x.seen = "NONE"
       /\ x.op = "confirm" => x.entry \in Entries
       /\ x.op = "reject" => x.entry = None
  /\ x.pc = "write" => x.op = "edit" /\ x.cand = None /\ x.entry \in Entries /\ x.seen \in Statuses
  /\ x.pc = "idle" => x = Quiet
  /\ x.pc \in {"target", "retire", "create", "record", "write", "idle"}

LEMMA JobsHaveFacts ==
  ASSUME TypeOK
  PROVE  \A j \in Jobs : job[j] \in JobStates /\ JobFacts(job[j])
<1>1. ASSUME NEW x \in JobStates
      PROVE  JobFacts(x)
  BY DEF JobStates, JobFacts, Quiet
<1>2. QED
  BY <1>1 DEF TypeOK

LEMMA InitIInv == Init => IInv
BY NoneAssumption
  DEF Init, IInv, TypeOK, JobStates, Statuses, Verdicts, Quiet, Rows, Lineage, Retirement, Retired, Exists,
    OneReview, PromotionIsRecorded

-----------------------------------------------------------------------------
\* The outcomes of ReadTarget and Retire: the entry is gone, or the handler goes on.
Dropped(j) ==
  /\ job[j].pc \in {"target", "retire"} /\ job' = [job EXCEPT ![j] = Quiet]
  /\ UNCHANGED <<entries, cands, history>>

Onward(j, pc) ==
  /\ \A k \in Jobs \ {j} : job'[k] = job[k]
  /\ job'[j].pc = pc /\ job'[j].op = job[j].op /\ job'[j].cand = job[j].cand
  /\ job'[j].entry = job[j].entry /\ job'[j].seen = job[j].seen

Found(j) ==
  job[j].pc = "target" /\ Onward(j, "retire") /\ UNCHANGED <<entries, cands, history>>

Retires(j) ==
  LET e == target[job[j].cand]
  IN  /\ job[j].pc = "retire" /\ Onward(j, "create")
      /\ Exists(e)
      /\ status' = [status EXCEPT ![e] = "SUPERSEDED"]
      /\ edited' = IF \E k \in Jobs : job[k].op = "edit" /\ job[k].entry = e
                   THEN edited \cup {e} ELSE edited
      /\ UNCHANGED <<old, from, cands, broken, disputed>>

\* The steps, one by one.
Steps ==
  \/ \E e \in Entries : CreateEntry(e)
  \/ \E e \in Entries : DeleteEntry(e)
  \/ \E c \in Candidates, e \in Entries \cup {None} : Propose(c, e)
  \/ \E j \in Jobs, e \in Entries : BeginEdit(j, e)
  \/ \E j \in Jobs : WriteEdit(j)
  \/ \E j \in Jobs, c \in Candidates : BeginConfirm(j, c)
  \/ \E j \in Jobs, c \in Candidates : BeginReject(j, c)
  \/ \E j \in Jobs : Dropped(j)
  \/ \E j \in Jobs : Found(j)
  \/ \E j \in Jobs : Retires(j)
  \/ \E j \in Jobs, e \in Entries : Promote(j, e)
  \/ \E j \in Jobs : RecordConfirmed(j)
  \/ \E j \in Jobs : RecordRejected(j)
  \/ \E j \in Jobs : Fail(j)

LEMMA NextSteps ==
  ASSUME TypeOK, Next
  PROVE  Steps
<1>1. ASSUME NEW j \in Jobs, NEW pc \in {"retire", "create"}, Goto(j, pc)
      PROVE  Onward(j, pc)
  BY <1>1, JobsHaveFacts DEF Goto, Onward, TypeOK, JobStates, Quiet
<1>2. ASSUME NEW j \in Jobs, ReadTarget(j)
      PROVE  Dropped(j) \/ Found(j)
  BY <1>1, <1>2 DEF ReadTarget, Dropped, Found, End
<1>3. ASSUME NEW j \in Jobs, Retire(j)
      PROVE  Dropped(j) \/ Retires(j)
  <2>1. CASE Exists(target[job[j].cand])
    BY <1>1, <1>3, <2>1 DEF Retire, Retires
  <2>2. CASE ~Exists(target[job[j].cand])
    BY <1>3, <2>2 DEF Retire, Dropped, End, entries, history
  <2>3. QED
    BY <2>1, <2>2
<1>4. QED
  BY <1>2, <1>3 DEF Next, Steps, Review, Edit

LEMMA TypeStep ==
  ASSUME TypeOK, [Next]_vars
  PROVE  TypeOK'
<1>0. \A j \in Jobs : job[j] \in JobStates /\ JobFacts(job[j])
  BY JobsHaveFacts
<1>1. CASE \E e \in Entries : CreateEntry(e) \/ DeleteEntry(e)
  BY <1>1, NoneAssumption DEF TypeOK, CreateEntry, DeleteEntry, Fresh, Statuses, cands, history
<1>2. CASE \E c \in Candidates, e \in Entries \cup {None} : Propose(c, e)
  BY <1>2 DEF TypeOK, Propose, Fresh, Verdicts, entries, history
<1>3. CASE \E j \in Jobs, e \in Entries : BeginEdit(j, e)
  BY <1>3 DEF TypeOK, BeginEdit, Exists, JobStates, entries, cands, history
<1>4. CASE \E j \in Jobs : WriteEdit(j)
  BY <1>0, <1>4 DEF TypeOK, WriteEdit, End, JobStates, JobFacts, cands, history
<1>5. CASE \E j \in Jobs, c \in Candidates : BeginConfirm(j, c) \/ BeginReject(j, c)
  <2>1. PICK j \in Jobs, c \in Candidates : BeginConfirm(j, c) \/ BeginReject(j, c)
    BY <1>5
  <2>2. ASSUME NEW op \in {"confirm", "reject"}, NEW pc \in {"create", "target", "record"},
               pc = "record" <=> op = "reject"
        PROVE  [Quiet EXCEPT !.op = op, !.pc = pc, !.cand = c] \in JobStates
    BY <2>2 DEF Quiet, JobStates
  <2>3. \E x \in JobStates : job' = [job EXCEPT ![j] = x]
    BY <2>1, <2>2 DEF BeginConfirm, BeginReject, BeginReview
  <2>4. UNCHANGED <<entries, cands, broken, edited>> /\ disputed' \subseteq disputed \cup {c}
    BY <2>1 DEF BeginConfirm, BeginReject, BeginReview
  <2>5. QED
    BY <2>3, <2>4 DEF TypeOK, entries, cands
<1>6. CASE \E j \in Jobs : ReadTarget(j) \/ Retire(j)
  <2>1. PICK j \in Jobs : ReadTarget(j) \/ Retire(j)
    BY <1>6
  <2>2. job[j].pc \in {"target", "retire"} /\ job[j] \in JobStates /\ JobFacts(job[j])
    BY <1>0, <2>1 DEF ReadTarget, Retire
  <2>3. \A pc \in {"retire", "create"} : [job[j] EXCEPT !.pc = pc] \in JobStates
    BY <2>2 DEF JobStates, Quiet
  <2>4. \E x \in JobStates : job' = [job EXCEPT ![j] = x]
    BY <2>1, <2>3 DEF ReadTarget, Retire, Goto, End, JobStates
  <2>5. /\ UNCHANGED <<old, from, cands, broken, disputed>>
        /\ status' \in [Entries -> {"NONE", "DELETED"} \cup Statuses]
        /\ edited' \subseteq Entries
    BY <1>0, <2>1 DEF TypeOK, ReadTarget, Retire, JobFacts, Quiet, Statuses, entries, history
  <2>6. QED
    BY <2>4, <2>5 DEF TypeOK, cands
<1>7. CASE \E j \in Jobs, e \in Entries : Promote(j, e)
  <2>1. PICK j \in Jobs, e \in Entries : Promote(j, e)
    BY <1>7
  <2>2. job[j].pc = "create" /\ job[j] \in JobStates /\ JobFacts(job[j])
    BY <1>0, <2>1 DEF Promote
  <2>3. [job[j] EXCEPT !.pc = "record", !.entry = e] \in JobStates
    <3>1. job[j] \in [op : {"confirm"}, pc : {"target", "retire", "create"}, cand : Candidates,
                      entry : {None}, seen : {"NONE"}]
      BY <2>2 DEF JobStates, Quiet
    <3>2. [job[j] EXCEPT !.pc = "record", !.entry = e]
            \in [op : {"confirm"}, pc : {"record"}, cand : Candidates, entry : Entries, seen : {"NONE"}]
      BY <3>1
    <3>3. QED
      BY <3>2 DEF JobStates
  <2>4. \E x \in JobStates : job' = [job EXCEPT ![j] = x]
    BY <2>1, <2>3 DEF Promote
  <2>5. QED
    BY <2>1, <2>2, <2>4 DEF TypeOK, Promote, JobFacts, Statuses, cands, history
<1>8. CASE \E j \in Jobs : RecordConfirmed(j) \/ RecordRejected(j)
  BY <1>0, <1>8 DEF TypeOK, RecordConfirmed, RecordRejected, End, JobStates, JobFacts, Verdicts, entries, history
<1>9. CASE \E j \in Jobs : Fail(j)
  BY <1>0, <1>9 DEF TypeOK, Fail, End, JobStates, JobFacts, Quiet, entries, cands
<1>10. CASE UNCHANGED vars
  BY <1>10 DEF TypeOK, vars, entries, cands, history
<1>11. QED
  BY <1>1, <1>2, <1>3, <1>4, <1>5, <1>6, <1>7, <1>8, <1>9, <1>10 DEF Next, Review, Edit

LEMMA RowsStep ==
  ASSUME IInv, Next
  PROVE  Rows'
<1>0. TypeOK /\ (\A j \in Jobs : JobFacts(job[j])) /\ TypeOK'
  BY JobsHaveFacts, TypeStep DEF IInv
<1>1. CASE \E e \in Entries : CreateEntry(e)
  BY <1>0, <1>1 DEF IInv, TypeOK, Rows, CreateEntry, cands
<1>2. CASE \E e \in Entries : DeleteEntry(e)
  BY <1>0, <1>2 DEF IInv, TypeOK, Rows, DeleteEntry, cands
<1>3. CASE \E c \in Candidates, e \in Entries \cup {None} : Propose(c, e)
  BY <1>0, <1>3, NoneAssumption DEF IInv, TypeOK, Rows, Propose, Fresh, entries
<1>4. CASE \E j \in Jobs, e \in Entries : BeginEdit(j, e)
  BY <1>0, <1>4 DEF IInv, TypeOK, Rows, Exists, Statuses, BeginEdit, entries, cands
<1>5. CASE \E j \in Jobs : WriteEdit(j)
  BY <1>0, <1>5 DEF IInv, TypeOK, Rows, JobFacts, Quiet, Statuses, WriteEdit, End, cands
<1>6. CASE \E j \in Jobs, c \in Candidates : BeginConfirm(j, c)
  BY <1>0, <1>6 DEF IInv, TypeOK, Rows, BeginConfirm, BeginReview, entries, cands
<1>7. CASE \E j \in Jobs, c \in Candidates : BeginReject(j, c)
  BY <1>0, <1>7 DEF IInv, TypeOK, Rows, BeginReject, BeginReview, entries, cands
<1>8. CASE \E j \in Jobs : Dropped(j)
  BY <1>0, <1>8 DEF IInv, TypeOK, Rows, Quiet, Dropped, entries, cands
<1>9. CASE \E j \in Jobs : Found(j)
  BY <1>0, <1>9 DEF IInv, TypeOK, Rows, Found, Onward, entries, cands
<1>10. CASE \E j \in Jobs : Retires(j)
  BY <1>0, <1>10 DEF IInv, TypeOK, Rows, Retires, Onward, cands
<1>11. CASE \E j \in Jobs, e \in Entries : Promote(j, e)
  BY <1>0, <1>11, NoneAssumption DEF IInv, Rows, TypeOK, Promote, Fresh, cands
<1>12. CASE \E j \in Jobs : RecordConfirmed(j)
  BY <1>0, <1>12 DEF IInv, TypeOK, Rows, Quiet, RecordConfirmed, End, entries
<1>13. CASE \E j \in Jobs : RecordRejected(j)
  BY <1>0, <1>13 DEF IInv, TypeOK, Rows, Quiet, RecordRejected, End, entries
<1>14. CASE \E j \in Jobs : Fail(j)
  BY <1>0, <1>14 DEF IInv, TypeOK, Rows, Quiet, Fail, End, entries, cands
<1>15. QED
  BY <1>0, <1>1, <1>2, <1>3, <1>4, <1>5, <1>6, <1>7, <1>8, <1>9, <1>10, <1>11, <1>12,
     <1>13, <1>14, NextSteps
  DEF Steps

LEMMA LineageStep ==
  ASSUME IInv, Next
  PROVE  Lineage'
<1>0. TypeOK /\ (\A j \in Jobs : JobFacts(job[j])) /\ TypeOK'
  BY JobsHaveFacts, TypeStep DEF IInv
<1>1. CASE \E e \in Entries : CreateEntry(e)
  BY <1>0, <1>1
  DEF IInv, TypeOK, Rows, Lineage, Succeeded, Exists, Statuses, CreateEntry, Fresh, cands, history
<1>2. CASE \E e \in Entries : DeleteEntry(e)
  BY <1>0, <1>2, NoneAssumption
  DEF IInv, Lineage, Succeeded, JobFacts, Quiet, TypeOK, Exists, Statuses, DeleteEntry, cands
<1>3. CASE \E c \in Candidates, e \in Entries \cup {None} : Propose(c, e)
  BY <1>0, <1>3, NoneAssumption
  DEF IInv, TypeOK, Rows, Lineage, Succeeded, Exists, Propose, Fresh, entries, history
<1>4. CASE \E j \in Jobs, e \in Entries : BeginEdit(j, e)
  BY <1>0, <1>4
  DEF IInv, TypeOK, Lineage, Succeeded, Quiet, Exists, BeginEdit, entries, cands, history
<1>5. CASE \E j \in Jobs : WriteEdit(j)
  BY <1>0, <1>5
  DEF IInv, TypeOK, Lineage, Succeeded, JobFacts, Quiet, Exists, WriteEdit, End, cands, history
<1>6. CASE \E j \in Jobs, c \in Candidates : BeginConfirm(j, c)
  BY <1>0, <1>6
  DEF IInv, TypeOK, Lineage, Succeeded, Quiet, Exists, BeginConfirm, BeginReview, entries, cands
<1>7. CASE \E j \in Jobs, c \in Candidates : BeginReject(j, c)
  BY <1>0, <1>7
  DEF IInv, TypeOK, Lineage, Succeeded, Quiet, Exists, BeginReject, BeginReview, entries, cands
<1>8. CASE \E j \in Jobs : Dropped(j)
  BY <1>0, <1>8
  DEF IInv, TypeOK, Lineage, Succeeded, Quiet, Exists, Dropped, entries, cands, history
<1>9. CASE \E j \in Jobs : Found(j)
  BY <1>0, <1>9
  DEF IInv, TypeOK, Lineage, Succeeded, Exists, Found, Onward, entries, cands, history
<1>10. CASE \E j \in Jobs : Retires(j)
  BY <1>0, <1>10 DEF IInv, TypeOK, Lineage, Succeeded, Exists, Statuses, Retires, Onward, cands
<1>11. CASE \E j \in Jobs, e \in Entries : Promote(j, e)
  <2>1. PICK j \in Jobs, e \in Entries : Promote(j, e)
    BY <1>11
  <2>2. /\ \A x \in Entries \ {e} : status'[x] = status[x] /\ old'[x] = old[x]
        /\ status[e] = "NONE" /\ status'[e] = "ACTIVE" /\ old'[e] = target[job[j].cand]
        /\ \A k \in Jobs \ {j} : job'[k] = job[k]
        /\ job'[j].seen = "NONE"
        /\ UNCHANGED <<target, broken>>
    BY <1>0, <2>1 DEF TypeOK, Promote, Fresh, JobFacts, cands, history
  <2>3. ASSUME NEW x \in Entries, Succeeded(x)
        PROVE  Succeeded(x)'
    <3>1. CASE \E n \in Entries : Exists(n) /\ old[n] = x
      BY <2>2, <3>1 DEF Exists, Statuses, Succeeded
    <3>2. CASE \E k \in Jobs : job[k].pc = "create" /\ target[job[k].cand] = x
      BY <2>2, <3>2 DEF Exists, Statuses, Succeeded
    <3>3. CASE x \in broken
      BY <2>2, <3>3 DEF Succeeded
    <3>4. QED
      BY <2>3, <3>1, <3>2, <3>3 DEF Succeeded
  <2>4. ASSUME NEW k \in Jobs, NEW x, job'[k].entry = x, job'[k].seen = "SUPERSEDED", Exists(x)'
        PROVE  Succeeded(x)'
    <3>1. k # j /\ job[k].entry = x /\ job[k].seen = "SUPERSEDED"
      BY <2>2, <2>4
    <3>2. x \in Entries \ {e}
      BY <1>0, <2>2, <3>1, NoneAssumption DEF IInv, Rows, JobFacts, Quiet
    <3>3. Succeeded(x)
      BY <2>2, <2>4, <3>1, <3>2 DEF IInv, Lineage, Exists
    <3>4. QED
      BY <2>3, <3>2, <3>3
  <2>5. \A x \in Entries : status'[x] = "SUPERSEDED" => Succeeded(x)'
    BY <2>2, <2>3 DEF IInv, Lineage
  <2>6. QED
    BY <2>4, <2>5 DEF Lineage
<1>12. CASE \E j \in Jobs : RecordConfirmed(j)
  BY <1>0, <1>12
  DEF IInv, TypeOK, Lineage, Succeeded, Quiet, Exists, RecordConfirmed, End, entries, history
<1>13. CASE \E j \in Jobs : RecordRejected(j)
  BY <1>0, <1>13
  DEF IInv, TypeOK, Lineage, Succeeded, Quiet, Exists, RecordRejected, End, entries, history
<1>14. CASE \E j \in Jobs : Fail(j)
  BY <1>0, <1>14, NoneAssumption
  DEF IInv, TypeOK, Lineage, Succeeded, JobFacts, Quiet, Exists, Fail, End, entries, cands
<1>15. QED
  BY <1>0, <1>1, <1>2, <1>3, <1>4, <1>5, <1>6, <1>7, <1>8, <1>9, <1>10, <1>11, <1>12,
     <1>13, <1>14, NextSteps
  DEF Steps

LEMMA RetirementStep ==
  ASSUME IInv, Next
  PROVE  Retirement'
<1>0. TypeOK /\ (\A j \in Jobs : JobFacts(job[j])) /\ TypeOK'
  BY JobsHaveFacts, TypeStep DEF IInv
<1>1. CASE \E e \in Entries : CreateEntry(e)
  BY <1>0, <1>1, NoneAssumption
  DEF IInv, TypeOK, Rows, Retirement, Retired, JobFacts, Exists, CreateEntry, Fresh, cands, history
<1>2. CASE \E e \in Entries : DeleteEntry(e)
  BY <1>0, <1>2, NoneAssumption
  DEF IInv, TypeOK, Retirement, Retired, Exists, Statuses, DeleteEntry, cands
<1>3. CASE \E c \in Candidates, e \in Entries \cup {None} : Propose(c, e)
  BY <1>0, <1>3, NoneAssumption
  DEF IInv, TypeOK, Rows, Retirement, Retired, Exists, Propose, Fresh, entries, history
<1>4. CASE \E j \in Jobs, e \in Entries : BeginEdit(j, e)
  BY <1>0, <1>4
  DEF IInv, TypeOK, Retirement, Retired, Exists, BeginEdit, entries, cands, history
<1>5. CASE \E j \in Jobs : WriteEdit(j)
  BY <1>0, <1>5
  DEF IInv, TypeOK, Retirement, Retired, JobFacts, Quiet, Exists, WriteEdit, End, cands, history
<1>6. CASE \E j \in Jobs, c \in Candidates : BeginConfirm(j, c)
  BY <1>0, <1>6, NoneAssumption
  DEF IInv, TypeOK, Retirement, Retired, Exists, BeginConfirm, BeginReview, entries, cands
<1>7. CASE \E j \in Jobs, c \in Candidates : BeginReject(j, c)
  BY <1>0, <1>7
  DEF IInv, TypeOK, Retirement, Retired, Exists, BeginReject, BeginReview, entries, cands
<1>8. CASE \E j \in Jobs : Dropped(j)
  BY <1>0, <1>8
  DEF IInv, TypeOK, Retirement, Retired, Quiet, Exists, Dropped, entries, cands, history
<1>9. CASE \E j \in Jobs : Found(j)
  BY <1>0, <1>9
  DEF IInv, TypeOK, Retirement, Retired, Exists, Found, Onward, entries, cands, history
<1>10. CASE \E j \in Jobs : Retires(j)
  BY <1>0, <1>10 DEF IInv, Retirement, Retired, TypeOK, Exists, Retires, Onward, cands
<1>11. CASE \E j \in Jobs, e \in Entries : Promote(j, e)
  BY <1>0, <1>11, NoneAssumption
  DEF IInv, Rows, Retirement, Retired, JobFacts, TypeOK, Exists, Promote, Fresh, cands, history
<1>12. CASE \E j \in Jobs : RecordConfirmed(j)
  BY <1>0, <1>12
  DEF IInv, TypeOK, Retirement, Retired, Quiet, Exists, RecordConfirmed, End, entries, history
<1>13. CASE \E j \in Jobs : RecordRejected(j)
  BY <1>0, <1>13
  DEF IInv, TypeOK, Retirement, Retired, Quiet, Exists, RecordRejected, End, entries, history
<1>14. CASE \E j \in Jobs : Fail(j)
  BY <1>0, <1>14 DEF IInv, TypeOK, Retirement, Retired, Quiet, Exists, Fail, End, entries, cands
<1>15. QED
  BY <1>0, <1>1, <1>2, <1>3, <1>4, <1>5, <1>6, <1>7, <1>8, <1>9, <1>10, <1>11, <1>12,
     <1>13, <1>14, NextSteps
  DEF Steps

LEMMA OneReviewStep ==
  ASSUME IInv, Next
  PROVE  OneReview'
<1>0. TypeOK /\ (\A j \in Jobs : JobFacts(job[j])) /\ TypeOK'
  BY JobsHaveFacts, TypeStep DEF IInv
<1>1. CASE \E e \in Entries : CreateEntry(e)
  BY <1>0, <1>1 DEF IInv, TypeOK, OneReview, CreateEntry, cands, history
<1>2. CASE \E e \in Entries : DeleteEntry(e)
  BY <1>0, <1>2 DEF IInv, TypeOK, OneReview, DeleteEntry, cands
<1>3. CASE \E c \in Candidates, e \in Entries \cup {None} : Propose(c, e)
  BY <1>0, <1>3 DEF IInv, TypeOK, OneReview, Propose, history
<1>4. CASE \E j \in Jobs, e \in Entries : BeginEdit(j, e)
  BY <1>0, <1>4 DEF IInv, TypeOK, OneReview, Quiet, BeginEdit, cands, history
<1>5. CASE \E j \in Jobs : WriteEdit(j)
  BY <1>0, <1>5, NoneAssumption
  DEF IInv, TypeOK, OneReview, Quiet, WriteEdit, End, cands, history
<1>6. CASE \E j \in Jobs, c \in Candidates : BeginConfirm(j, c)
  BY <1>0, <1>6 DEF IInv, TypeOK, OneReview, BeginConfirm, BeginReview, Again, Reviewing, cands
<1>7. CASE \E j \in Jobs, c \in Candidates : BeginReject(j, c)
  BY <1>0, <1>7 DEF IInv, TypeOK, OneReview, BeginReject, BeginReview, Again, Reviewing, cands
<1>8. CASE \E j \in Jobs : Dropped(j)
  BY <1>0, <1>8, NoneAssumption DEF IInv, TypeOK, OneReview, Quiet, Dropped, cands, history
<1>9. CASE \E j \in Jobs : Found(j)
  BY <1>0, <1>9 DEF IInv, TypeOK, OneReview, Found, Onward, cands, history
<1>10. CASE \E j \in Jobs : Retires(j)
  BY <1>0, <1>10 DEF IInv, TypeOK, OneReview, Retires, Onward, cands
<1>11. CASE \E j \in Jobs, e \in Entries : Promote(j, e)
  BY <1>0, <1>11 DEF IInv, OneReview, TypeOK, Promote, cands, history
<1>12. CASE \E j \in Jobs : RecordConfirmed(j)
  BY <1>0, <1>12, NoneAssumption
  DEF IInv, OneReview, Quiet, TypeOK, RecordConfirmed, End, history
<1>13. CASE \E j \in Jobs : RecordRejected(j)
  BY <1>0, <1>13, NoneAssumption
  DEF IInv, OneReview, Quiet, TypeOK, RecordRejected, End, history
<1>14. CASE \E j \in Jobs : Fail(j)
  BY <1>0, <1>14, NoneAssumption DEF IInv, TypeOK, OneReview, Quiet, Fail, End, cands
<1>15. QED
  BY <1>0, <1>1, <1>2, <1>3, <1>4, <1>5, <1>6, <1>7, <1>8, <1>9, <1>10, <1>11, <1>12,
     <1>13, <1>14, NextSteps
  DEF Steps

LEMMA PromotionStep ==
  ASSUME IInv, Next
  PROVE  PromotionIsRecorded'
<1>0. TypeOK /\ (\A j \in Jobs : JobFacts(job[j])) /\ TypeOK'
  BY JobsHaveFacts, TypeStep DEF IInv
<1>1. CASE \E e \in Entries : CreateEntry(e)
  BY <1>0, <1>1
  DEF IInv, TypeOK, Rows, PromotionIsRecorded, Exists, CreateEntry, Fresh, cands, history
<1>2. CASE \E e \in Entries : DeleteEntry(e)
  BY <1>0, <1>2 DEF IInv, TypeOK, PromotionIsRecorded, Exists, DeleteEntry, cands
<1>3. CASE \E c \in Candidates, e \in Entries \cup {None} : Propose(c, e)
  BY <1>0, <1>3 DEF IInv, TypeOK, PromotionIsRecorded, Exists, Propose, Fresh, entries, history
<1>4. CASE \E j \in Jobs, e \in Entries : BeginEdit(j, e)
  BY <1>0, <1>4
  DEF IInv, TypeOK, PromotionIsRecorded, Quiet, Exists, BeginEdit, entries, cands, history
<1>5. CASE \E j \in Jobs : WriteEdit(j)
  BY <1>0, <1>5 DEF IInv, TypeOK, PromotionIsRecorded, Exists, WriteEdit, End, cands, history
<1>6. CASE \E j \in Jobs, c \in Candidates : BeginConfirm(j, c)
  BY <1>0, <1>6
  DEF IInv, TypeOK, PromotionIsRecorded, Quiet, Exists, BeginConfirm, BeginReview, entries, cands
<1>7. CASE \E j \in Jobs, c \in Candidates : BeginReject(j, c)
  BY <1>0, <1>7
  DEF IInv, TypeOK, PromotionIsRecorded, Quiet, Exists, BeginReject, BeginReview, entries, cands
<1>8. CASE \E j \in Jobs : Dropped(j)
  BY <1>0, <1>8 DEF IInv, TypeOK, PromotionIsRecorded, Exists, Dropped, entries, cands, history
<1>9. CASE \E j \in Jobs : Found(j)
  BY <1>0, <1>9
  DEF IInv, TypeOK, PromotionIsRecorded, Exists, Found, Onward, entries, cands, history
<1>10. CASE \E j \in Jobs : Retires(j)
  BY <1>0, <1>10 DEF IInv, TypeOK, PromotionIsRecorded, Exists, Retires, Onward, cands
<1>11. CASE \E j \in Jobs, e \in Entries : Promote(j, e)
  BY <1>0, <1>11, NoneAssumption
  DEF IInv, Rows, PromotionIsRecorded, JobFacts, TypeOK, Exists, Promote, Fresh, cands, history
<1>12. CASE \E j \in Jobs : RecordConfirmed(j)
  BY <1>0, <1>12, NoneAssumption
  DEF IInv, Rows, OneReview, PromotionIsRecorded, JobFacts, TypeOK, Exists, RecordConfirmed, End, entries, history
<1>13. CASE \E j \in Jobs : RecordRejected(j)
  BY <1>0, <1>13
  DEF IInv, OneReview, PromotionIsRecorded, TypeOK, Exists, RecordRejected, End, entries, history
<1>14. CASE \E j \in Jobs : Fail(j)
  BY <1>0, <1>14 DEF IInv, TypeOK, Rows, PromotionIsRecorded, Exists, Fail, End, entries, cands
<1>15. QED
  BY <1>0, <1>1, <1>2, <1>3, <1>4, <1>5, <1>6, <1>7, <1>8, <1>9, <1>10, <1>11, <1>12,
     <1>13, <1>14, NextSteps
  DEF Steps

-----------------------------------------------------------------------------
LEMMA IInvStep == IInv /\ [Next]_vars => IInv'
<1>1. IInv /\ Next => IInv'
  BY TypeStep, RowsStep, LineageStep, RetirementStep, OneReviewStep, PromotionStep DEF IInv
<1>2. IInv /\ UNCHANGED vars => IInv'
  BY DEF IInv, TypeOK, Rows, Lineage, Succeeded, Retirement, Retired, OneReview, PromotionIsRecorded,
         Exists, vars, entries, cands, history
<1>3. QED
  BY <1>1, <1>2

LEMMA InvariantHolds == Spec => []IInv
BY InitIInv, IInvStep, PTL DEF Spec

\* Rows and handlers keep their types: a handler between two statements has the
\* candidate or the entry these statements are about.
THEOREM MemoryTypeCorrect == Spec => []TypeOK
BY InvariantHolds, PTL DEF IInv

\* The lineage has no gap: whoever reads a SUPERSEDED entry finds its successor, or
\* there is a failure between the two writes, or a deletion, to blame.
THEOREM LineageHasNoGap == Spec => []SupersededIsReplaced
<1>1. IInv => SupersededIsReplaced
  BY DEF IInv, Lineage, Succeeded, SupersededIsReplaced
<1>2. QED
  BY <1>1, InvariantHolds, PTL

\* What was replaced is out of force, for any number of edits and confirmations at
\* once, unless an edit was in flight when it was replaced.
THEOREM ReplacedStaysRetired == Spec => []ReplacedIsRetired
<1>1. IInv => ReplacedIsRetired
  BY DEF IInv, TypeOK, Retirement, Retired, ReplacedIsRetired
<1>2. QED
  BY <1>1, InvariantHolds, PTL

\* An entry made from a candidate is the one the candidate names, which is then
\* CONFIRMED, unless it was reviewed twice or a review broke off.
THEOREM PromotionsRecorded == Spec => []PromotionIsRecorded
<1>1. IInv => PromotionIsRecorded
  BY DEF IInv
<1>2. QED
  BY <1>1, InvariantHolds, PTL
=============================================================================
