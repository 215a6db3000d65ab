-------------------------- MODULE KnowledgeDistiller --------------------------
(***************************************************************************)
(* Distillation passes over the ingested items of one workspace,           *)
(* distillIngestedItems of src/modules/tribal-memory/knowledge-distiller.ts, *)
(* and the sources and duplicates they leave in the table of candidates.   *)
(*                                                                         *)
(* A pass reads the candidates once and then works for as long as the      *)
(* models it asks take.  A fact stands for all texts the distiller holds   *)
(* to be the same (equal hash, or token similarity of 0.65 and more).  The *)
(* entries of tribal memory only decide the target of a new candidate,     *)
(* which TribalMemory leaves open; they are left out here.                 *)
(***************************************************************************)
EXTENDS Naturals

CONSTANTS Candidates,  \* ids of KnowledgeCandidate rows
          Items,       \* the IngestedItem rows
          Facts,       \* what can be distilled from an item
          Passes,      \* slots for distillations in flight
          MaxPasses,   \* bound: distillations begun
          None         \* null

ASSUME NoneAssumption == None \notin Items \cup Facts

VARIABLES
  verdict,   \* KnowledgeCandidate.status; "NONE": never created
  fact,      \* its title and summary
  sourceItems,  \* its sourceItemIds
  pass,      \* distillations between two statements
  begun,     \* number of distillations begun, which only the bound reads
  rejected,  \* history: candidates that were ever rejected
  raced      \* history: candidates proposed by a pass that overlapped another

cands == <<verdict, fact, sourceItems>>
history == <<begun, rejected, raced>>
distillVars == <<cands, pass, history>>

Verdicts == {"TENTATIVE", "CONFIRMED", "REJECTED"}
Live == {"TENTATIVE", "CONFIRMED"}

\* known[c] is sourceItemIds of c in the snapshot, {}: c is not in it.
Asleep == [pc |-> "idle", items |-> {}, known |-> [c \in Candidates |-> {}],
           item |-> None, facts |-> {}, alone |-> TRUE, merged |-> {}]

\* A distillation between two statements; alone and merged are history.
PassStates ==
  [pc : {"idle", "read", "extract", "facts"}, items : SUBSET Items,
   known : [Candidates -> SUBSET Items], item : Items \cup {None}, facts : SUBSET Facts,
   alone : BOOLEAN, merged : SUBSET Candidates]

-----------------------------------------------------------------------------
\* confirmCandidate and rejectCandidate write the verdict, whatever it was.
Decide(c, v) ==
  /\ verdict[c] # "NONE"
  /\ verdict' = [verdict EXCEPT ![c] = v]
  /\ rejected' = IF v = "REJECTED" THEN rejected \cup {c} ELSE rejected
  /\ UNCHANGED <<fact, sourceItems, pass, begun, raced>>

\* A pass reads the items it is to work on; other passes are no longer alone.
BeginPass(d, items) ==
  LET alone == \A o \in Passes : pass[o].pc = "idle"
  IN  /\ pass[d].pc = "idle" /\ begun < MaxPasses
      /\ begun' = begun + 1
      /\ pass' = [o \in Passes |->
                    IF o = d
                    THEN [Asleep EXCEPT !.pc = "read", !.items = items, !.alone = alone]
                    ELSE [pass[o] EXCEPT !.alone = (pass[o].pc = "idle")]]
      /\ UNCHANGED <<cands, rejected, raced>>

Snapshot(d, verdicts) ==
  /\ pass[d].pc = "read"
  /\ pass' = [pass EXCEPT ![d].pc = "extract",
                          ![d].known = [c \in Candidates |->
                                          IF verdict[c] \in verdicts THEN sourceItems[c] ELSE {}]]
  /\ UNCHANGED <<cands, history>>

\* Only what still waits for a review is compared.
ReadTentative(d) == Snapshot(d, {"TENTATIVE"})

\* The candidates to compare with: rejected ones may be proposed again.
ReadCandidates(d) == Snapshot(d, Live)

\* extractFactsFromItem: what a model says of the next item, or the fallback.
Extract(d, i, facts) ==
  /\ pass[d].pc = "extract" /\ i \in pass[d].items
  /\ pass' = [pass EXCEPT ![d].pc = "facts", ![d].item = i, ![d].facts = facts,
                          ![d].items = @ \ {i}]
  /\ UNCHANGED <<cands, history>>

\* The candidates of the snapshot that say the same.
Known(d, f) == {c \in Candidates : pass[d].known[c] # {} /\ fact[c] = f}
FactDone(d, f) == [pass[d] EXCEPT !.facts = @ \ {f}]

\* The item replaces the sources.
MergeOver(d, f, c) ==
  /\ pass[d].pc = "facts" /\ f \in pass[d].facts
  /\ c \in Known(d, f)
  /\ sourceItems' = [sourceItems EXCEPT ![c] = {pass[d].item}]
  /\ pass' = [pass EXCEPT ![d] = [FactDone(d, f) EXCEPT !.merged = @ \cup {c}]]
  /\ UNCHANGED <<verdict, fact, history>>

\* A known fact: the item is added to the sources as the snapshot has them.
Merge(d, f, c) ==
  /\ pass[d].pc = "facts" /\ f \in pass[d].facts
  /\ c \in Known(d, f)
  /\ \/ /\ pass[d].item \notin pass[d].known[c]
        /\ sourceItems' = [sourceItems EXCEPT ![c] = pass[d].known[c] \cup {pass[d].item}]
        /\ pass' = [pass EXCEPT ![d] = [FactDone(d, f) EXCEPT !.merged = @ \cup {c}]]
     \/ /\ pass[d].item \in pass[d].known[c]
        /\ pass' = [pass EXCEPT ![d] = FactDone(d, f)]
        /\ UNCHANGED sourceItems
  /\ UNCHANGED <<verdict, fact, history>>

\* A candidate without its source.
ProposeUnsourced(d, f, c) ==
  /\ pass[d].pc = "facts" /\ f \in pass[d].facts
  /\ Known(d, f) = {}
  /\ verdict[c] = "NONE"
  /\ verdict' = [verdict EXCEPT ![c] = "TENTATIVE"]
  /\ fact' = [fact EXCEPT ![c] = f]
  /\ pass' = [pass EXCEPT ![d] = [FactDone(d, f) EXCEPT !.known[c] = {pass[d].item}]]
  /\ raced' = IF pass[d].alone THEN raced ELSE raced \cup {c}
  /\ UNCHANGED <<sourceItems, begun, rejected>>

\* A new fact: a candidate, which enters the snapshot too.
Propose(d, f, c) ==
  /\ pass[d].pc = "facts" /\ f \in pass[d].facts
  /\ Known(d, f) = {}
  /\ verdict[c] = "NONE"
  /\ verdict' = [verdict EXCEPT ![c] = "TENTATIVE"]
  /\ fact' = [fact EXCEPT ![c] = f]
  /\ sourceItems' = [sourceItems EXCEPT ![c] = {pass[d].item}]
  /\ pass' = [pass EXCEPT ![d] = [FactDone(d, f) EXCEPT !.known[c] = {pass[d].item}]]
  /\ raced' = IF pass[d].alone THEN raced ELSE raced \cup {c}
  /\ UNCHANGED <<begun, rejected>>

\* All facts of the item are dealt with; after the last item the pass is over.
NextItem(d) ==
  /\ pass[d].pc = "facts" /\ pass[d].facts = {}
  /\ pass' = IF pass[d].items = {} THEN [pass EXCEPT ![d] = Asleep]
             ELSE [pass EXCEPT ![d].pc = "extract", ![d].item = None]
  /\ UNCHANGED <<cands, history>>

\* A statement throws or the process ends: what was proposed and merged stays.
FailPass(d) ==
  /\ pass[d].pc # "idle"
  /\ pass' = [pass EXCEPT ![d] = Asleep]
  /\ UNCHANGED <<cands, history>>

-----------------------------------------------------------------------------
DistillInit ==
  /\ verdict = [c \in Candidates |-> "NONE"]
  /\ fact = [c \in Candidates |-> None]
  /\ sourceItems = [c \in Candidates |-> {}]
  /\ pass = [d \in Passes |-> Asleep]
  /\ begun = 0 /\ rejected = {} /\ raced = {}

Distill(d) ==
  \/ \E items \in SUBSET Items \ {{}} : BeginPass(d, items)
  \/ ReadCandidates(d) \/ NextItem(d) \/ FailPass(d)
  \/ \E i \in Items, facts \in SUBSET Facts : Extract(d, i, facts)
  \/ \E f \in Facts, c \in Candidates : Merge(d, f, c) \/ Propose(d, f, c)

DistillNext ==
  \/ \E c \in Candidates, v \in {"CONFIRMED", "REJECTED"} : Decide(c, v)
  \/ \E d \in Passes : Distill(d)

DistillSpec == DistillInit /\ [][DistillNext]_distillVars

-----------------------------------------------------------------------------
(* Properties *)

DistillTypeOK ==
  /\ verdict \in [Candidates -> {"NONE"} \cup Verdicts]
  /\ fact \in [Candidates -> Facts \cup {None}]
  /\ sourceItems \in [Candidates -> SUBSET Items]
  /\ \A c \in Candidates : verdict[c] = "NONE" <=> sourceItems[c] = {}
  /\ pass \in [Passes -> PassStates]
  /\ begun \in Nat
  /\ rejected \subseteq Candidates /\ raced \subseteq Candidates

\* One fact is proposed once: two candidates for it are both TENTATIVE or CONFIRMED
\* only if two passes overlapped or one of the two had been rejected.
DuplicatesAreExplained ==
  \A c, d \in Candidates :
    c # d /\ fact[c] = fact[d] /\ verdict[c] \in Live /\ verdict[d] \in Live
      => {c, d} \cap (raced \cup rejected) # {}

\* A candidate loses a source only to a pass that merges into it a second time or
\* overlaps another pass: those write what their snapshot says.
SourcesAreKept ==
  [][\A c \in Candidates : sourceItems[c] \subseteq sourceItems'[c]
       \/ \E d \in Passes : pass[d] # pass'[d] /\ (c \in pass[d].merged \/ ~pass[d].alone)]_distillVars
=============================================================================
