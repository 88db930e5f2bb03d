----------------------- MODULE HistoryDatabase_proofs -----------------------
(***************************************************************************)
(* The history is whole for any number of processes, investigations and    *)
(* tool calls.  The argument: only the process that holds the writer lock  *)
(* has a draft, the draft is a function of what is committed and of that    *)
(* process's step, and an identifier has one investigation, whose evidence *)
(* nobody else collects.                                                   *)
(***************************************************************************)
EXTENDS HistoryDatabase, TLAPS

Jobs == [command : {"none", "setup", "investigate", "remove", "show"},
         step : Steps, id : Ids \cup {None}, calls : SUBSET Calls]

InTransaction(j) ==
  \/ j.command = "investigate" /\ j.step \in {"audit", "report", "evidence"}
  \/ j.command = "remove" /\ j.step \in {"delete", "commit"}

\* The draft of a transaction, at its process's step.
DraftInv(j) ==
  /\ j.command = "investigate" /\ j.step \in {"audit", "report"} => draft = tables
  /\ j.command = "investigate" /\ j.step = "evidence" =>
       /\ j.calls \subseteq collected[j.id]
       /\ draft.reports = tables.reports \cup {j.id}
       /\ draft.evidence = tables.evidence \cup {<<j.id, c>> : c \in collected[j.id] \ j.calls}
       /\ draft.audit = tables.audit
  /\ j.command = "remove" /\ j.step = "delete" => draft = tables
  /\ j.command = "remove" /\ j.step = "commit" =>
       /\ draft.reports = tables.reports \ {j.id}
       /\ draft.evidence = {row \in tables.evidence : row[1] # j.id}
       /\ draft.audit = tables.audit

JobInv(p) ==
  /\ InTransaction(doing[p]) => writer = p
  /\ Investigates(p) => doing[p].id \in Ids /\ told[doing[p].id] = "none"
  /\ doing[p].command = "remove" => doing[p].id \in Ids
  /\ DraftInv(doing[p])

OneInvestigation ==
  \A p, q \in Processes :
    p # q /\ Investigates(p) /\ Investigates(q) => doing[p].id # doing[q].id

ReportsAreSaved == \A i \in tables.reports : told[i] = "saved"
CollectedIsAudited == \A i \in Ids : \A c \in collected[i] : <<i, c>> \in tables.audit

IInv ==
  /\ TypeOK /\ HistoryWhole
  /\ OneInvestigation /\ ReportsAreSaved /\ CollectedIsAudited
  /\ \A p \in Processes : JobInv(p)

Tolds == {"none", "saved", "unsaved", "lost", "crashed"}

----------------------------------------------------------------------------
(* A step after which p has no transaction, and which commits nothing.     *)
LEMMA Quiet ==
  ASSUME IInv, NEW p \in Processes, NEW j \in Jobs,
         doing' = [doing EXCEPT ![p] = j], ~InTransaction(j),
         UNCHANGED <<tables, draft, collected, trail, removed>>,
         file' \in {"absent", "blank", "ready"}, writer' \in Processes \cup {None},
         \A q \in Processes \ {p} : writer = q => writer' = q,
         told' \in [Ids -> Tolds], \A i \in Ids : told'[i] = "saved" <=> told[i] = "saved",
         \A q \in Processes \ {p} : Investigates(q) => told'[doing[q].id] = "none",
         j.command = "investigate" =>
           /\ j.id \in Ids /\ told'[j.id] = "none"
           /\ \A q \in Processes \ {p} : Investigates(q) => doing[q].id # j.id,
         j.command = "remove" => j.id \in Ids
  PROVE  IInv'
<1>1. TypeOK' BY DEF IInv, TypeOK, Jobs, Tolds
<1>2. HistoryWhole' BY DEF IInv, HistoryWhole, EvidenceOf, TypeOK, RowSets
<1>3. /\ doing'[p] = j
      /\ \A q \in Processes \ {p} : doing'[q] = doing[q]
  BY DEF IInv, TypeOK
<1>4. OneInvestigation' BY <1>3 DEF IInv, OneInvestigation, Investigates
<1>5. ReportsAreSaved' /\ CollectedIsAudited'
  BY DEF IInv, ReportsAreSaved, CollectedIsAudited, TypeOK, RowSets
<1>6. ASSUME NEW q \in Processes PROVE JobInv(q)'
  <2>1. CASE q = p BY <2>1, <1>3 DEF JobInv, DraftInv, InTransaction, Investigates
  <2>2. CASE q # p
    BY <2>2, <1>3 DEF IInv, JobInv, DraftInv, InTransaction, Investigates
  <2>3. QED BY <2>1, <2>2
<1>7. QED BY <1>1, <1>2, <1>4, <1>5, <1>6 DEF IInv

(* Nobody else is in a transaction beside the writer's.                    *)
LEMMA OneWriter ==
  ASSUME IInv, NEW p \in Processes, writer \in {p, None}
  PROVE  \A q \in Processes \ {p} : ~InTransaction(doing[q])
BY NoneAssumption DEF IInv, JobInv

(* A transaction begins.                                                   *)
LEMMA Beginning ==
  ASSUME IInv, NEW p \in Processes, NEW j \in Jobs, Begin(p),
         doing' = [doing EXCEPT ![p] = j],
         UNCHANGED <<file, tables>>, UNCHANGED histories,
         \/ j.command = "investigate" /\ j.step \in {"audit", "report"} /\ j.id = doing[p].id
            /\ Investigates(p)
         \/ j.command = "remove" /\ j.step = "delete" /\ j.id \in Ids
  PROVE  IInv'
<1>1. TypeOK' BY DEF IInv, TypeOK, Jobs, Begin, histories
<1>2. HistoryWhole'
  BY DEF IInv, HistoryWhole, EvidenceOf, histories
<1>3. /\ doing'[p] = j
      /\ \A q \in Processes \ {p} : doing'[q] = doing[q]
  BY DEF IInv, TypeOK
<1>4. OneInvestigation' BY <1>3 DEF IInv, OneInvestigation, Investigates
<1>5. ReportsAreSaved' /\ CollectedIsAudited'
  BY DEF IInv, ReportsAreSaved, CollectedIsAudited, histories
<1>6. \A q \in Processes \ {p} : ~InTransaction(doing[q]) BY OneWriter DEF Begin
<1>7. ASSUME NEW q \in Processes PROVE JobInv(q)'
  <2>1. CASE q = p
    BY <2>1, <1>3 DEF IInv, JobInv, DraftInv, InTransaction, Investigates, Begin, histories
  <2>2. CASE q # p
    BY <2>2, <1>3, <1>6 DEF IInv, JobInv, DraftInv, InTransaction, Investigates, histories
  <2>3. QED BY <2>1, <2>2
<1>8. QED BY <1>1, <1>2, <1>4, <1>5, <1>7 DEF IInv

(* A statement inside p's transaction.                                     *)
LEMMA Inside ==
  ASSUME IInv, NEW p \in Processes, NEW j \in Jobs, InTransaction(doing[p]), InTransaction(j),
         j.command = doing[p].command, j.id = doing[p].id,
         doing' = [doing EXCEPT ![p] = j],
         UNCHANGED <<file, tables, writer>>, UNCHANGED histories,
         draft' \in RowSets, DraftInv(j)'
  PROVE  IInv'
<1>1. TypeOK' BY DEF IInv, TypeOK, Jobs, histories
<1>2. HistoryWhole' BY DEF IInv, HistoryWhole, EvidenceOf, histories
<1>3. /\ doing'[p] = j
      /\ \A q \in Processes \ {p} : doing'[q] = doing[q]
  BY DEF IInv, TypeOK
<1>4. OneInvestigation' BY <1>3 DEF IInv, OneInvestigation, Investigates
<1>5. ReportsAreSaved' /\ CollectedIsAudited'
  BY DEF IInv, ReportsAreSaved, CollectedIsAudited, histories
<1>6. writer = p BY DEF IInv, JobInv
<1>7. \A q \in Processes \ {p} : ~InTransaction(doing[q]) BY <1>6, OneWriter
<1>8. ASSUME NEW q \in Processes PROVE JobInv(q)'
  <2>1. CASE q = p
    <3>1. DraftInv(doing[q])' BY <2>1, <1>3 DEF DraftInv
    <3>2. QED
      BY <2>1, <1>3, <1>6, <3>1 DEF IInv, JobInv, Investigates, InTransaction, histories
  <2>2. CASE q # p
    BY <2>2, <1>3, <1>7 DEF IInv, JobInv, DraftInv, InTransaction, Investigates, histories
  <2>3. QED BY <2>1, <2>2
<1>9. QED BY <1>1, <1>2, <1>4, <1>5, <1>8 DEF IInv

(* p commits: nobody is in a transaction afterwards.                       *)
LEMMA Committing ==
  ASSUME IInv, NEW p \in Processes, NEW j \in Jobs, InTransaction(doing[p]), ~InTransaction(j),
         doing' = [doing EXCEPT ![p] = j], j.command \in {"none", "investigate"},
         TypeOK', writer' = None,
         j.command = "investigate" => Investigates(p) /\ j.id = doing[p].id,
         \A i \in Ids : ~(Investigates(p) /\ i = doing[p].id /\ j.command = "none") =>
           told'[i] = told[i]
  PROVE  OneInvestigation' /\ \A q \in Processes : JobInv(q)'
<1>1. /\ doing'[p] = j
      /\ \A q \in Processes \ {p} : doing'[q] = doing[q]
  BY DEF IInv, TypeOK
<1>2. writer = p BY DEF IInv, JobInv
<1>3. \A q \in Processes \ {p} : ~InTransaction(doing[q]) BY <1>2, OneWriter
<1>4. OneInvestigation' BY <1>1 DEF IInv, OneInvestigation, Investigates
<1>5. ASSUME NEW q \in Processes PROVE JobInv(q)'
  <2>1. CASE q = p
    BY <2>1, <1>1 DEF IInv, JobInv, DraftInv, InTransaction, Investigates
  <2>2. CASE q # p
    <3>1. Investigates(q) /\ Investigates(p) => doing[q].id # doing[p].id
      BY <2>2 DEF IInv, OneInvestigation
    <3>2. QED
      BY <2>2, <3>1, <1>1, <1>3 DEF IInv, JobInv, DraftInv, InTransaction, Investigates
  <2>3. QED BY <2>1, <2>2
<1>6. QED BY <1>4, <1>5

----------------------------------------------------------------------------
(* The three commits, and the statements before them.                      *)

LEMMA RecordAuditKeeps ==
  ASSUME IInv, NEW p \in Processes, RecordAudit(p)
  PROVE  IInv'
<1>1. PICK call \in doing[p].calls :
        /\ writer = p /\ writer' = None
        /\ tables' = [draft EXCEPT !.audit = @ \cup {<<doing[p].id, call>>}]
        /\ trail' = trail \cup {<<doing[p].id, call>>}
        /\ \/ collected' = [collected EXCEPT ![doing[p].id] = @ \cup {call}]
           \/ UNCHANGED collected
        /\ doing' = [doing EXCEPT ![p].step = "collect", ![p].calls = @ \ {call}]
  BY DEF RecordAudit
<1> DEFINE i == doing[p].id
           j == [doing[p] EXCEPT !.step = "collect", !.calls = @ \ {call}]
<1>2. doing[p] \in Jobs /\ At(p, "investigate", "audit") /\ UNCHANGED <<file, draft, removed, told>>
  BY DEF IInv, TypeOK, Jobs, RecordAudit
<1>3. j \in Jobs /\ j.command = "investigate" /\ j.step = "collect" /\ j.id = i
  BY <1>2 DEF Jobs, Steps, At
<1>4. doing' = [doing EXCEPT ![p] = j] BY <1>1
<1>5. draft = tables /\ i \in Ids /\ told[i] = "none" /\ call \in Calls
  BY <1>2 DEF IInv, JobInv, DraftInv, Investigates, At, Jobs
<1>6. /\ tables'.reports = tables.reports /\ tables'.evidence = tables.evidence
      /\ tables'.audit = tables.audit \cup {<<i, call>>}
      /\ tables' \in RowSets
  BY <1>1, <1>5 DEF IInv, TypeOK, RowSets, Row
<1>7. /\ collected' \in [Ids -> SUBSET Calls]
      /\ \A k \in Ids \ {i} : collected'[k] = collected[k]
      /\ collected'[i] \subseteq collected[i] \cup {call}
  BY <1>1, <1>5 DEF IInv, TypeOK
<1>8. TypeOK'
  <2>1. trail' \subseteq Row BY <1>1, <1>5 DEF IInv, TypeOK, Row
  <2>2. doing' \in [Processes -> Jobs] BY <1>3, <1>4 DEF IInv, TypeOK, Jobs
  <2>3. QED BY <2>1, <2>2, <1>1, <1>2, <1>6, <1>7 DEF IInv, TypeOK, Jobs
<1>9. i \notin tables.reports BY <1>5 DEF IInv, ReportsAreSaved
<1>10. HistoryWhole'
  <2>1. ASSUME NEW k \in Ids
        PROVE  EvidenceOf(tables', k) = IF k \in tables'.reports THEN collected'[k] ELSE {}
    <3>1. EvidenceOf(tables', k) = EvidenceOf(tables, k) BY <1>6 DEF EvidenceOf
    <3>2. CASE k = i BY <3>1, <3>2, <1>6, <1>9 DEF IInv, HistoryWhole
    <3>3. CASE k # i BY <3>1, <3>3, <1>6, <1>7 DEF IInv, HistoryWhole
    <3>4. QED BY <3>2, <3>3
  <2>2. trail' \subseteq tables'.audit /\ tables'.evidence \subseteq tables'.audit
    BY <1>1, <1>6 DEF IInv, HistoryWhole
  <2>3. \A k \in Ids : told'[k] = "saved" => k \in tables'.reports \cup removed'
    BY <1>2, <1>6 DEF IInv, HistoryWhole
  <2>4. QED BY <2>1, <2>2, <2>3 DEF HistoryWhole, EvidenceOf
<1>11. ReportsAreSaved' BY <1>2, <1>6 DEF IInv, ReportsAreSaved
<1>12. CollectedIsAudited'
  BY <1>6, <1>7 DEF IInv, CollectedIsAudited
<1>13. InTransaction(doing[p]) /\ Investigates(p) BY <1>2 DEF InTransaction, At, Investigates
<1>14. OneInvestigation' /\ \A q \in Processes : JobInv(q)'
  BY <1>1, <1>2, <1>3, <1>4, <1>8, <1>13, Committing DEF InTransaction
<1>15. QED BY <1>8, <1>10, <1>11, <1>12, <1>14 DEF IInv

LEMMA CommitAddKeeps ==
  ASSUME IInv, NEW p \in Processes, CommitAdd(p)
  PROVE  IInv'
<1> DEFINE i == doing[p].id
<1>1. /\ doing[p] \in Jobs /\ At(p, "investigate", "evidence") /\ doing[p].calls = {}
      /\ writer = p /\ writer' = None /\ tables' = draft
      /\ doing' = [doing EXCEPT ![p] = Idle] /\ told' = [told EXCEPT ![i] = "saved"]
      /\ UNCHANGED <<file, draft, collected, trail, removed>>
  BY DEF IInv, TypeOK, Jobs, CommitAdd, Commit, Done, Tell
<1>2. /\ i \in Ids /\ told[i] = "none"
      /\ draft.reports = tables.reports \cup {i}
      /\ draft.evidence = tables.evidence \cup {<<i, c>> : c \in collected[i]}
      /\ draft.audit = tables.audit
  BY <1>1 DEF IInv, JobInv, DraftInv, Investigates, At
<1>3. Idle \in Jobs /\ ~InTransaction(Idle) /\ Idle.command = "none"
  BY DEF Idle, Jobs, Steps, InTransaction
<1>4. TypeOK'
  BY <1>1, <1>2, <1>3 DEF IInv, TypeOK, Jobs
<1>5. i \notin tables.reports BY <1>2 DEF IInv, ReportsAreSaved
<1>6. collected[i] \subseteq Calls BY <1>2 DEF IInv, TypeOK
<1>7. HistoryWhole'
  <2>1. ASSUME NEW k \in Ids
        PROVE  EvidenceOf(tables', k) = IF k \in tables'.reports THEN collected'[k] ELSE {}
    <3>1. CASE k = i
      <4>1. EvidenceOf(tables, i) = {} BY <1>2, <1>5 DEF IInv, HistoryWhole
      <4>2. EvidenceOf(tables', i) = collected[i]
        BY <4>1, <1>1, <1>2, <1>6 DEF EvidenceOf
      <4>3. QED BY <4>2, <3>1, <1>1, <1>2
    <3>2. CASE k # i
      <4>1. EvidenceOf(tables', k) = EvidenceOf(tables, k)
        BY <3>2, <1>1, <1>2 DEF EvidenceOf
      <4>2. QED BY <4>1, <3>2, <1>1, <1>2 DEF IInv, HistoryWhole
    <3>3. QED BY <3>1, <3>2
  <2>2. \A c \in collected[i] : <<i, c>> \in tables.audit
    BY <1>2 DEF IInv, CollectedIsAudited
  <2>3. trail' \subseteq tables'.audit /\ tables'.evidence \subseteq tables'.audit
    BY <2>2, <1>1, <1>2 DEF IInv, HistoryWhole
  <2>4. \A k \in Ids : told'[k] = "saved" => k \in tables'.reports \cup removed'
    BY <1>1, <1>2 DEF IInv, HistoryWhole, TypeOK
  <2>5. QED BY <2>1, <2>3, <2>4 DEF HistoryWhole, EvidenceOf
<1>8. ReportsAreSaved' /\ CollectedIsAudited'
  BY <1>1, <1>2 DEF IInv, ReportsAreSaved, CollectedIsAudited, TypeOK, RowSets
<1>9. InTransaction(doing[p]) /\ Investigates(p) BY <1>1 DEF InTransaction, At, Investigates
<1>10. \A k \in Ids : k # i => told'[k] = told[k] BY <1>1 DEF IInv, TypeOK
<1>11. OneInvestigation' /\ \A q \in Processes : JobInv(q)'
  BY <1>1, <1>3, <1>4, <1>9, <1>10, Committing
<1>12. QED BY <1>4, <1>7, <1>8, <1>11 DEF IInv

LEMMA CommitRemoveKeeps ==
  ASSUME IInv, NEW p \in Processes, CommitRemove(p)
  PROVE  IInv'
<1> DEFINE i == doing[p].id
<1>1. /\ doing[p] \in Jobs /\ At(p, "remove", "commit")
      /\ writer = p /\ writer' = None /\ tables' = draft
      /\ doing' = [doing EXCEPT ![p] = Idle] /\ removed' = removed \cup {i}
      /\ UNCHANGED <<file, draft, collected, trail, told>>
  BY DEF IInv, TypeOK, Jobs, CommitRemove, Commit, Done
<1>2. /\ i \in Ids
      /\ draft.reports = tables.reports \ {i}
      /\ draft.evidence = {row \in tables.evidence : row[1] # i}
      /\ draft.audit = tables.audit
  BY <1>1 DEF IInv, JobInv, DraftInv, At
<1>3. Idle \in Jobs /\ ~InTransaction(Idle) /\ Idle.command = "none"
  BY DEF Idle, Jobs, Steps, InTransaction
<1>4. TypeOK'
  BY <1>1, <1>2, <1>3 DEF IInv, TypeOK, Jobs
<1>5. HistoryWhole'
  <2>1. ASSUME NEW k \in Ids
        PROVE  EvidenceOf(tables', k) = IF k \in tables'.reports THEN collected'[k] ELSE {}
    <3>1. CASE k = i BY <3>1, <1>1, <1>2 DEF EvidenceOf
    <3>2. CASE k # i
      <4>1. EvidenceOf(tables', k) = EvidenceOf(tables, k)
        BY <3>2, <1>1, <1>2 DEF EvidenceOf
      <4>2. QED BY <4>1, <3>2, <1>1, <1>2 DEF IInv, HistoryWhole
    <3>3. QED BY <3>1, <3>2
  <2>2. trail' \subseteq tables'.audit /\ tables'.evidence \subseteq tables'.audit
    BY <1>1, <1>2 DEF IInv, HistoryWhole
  <2>3. \A k \in Ids : told'[k] = "saved" => k \in tables'.reports \cup removed'
    BY <1>1, <1>2 DEF IInv, HistoryWhole
  <2>4. QED BY <2>1, <2>2, <2>3 DEF HistoryWhole, EvidenceOf
<1>6. ReportsAreSaved' /\ CollectedIsAudited'
  BY <1>1, <1>2 DEF IInv, ReportsAreSaved, CollectedIsAudited
<1>7. InTransaction(doing[p]) /\ ~Investigates(p) BY <1>1 DEF InTransaction, At, Investigates
<1>8. OneInvestigation' /\ \A q \in Processes : JobInv(q)'
  BY <1>1, <1>3, <1>4, <1>7, Committing
<1>9. QED BY <1>4, <1>5, <1>6, <1>8 DEF IInv

LEMMA InsertReportKeeps ==
  ASSUME IInv, NEW p \in Processes, InsertReport(p)
  PROVE  IInv'
<1> DEFINE next == [doing[p] EXCEPT !.step = "evidence", !.calls = collected[doing[p].id]]
<1>1. /\ doing[p] \in Jobs /\ At(p, "investigate", "report")
      /\ draft' = [draft EXCEPT !.reports = @ \cup {doing[p].id}] /\ UNCHANGED tables
      /\ doing' = [doing EXCEPT ![p] = next]
      /\ UNCHANGED <<file, writer>> /\ UNCHANGED histories
  BY DEF IInv, TypeOK, Jobs, InsertReport, Write
<1>2. draft = tables /\ doing[p].id \in Ids
  BY <1>1 DEF IInv, JobInv, DraftInv, Investigates, At
<1>3. next \in Jobs BY <1>1, <1>2 DEF IInv, TypeOK, Jobs, Steps
<1>4. PICK j \in Jobs : j = next BY <1>3
<1>5. /\ doing' = [doing EXCEPT ![p] = j]
      /\ j.command = "investigate" /\ j.step = "evidence" /\ j.id = doing[p].id
      /\ j.calls = collected[doing[p].id]
  BY <1>1, <1>4 DEF Jobs, At
<1>6. draft' \in RowSets BY <1>1, <1>2 DEF IInv, TypeOK, RowSets
<1>7. DraftInv(j)'
  BY <1>1, <1>2, <1>5 DEF DraftInv, histories, IInv, TypeOK, RowSets
<1>8. InTransaction(doing[p]) /\ InTransaction(j) BY <1>1, <1>5 DEF InTransaction, At
<1>9. doing[p].command = j.command BY <1>1, <1>5 DEF At
<1>10. QED BY <1>1, <1>5, <1>6, <1>7, <1>8, <1>9, Inside

LEMMA InsertEvidenceKeeps ==
  ASSUME IInv, NEW p \in Processes, InsertEvidence(p)
  PROVE  IInv'
<1>1. PICK call \in doing[p].calls :
        /\ draft' = [draft EXCEPT !.evidence = @ \cup {<<doing[p].id, call>>}]
        /\ UNCHANGED tables
        /\ doing' = [doing EXCEPT ![p].calls = @ \ {call}]
  BY DEF InsertEvidence, Write
<1> DEFINE next == [doing[p] EXCEPT !.calls = @ \ {call}]
<1>2. /\ doing[p] \in Jobs /\ At(p, "investigate", "evidence")
      /\ UNCHANGED <<file, writer>> /\ UNCHANGED histories
  BY DEF IInv, TypeOK, Jobs, InsertEvidence
<1>3. /\ doing[p].id \in Ids /\ doing[p].calls \subseteq collected[doing[p].id]
      /\ draft.reports = tables.reports \cup {doing[p].id}
      /\ draft.evidence = tables.evidence
           \cup {<<doing[p].id, c>> : c \in collected[doing[p].id] \ doing[p].calls}
      /\ draft.audit = tables.audit
  BY <1>2 DEF IInv, JobInv, DraftInv, Investigates, At
<1>4. next \in Jobs BY <1>2 DEF Jobs
<1>5. PICK j \in Jobs : j = next BY <1>4
<1>6. j.command = "investigate" /\ j.step = "evidence" /\ j.id = doing[p].id
      /\ j.calls = doing[p].calls \ {call}
  BY <1>2, <1>5 DEF Jobs, At
<1>7. doing' = [doing EXCEPT ![p] = j] BY <1>1, <1>5
<1>8. /\ draft'.reports = draft.reports /\ draft'.audit = draft.audit
      /\ draft'.evidence = draft.evidence \cup {<<doing[p].id, call>>}
      /\ draft' \in RowSets
  BY <1>1, <1>2, <1>3 DEF IInv, TypeOK, RowSets, Row, Jobs
<1>9. collected[doing[p].id] \ j.calls
        = (collected[doing[p].id] \ doing[p].calls) \cup {call}
  BY <1>3, <1>6
<1>10. DraftInv(j)'
  BY <1>1, <1>2, <1>3, <1>6, <1>8, <1>9 DEF DraftInv, histories
<1>11. InTransaction(doing[p]) /\ InTransaction(j) BY <1>2, <1>6 DEF InTransaction, At
<1>12. doing[p].command = j.command BY <1>2, <1>6 DEF At
<1>13. QED BY <1>1, <1>2, <1>6, <1>7, <1>8, <1>10, <1>11, <1>12, Inside

LEMMA DeleteKeeps ==
  ASSUME IInv, NEW p \in Processes, Delete(p)
  PROVE  IInv'
<1> DEFINE next == [doing[p] EXCEPT !.step = "commit"]
<1>1. /\ doing[p] \in Jobs /\ At(p, "remove", "delete")
      /\ draft' = [draft EXCEPT !.reports = @ \ {doing[p].id},
                                !.evidence = {row \in @ : row[1] # doing[p].id}]
      /\ UNCHANGED tables /\ doing' = [doing EXCEPT ![p] = next]
      /\ UNCHANGED <<file, writer>> /\ UNCHANGED histories
  BY DEF IInv, TypeOK, Jobs, Delete, Write, Go
<1>2. draft = tables BY <1>1 DEF IInv, JobInv, DraftInv, At
<1>3. next \in Jobs BY <1>1 DEF Jobs, Steps
<1>4. PICK j \in Jobs : j = next BY <1>3
<1>5. /\ doing' = [doing EXCEPT ![p] = j]
      /\ j.command = "remove" /\ j.step = "commit" /\ j.id = doing[p].id
  BY <1>1, <1>4 DEF Jobs, At
<1>6. draft' \in RowSets BY <1>1, <1>2 DEF IInv, TypeOK, RowSets
<1>7. DraftInv(j)' BY <1>1, <1>2, <1>5 DEF DraftInv, IInv, TypeOK, RowSets
<1>8. InTransaction(doing[p]) /\ InTransaction(j) BY <1>1, <1>5 DEF InTransaction, At
<1>9. doing[p].command = j.command BY <1>1, <1>5 DEF At
<1>10. QED BY <1>1, <1>5, <1>6, <1>7, <1>8, <1>9, Inside

LEMMA BeginKeeps ==
  ASSUME IInv, NEW p \in Processes, BeginAudit(p) \/ BeginAdd(p) \/ BeginRemove(p)
  PROVE  IInv'
<1>1. doing[p] \in Jobs BY DEF IInv, TypeOK, Jobs
<1>2. CASE BeginAudit(p)
  <2> DEFINE j == [doing[p] EXCEPT !.step = "audit"]
  <2>1. /\ Begin(p) /\ doing' = [doing EXCEPT ![p] = j]
        /\ UNCHANGED <<file, tables>> /\ UNCHANGED histories /\ Investigates(p)
    BY <1>2 DEF BeginAudit, Go, At, Investigates
  <2>2. j \in Jobs /\ j.command = "investigate" /\ j.step = "audit" /\ j.id = doing[p].id
    BY <1>1, <2>1 DEF Jobs, Steps, Investigates
  <2>3. QED BY <2>1, <2>2, Beginning
<1>3. CASE BeginAdd(p)
  <2> DEFINE j == [doing[p] EXCEPT !.step = "report"]
  <2>1. /\ Begin(p) /\ doing' = [doing EXCEPT ![p] = j]
        /\ UNCHANGED <<file, tables>> /\ UNCHANGED histories /\ Investigates(p)
    BY <1>3 DEF BeginAdd, Go, At, Investigates
  <2>2. j \in Jobs /\ j.command = "investigate" /\ j.step = "report" /\ j.id = doing[p].id
    BY <1>1, <2>1 DEF Jobs, Steps, Investigates
  <2>3. QED BY <2>1, <2>2, Beginning
<1>4. CASE BeginRemove(p)
  <2>1. PICK i \in Ids : doing' = [doing EXCEPT ![p] =
                            [Idle EXCEPT !.command = "remove", !.step = "delete", !.id = i]]
    BY <1>4 DEF BeginRemove
  <2> DEFINE j == [Idle EXCEPT !.command = "remove", !.step = "delete", !.id = i]
  <2>2. j \in Jobs /\ j.command = "remove" /\ j.step = "delete" /\ j.id \in Ids
    BY DEF Jobs, Steps, Idle
  <2>3. Begin(p) /\ UNCHANGED <<file, tables>> /\ UNCHANGED histories
    BY <1>4 DEF BeginRemove
  <2>4. QED BY <2>1, <2>2, <2>3, Beginning
<1>5. QED BY <1>2, <1>3, <1>4

----------------------------------------------------------------------------
(* The steps that commit nothing and open nothing.                         *)

LEMMA IdleJob ==
  /\ Idle \in Jobs /\ ~InTransaction(Idle)
  /\ Idle.command = "none"
BY DEF Idle, Jobs, Steps, InTransaction

\* p's command ends; what is told of its investigation is not "saved".
LEMMA Ending ==
  ASSUME IInv, NEW p \in Processes, Done(p), UNCHANGED <<tables, draft, collected, trail, removed>>,
         file' \in {"absent", "blank", "ready"}, writer' = writer \/ Rollback(p),
         \/ UNCHANGED told
         \/ Investigates(p) /\ \E m \in Tolds \ {"saved"} : Tell(p, m)
  PROVE  IInv'
<1>1. doing' = [doing EXCEPT ![p] = Idle] BY DEF Done
<1>2. told' \in [Ids -> Tolds] /\ \A i \in Ids : told'[i] = "saved" <=> told[i] = "saved"
  BY DEF IInv, TypeOK, Tolds, Tell, JobInv, Investigates
<1>3. ASSUME NEW q \in Processes \ {p}, Investigates(q) PROVE told'[doing[q].id] = "none"
  <2>1. doing[q].id \in Ids /\ told[doing[q].id] = "none" BY <1>3 DEF IInv, JobInv
  <2>2. Investigates(p) => doing[q].id # doing[p].id
    BY <1>3 DEF IInv, OneInvestigation
  <2>3. QED BY <2>1, <2>2 DEF Tell, IInv, TypeOK
<1>4. writer' \in Processes \cup {None} /\ \A q \in Processes \ {p} : writer = q => writer' = q
  BY DEF Rollback, IInv, TypeOK
<1>5. QED BY <1>1, <1>2, <1>3, <1>4, IdleJob, Quiet

LEMMA SetUpKeeps ==
  ASSUME IInv, NEW p \in Processes, SetUp(p) \/ Open(p) \/ CreateSchema(p) \/ Validate(p)
  PROVE  IInv'
<1>1. /\ doing[p] \in Jobs /\ file \in {"absent", "blank", "ready"}
      /\ told \in [Ids -> Tolds] /\ writer \in Processes \cup {None}
  BY DEF IInv, TypeOK, Jobs, Tolds
<1>2. \A q \in Processes : Investigates(q) => told[doing[q].id] = "none"
  BY DEF IInv, JobInv
<1>3. CASE SetUp(p)
  <2> DEFINE j == [Idle EXCEPT !.command = "setup",
                               !.step = IF file = "absent" THEN "open" ELSE "validate"]
  <2>1. j \in Jobs BY DEF Idle, Jobs, Steps
  <2>2. PICK k \in Jobs : k = j BY <2>1
  <2>3. ~InTransaction(k) /\ k.command = "setup" BY <2>2 DEF Idle, InTransaction
  <2>4. doing' = [doing EXCEPT ![p] = k] /\ UNCHANGED database /\ UNCHANGED histories
    BY <1>3, <2>2 DEF SetUp
  <2>5. QED BY <1>1, <1>2, <2>3, <2>4, Quiet DEF database, histories
<1>4. CASE Open(p)
  <2> DEFINE j == [doing[p] EXCEPT !.step = "create"]
  <2>1. j \in Jobs BY <1>1 DEF Jobs, Steps
  <2>2. PICK k \in Jobs : k = j BY <2>1
  <2>3. ~InTransaction(k) /\ k.command = "setup"
    BY <1>1, <1>4, <2>2 DEF Open, At, Jobs, InTransaction
  <2>4. doing' = [doing EXCEPT ![p] = k] /\ file' \in {"absent", "blank", "ready"}
        /\ UNCHANGED <<tables, draft, writer>> /\ UNCHANGED histories
    BY <1>1, <1>4, <2>2 DEF Open, Go
  <2>5. QED BY <1>1, <1>2, <2>3, <2>4, Quiet DEF histories
<1>5. CASE CreateSchema(p) \/ Validate(p)
  BY <1>1, <1>5, Ending DEF CreateSchema, Validate, database, histories
<1>6. QED BY <1>3, <1>4, <1>5

LEMMA CollectingKeeps ==
  ASSUME IInv, NEW p \in Processes, Investigate(p) \/ AuditFails(p) \/ Show(p)
  PROVE  IInv'
<1>1. /\ doing[p] \in Jobs /\ file \in {"absent", "blank", "ready"}
      /\ told \in [Ids -> Tolds] /\ writer \in Processes \cup {None}
      /\ tables.reports \subseteq Ids
  BY DEF IInv, TypeOK, Jobs, Tolds, RowSets
<1>2. \A q \in Processes : Investigates(q) => told[doing[q].id] = "none"
  BY DEF IInv, JobInv
<1>3. CASE Investigate(p)
  <2>1. PICK i \in Ids : Fresh(i) /\ doing' = [doing EXCEPT ![p] =
               [command |-> "investigate", step |-> "collect", id |-> i, calls |-> Calls]]
    BY <1>3 DEF Investigate
  <2> DEFINE j == [command |-> "investigate", step |-> "collect", id |-> i, calls |-> Calls]
  <2>2. j \in Jobs /\ ~InTransaction(j) /\ j.command = "investigate" /\ j.id = i
    BY DEF Jobs, Steps, InTransaction
  <2>3. told[i] = "none" /\ \A q \in Processes : Investigates(q) => doing[q].id # i
    BY <2>1 DEF Fresh
  <2>4. UNCHANGED database /\ UNCHANGED histories BY <1>3 DEF Investigate
  <2>5. QED BY <1>1, <1>2, <2>1, <2>2, <2>3, <2>4, Quiet DEF database, histories
<1>4. CASE AuditFails(p)
  <2>1. PICK call \in doing[p].calls :
          doing' = [doing EXCEPT ![p].step = "collect", ![p].calls = @ \ {call}]
    BY <1>4 DEF AuditFails
  <2> DEFINE j == [doing[p] EXCEPT !.step = "collect", !.calls = @ \ {call}]
  <2>2. j \in Jobs BY <1>1 DEF Jobs, Steps
  <2>3. PICK k \in Jobs : k = j BY <2>2
  <2>4. k.command = doing[p].command /\ k.step = "collect" /\ k.id = doing[p].id
    BY <1>1, <2>3 DEF Jobs
  <2>5. doing' = [doing EXCEPT ![p] = k] BY <2>1, <2>3
  <2>6. Investigates(p) /\ Rollback(p) /\ UNCHANGED <<file, tables, draft>> /\ UNCHANGED histories
    BY <1>4 DEF AuditFails
  <2>7. ~InTransaction(k) BY <2>4 DEF InTransaction
  <2>8. k.id \in Ids /\ told[k.id] = "none"
        /\ \A q \in Processes \ {p} : Investigates(q) => doing[q].id # k.id
    BY <2>4, <2>6 DEF IInv, JobInv, OneInvestigation
  <2>9. writer' \in Processes \cup {None}
        /\ \A q \in Processes \ {p} : writer = q => writer' = q
    BY <1>1, <2>6 DEF Rollback
  <2>10. k.command = "investigate" BY <2>4, <2>6 DEF Investigates
  <2>11. QED BY <1>1, <1>2, <2>5, <2>6, <2>7, <2>8, <2>9, <2>10, Quiet DEF histories
<1>5. CASE Show(p)
  <2>1. PICK i \in tables.reports : doing' = [doing EXCEPT ![p] =
                [Idle EXCEPT !.command = "show", !.step = "evidence", !.id = i]]
    BY <1>5 DEF Show
  <2> DEFINE j == [Idle EXCEPT !.command = "show", !.step = "evidence", !.id = i]
  <2>2. j \in Jobs /\ ~InTransaction(j) /\ j.command = "show"
    BY <1>1 DEF Jobs, Steps, Idle, InTransaction
  <2>3. UNCHANGED database /\ UNCHANGED histories BY <1>5 DEF Show
  <2>4. QED BY <1>1, <1>2, <2>1, <2>2, <2>3, Quiet DEF database, histories
<1>6. QED BY <1>3, <1>4, <1>5

LEMMA EndsKeep ==
  ASSUME IInv, NEW p \in Processes,
         \/ InsertFails(p) \/ AddRefused(p) \/ TransactionFails(p) \/ RemoveFails(p)
         \/ ShowEvidence(p) \/ Crash(p)
  PROVE  IInv'
<1>1. file \in {"absent", "blank", "ready"} BY DEF IInv, TypeOK
<1>2. {"unsaved", "lost", "crashed"} \subseteq Tolds \ {"saved"} BY DEF Tolds
<1>3. CASE InsertFails(p)
  BY <1>1, <1>2, <1>3, Ending DEF InsertFails
<1>4. CASE AddRefused(p)
  BY <1>1, <1>2, <1>4, Ending DEF AddRefused, At, Investigates, database
<1>5. CASE TransactionFails(p)
  BY <1>1, <1>2, <1>5, Ending DEF TransactionFails
<1>6. CASE RemoveFails(p) \/ ShowEvidence(p)
  BY <1>1, <1>6, Ending DEF RemoveFails, ShowEvidence, database, histories
<1>7. CASE Crash(p)
  BY <1>1, <1>2, <1>7, Ending DEF Crash, Tell
<1>8. QED BY <1>3, <1>4, <1>5, <1>6, <1>7

----------------------------------------------------------------------------
(* HistoryWhole holds in every reachable state: the history is whole       *)
(* whatever the processes of history/ do and wherever they die.            *)
THEOREM AlwaysWhole == Spec => []HistoryWhole
<1>1. Init => IInv
  BY DEF Init, IInv, TypeOK, HistoryWhole, EvidenceOf, OneInvestigation, ReportsAreSaved,
         CollectedIsAudited, JobInv, DraftInv, InTransaction, Investigates, Idle, NoRows, RowSets,
         Steps
<1>2. ASSUME IInv, NEW p \in Processes,
             \/ SetUp(p) \/ Open(p) \/ CreateSchema(p) \/ Validate(p)
             \/ Investigate(p) \/ BeginAudit(p) \/ RecordAudit(p) \/ AuditFails(p)
             \/ BeginAdd(p) \/ InsertReport(p) \/ InsertEvidence(p) \/ CommitAdd(p)
             \/ InsertFails(p) \/ AddRefused(p) \/ TransactionFails(p)
             \/ BeginRemove(p) \/ Delete(p) \/ CommitRemove(p) \/ RemoveFails(p)
             \/ Show(p) \/ ShowEvidence(p) \/ Crash(p)
      PROVE  IInv'
  BY <1>2, SetUpKeeps, CollectingKeeps, EndsKeep, BeginKeeps, RecordAuditKeeps, InsertReportKeeps,
     InsertEvidenceKeeps, CommitAddKeeps, DeleteKeeps, CommitRemoveKeeps
<1>3. IInv /\ UNCHANGED vars => IInv'
  BY DEF vars, IInv, TypeOK, HistoryWhole, EvidenceOf, OneInvestigation, ReportsAreSaved,
         CollectedIsAudited, JobInv, DraftInv, InTransaction, Investigates
<1>4. IInv /\ [Next]_vars => IInv' BY <1>2, <1>3 DEF Next
<1>5. IInv => HistoryWhole BY DEF IInv
<1>6. QED BY <1>1, <1>4, <1>5, PTL DEF Spec
=============================================================================
