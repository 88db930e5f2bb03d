-------------------------- MODULE HistoryDatabase --------------------------
(***************************************************************************)
(* The SQLite history (src/src/netsage/history/) as the commands of several *)
(* processes use it: setup makes the file and its schema, an investigation *)
(* records an audit event per tool call while it runs and then stores its  *)
(* report with its evidence, removal deletes a report, show reads it.  A   *)
(* write transaction takes the database's one writer lock and works on a   *)
(* draft; commit publishes it, an error or a crash drops it.               *)
(***************************************************************************)
EXTENDS Integers, FiniteSets

CONSTANTS Processes,
          Ids,      \* bound: the investigations made, one identifier each
          Calls,    \* the tool calls of an investigation
          None

ASSUME NoneAssumption == None \notin Processes /\ None \notin Ids

VARIABLES file,      \* "absent", "blank" (version 0, no table), "ready"
          tables,    \* what is committed: reports, evidence, audit
          draft,     \* what the open transaction would commit
          writer,    \* the process whose transaction is open, or None
          doing,     \* each process's command, step and data
          collected, \* history: the calls each investigation has evidence of
          trail,     \* history: the audit events NetSage was told are recorded
          removed,   \* history: the reports removed
          told       \* what the user is told of each investigation
vars == <<file, tables, draft, writer, doing, collected, trail, removed, told>>

Row == Ids \X Calls
NoRows == [reports |-> {}, evidence |-> {}, audit |-> {}]
Idle == [command |-> "none", step |-> "none", id |-> None, calls |-> {}]

Init ==
  /\ file = "absent" /\ tables = NoRows /\ draft = NoRows /\ writer = None
  /\ doing = [p \in Processes |-> Idle]
  /\ collected = [i \in Ids |-> {}] /\ trail = {} /\ removed = {}
  /\ told = [i \in Ids |-> "none"]

At(p, command, step) == doing[p].command = command /\ doing[p].step = step
Go(p, step) == doing' = [doing EXCEPT ![p].step = step]
Done(p) == doing' = [doing EXCEPT ![p] = Idle]
Tell(p, message) == told' = [told EXCEPT ![doing[p].id] = message]
database == <<file, tables, draft, writer>>
histories == <<collected, trail, removed, told>>

----------------------------------------------------------------------------
(* HistoryDatabase: initialize, connect, transaction.                      *)

\* exists() is asked before the file is opened, and opening makes it.
SetUp(p) ==
  /\ doing[p] = Idle
  /\ doing' = [doing EXCEPT ![p] = [Idle EXCEPT !.command = "setup",
                 !.step = IF file = "absent" THEN "open" ELSE "validate"]]
  /\ UNCHANGED database /\ UNCHANGED histories

Open(p) ==
  /\ At(p, "setup", "open") /\ Go(p, "create")
  /\ file' = IF file = "absent" THEN "blank" ELSE file
  /\ UNCHANGED <<tables, draft, writer>> /\ UNCHANGED histories

\* _create_schema, one transaction; its tables exist already when another
\* process was first, and the setup fails.
CreateSchema(p) ==
  /\ At(p, "setup", "create") /\ Done(p)
  /\ file' = IF writer = None THEN "ready" ELSE file
  /\ UNCHANGED <<tables, draft, writer>> /\ UNCHANGED histories

\* _validate_schema, by a setup or by connect(): a blank file is refused.
Usable == file = "ready"
Validate(p) ==
  /\ At(p, "setup", "validate") /\ Done(p)
  /\ UNCHANGED database /\ UNCHANGED histories

\* BEGIN IMMEDIATE; a transaction that cannot begin raises, as below.
Begin(p) == Usable /\ writer = None /\ writer' = p /\ draft' = tables
(* Mutant: the connection commits every statement by itself.               *)
Write_Autocommit(rows) == draft' = rows /\ tables' = rows
Write(rows) == draft' = rows /\ UNCHANGED tables
Commit(p) == writer = p /\ writer' = None /\ tables' = draft
Rollback(p) == writer' = IF writer = p THEN None ELSE writer

----------------------------------------------------------------------------
(* An investigation: SQLiteAuditSink.record and the store's add.           *)

Investigates(p) == doing[p].command = "investigate"
Fresh(i) == told[i] = "none" /\ \A p \in Processes : ~(Investigates(p) /\ doing[p].id = i)
Investigate(p) ==
  /\ doing[p] = Idle
  /\ \E i \in Ids : Fresh(i)
       /\ doing' = [doing EXCEPT ![p] = [command |-> "investigate", step |-> "collect",
                                         id |-> i, calls |-> Calls]]
  /\ UNCHANGED database /\ UNCHANGED histories

\* One audit event; a call gives evidence only once its event is recorded.
BeginAudit(p) ==
  /\ At(p, "investigate", "collect") /\ doing[p].calls # {} /\ Begin(p) /\ Go(p, "audit")
  /\ UNCHANGED <<file, tables>> /\ UNCHANGED histories

RecordAudit(p) ==
  /\ At(p, "investigate", "audit")
  /\ \E call \in doing[p].calls :
       LET event == <<doing[p].id, call>> IN
       /\ writer = p /\ writer' = None
       /\ tables' = [draft EXCEPT !.audit = @ \cup {event}]
       /\ trail' = trail \cup {event}
       /\ \/ collected' = [collected EXCEPT ![doing[p].id] = @ \cup {call}]
          \/ UNCHANGED collected   \* the call failed, or its result is no evidence
       /\ doing' = [doing EXCEPT ![p].step = "collect", ![p].calls = @ \ {call}]
  /\ UNCHANGED <<file, draft, removed, told>>

\* A locked database or a failed statement: the call fails closed, and the
\* investigation goes on without its evidence.
AuditFails(p) ==
  /\ Investigates(p) /\ doing[p].step \in {"collect", "audit"}
  /\ \E call \in doing[p].calls :
       doing' = [doing EXCEPT ![p].step = "collect", ![p].calls = @ \ {call}]
  /\ Rollback(p)
  /\ UNCHANGED <<file, tables, draft>> /\ UNCHANGED histories

BeginAdd(p) ==
  /\ At(p, "investigate", "collect") /\ doing[p].calls = {} /\ Begin(p) /\ Go(p, "report")
  /\ UNCHANGED <<file, tables>> /\ UNCHANGED histories

InsertReport(p) ==
  /\ At(p, "investigate", "report")
  /\ Write([draft EXCEPT !.reports = @ \cup {doing[p].id}])
  /\ doing' = [doing EXCEPT ![p].step = "evidence", ![p].calls = collected[doing[p].id]]
  /\ UNCHANGED <<file, writer>> /\ UNCHANGED histories

InsertEvidence(p) ==
  /\ At(p, "investigate", "evidence")
  /\ \E call \in doing[p].calls :
       /\ Write([draft EXCEPT !.evidence = @ \cup {<<doing[p].id, call>>}])
       /\ doing' = [doing EXCEPT ![p].calls = @ \ {call}]
  /\ UNCHANGED <<file, writer>> /\ UNCHANGED histories

CommitAdd(p) ==
  /\ At(p, "investigate", "evidence") /\ doing[p].calls = {}
  /\ Commit(p) /\ Done(p) /\ Tell(p, "saved")
  /\ UNCHANGED <<file, draft, collected, trail, removed>>

\* A statement refused by the store is a HistoryError or a ValueError, and
\* the completed report is shown with it.
InsertFails(p) ==
  /\ Investigates(p) /\ doing[p].step \in {"report", "evidence"}
  /\ Rollback(p) /\ Done(p) /\ Tell(p, "unsaved")
  /\ UNCHANGED <<file, tables, draft, collected, trail, removed>>

\* No connection, or references that do not match: refused before BEGIN.
AddRefused(p) ==
  /\ At(p, "investigate", "collect") /\ doing[p].calls = {}
  /\ Done(p) /\ Tell(p, "unsaved")
  /\ UNCHANGED database /\ UNCHANGED <<collected, trail, removed>>

\* BEGIN on a locked database, or COMMIT, raises an error of sqlite3 that
\* nobody translates: the report is not shown.
TransactionFails(p) ==
  /\ Investigates(p) /\ doing[p].step \in {"collect", "evidence"}
  /\ doing[p].calls = {}
  /\ doing[p].step = "collect" => Usable
  /\ Rollback(p) /\ Done(p) /\ Tell(p, "lost")
  /\ UNCHANGED <<file, tables, draft, collected, trail, removed>>

----------------------------------------------------------------------------
(* Removal and show.                                                       *)

BeginRemove(p) ==
  /\ doing[p] = Idle /\ Begin(p)
  /\ \E i \in Ids : doing' = [doing EXCEPT ![p] =
                       [Idle EXCEPT !.command = "remove", !.step = "delete", !.id = i]]
  /\ UNCHANGED <<file, tables>> /\ UNCHANGED histories

\* The evidence goes with its report, the audit events stay.
Delete(p) ==
  /\ At(p, "remove", "delete") /\ doing[p].id \in draft.reports
  /\ Write([draft EXCEPT !.reports = @ \ {doing[p].id},
                         !.evidence = {row \in @ : row[1] # doing[p].id}])
  /\ Go(p, "commit")
  /\ UNCHANGED <<file, writer>> /\ UNCHANGED histories

CommitRemove(p) ==
  /\ At(p, "remove", "commit") /\ Commit(p) /\ Done(p)
  /\ removed' = removed \cup {doing[p].id}
  /\ UNCHANGED <<file, draft, collected, trail, told>>

\* Nothing to remove, or an error: the draft is dropped.
RemoveFails(p) ==
  /\ doing[p].command = "remove" /\ Rollback(p) /\ Done(p)
  /\ UNCHANGED <<file, tables, draft>> /\ UNCHANGED histories

\* Two connections: the report, then its evidence.
Show(p) ==
  /\ doing[p] = Idle /\ Usable
  /\ \E i \in tables.reports : doing' = [doing EXCEPT ![p] =
                                [Idle EXCEPT !.command = "show", !.step = "evidence", !.id = i]]
  /\ UNCHANGED database /\ UNCHANGED histories

ShowEvidence(p) ==
  /\ At(p, "show", "evidence") /\ Done(p)
  /\ UNCHANGED database /\ UNCHANGED histories

Crash(p) ==
  /\ doing[p] # Idle /\ Rollback(p) /\ Done(p)
  /\ told' = IF Investigates(p) THEN [told EXCEPT ![doing[p].id] = "crashed"] ELSE told
  /\ UNCHANGED <<file, tables, draft, collected, trail, removed>>

Next == \E p \in Processes :
  \/ SetUp(p) \/ Open(p) \/ CreateSchema(p) \/ Validate(p)
  \/ Investigate(p) \/ BeginAudit(p) \/ RecordAudit(p) \/ AuditFails(p)
  \/ BeginAdd(p) \/ InsertReport(p) \/ InsertEvidence(p) \/ CommitAdd(p)
  \/ InsertFails(p) \/ AddRefused(p) \/ TransactionFails(p)
  \/ BeginRemove(p) \/ Delete(p) \/ CommitRemove(p) \/ RemoveFails(p)
  \/ Show(p) \/ ShowEvidence(p) \/ Crash(p)

Spec == Init /\ [][Next]_vars

----------------------------------------------------------------------------
Steps == {"none", "open", "create", "validate", "collect", "audit", "report", "evidence",
          "delete", "commit"}
RowSets == [reports : SUBSET Ids, evidence : SUBSET Row, audit : SUBSET Row]
TypeOK ==
  /\ file \in {"absent", "blank", "ready"}
  /\ tables \in RowSets /\ draft \in RowSets /\ writer \in Processes \cup {None}
  /\ doing \in [Processes -> [command : {"none", "setup", "investigate", "remove", "show"},
                              step : Steps, id : Ids \cup {None}, calls : SUBSET Calls]]
  /\ collected \in [Ids -> SUBSET Calls] /\ trail \subseteq Row /\ removed \subseteq Ids
  /\ told \in [Ids -> {"none", "saved", "unsaved", "lost", "crashed"}]

EvidenceOf(rows, i) == {call \in Calls : <<i, call>> \in rows.evidence}

(* Whatever process fails or dies at whatever step, and whatever runs      *)
(* beside it, what is committed is whole: a report has the evidence its    *)
(* investigation collected and no evidence lacks its report, the audit     *)
(* event of every piece of evidence is there, no recorded audit event is   *)
(* ever lost, removal included, and a report the user was told is saved is *)
(* there until it is removed (docs/history.md; database.py, transaction;   *)
(* investigations.py, add and remove).                                     *)
HistoryWhole ==
  /\ \A i \in Ids : EvidenceOf(tables, i) = IF i \in tables.reports THEN collected[i] ELSE {}
  /\ trail \subseteq tables.audit /\ tables.evidence \subseteq tables.audit
  /\ \A i \in Ids : told[i] = "saved" => i \in tables.reports \cup removed
=============================================================================
