-------------------------- MODULE CodexTokens_proofs --------------------------
(***************************************************************************)
(* Proofs about CodexTokens, for any number of tasks, processes, chunks,   *)
(* commands, faults and stops.  The invariant IInv is about one job at a   *)
(* time (JobInv), about two (PairInv) and about the store (StoreInv); what *)
(* makes it inductive is that the generation of an unfinished save is      *)
(* known to nobody but its own task.                                       *)
(*                                                                         *)
(* The last two parts are about the tasks of one process (OneProcess):     *)
(* what a reader gets whatever fails (ReadInvariant), and, while nothing   *)
(* fails, that the stored token is the server's and the keyring is tidy    *)
(* (FaultlessInvariant).                                                   *)
(***************************************************************************)
EXTENDS CodexTokens, TLAPS

Pending == {"save.chunk", "save.pointer", "save.undo"}

JobInv(j) ==
    /\ j.generation <= Len(contents)
    /\ j.previous # None => j.previous.generation <= Len(contents)
    /\ j.at \in {"load.chunk", "loaded"} => j.generation # 0
    /\ j.at \in {"delete.chunk", "delete.pointer"} => j.generation \in leaving
    /\ j.at \in Pending =>
        /\ j.generation # 0
        /\ j.generation \notin leaving
        /\ pointer # None => pointer.generation # j.generation
    /\ j.at = "save.chunk" =>
        /\ j.index \in 1..j.chunks
        /\ \A i \in 1..(j.index - 1) : <<j.generation, i>> \in records
    /\ j.at = "save.pointer" => \A i \in 1..j.chunks : <<j.generation, i>> \in records
    /\ j.at = "save.clean" =>
        /\ j.previous # None
        /\ pointer # None => pointer.generation # j.previous.generation

(* j's generation is not one that k has found in the pointer. *)
PairInv(j, k) ==
    j.at \in Pending /\ k.previous # None => k.previous.generation # j.generation

OwnGenerations ==
    \A t, u \in Tasks :
        t # u /\ jobs[t].at \in Pending /\ jobs[u].at \in Pending
            => jobs[t].generation # jobs[u].generation

StoreInv ==
    /\ pointer # None => pointer.generation <= Len(contents)
    /\ \A g \in leaving : g <= Len(contents)
    /\ ActiveIsWhole

IInv ==
    /\ TypeOK
    /\ StoreInv
    /\ \A t \in Tasks : JobInv(jobs[t])
    /\ \A t, u \in Tasks : PairInv(jobs[t], jobs[u])
    /\ OwnGenerations

Counts == [jobs : Nat, faults : Nat, stops : Nat]

-----------------------------------------------------------------------------
(* A step that changes one job, to one that is not saving, and leaves the  *)
(* keyring alone.                                                          *)
LEMMA Quiet ==
    ASSUME IInv, NEW t \in Tasks, NEW j \in Jobs,
           jobs' = [jobs EXCEPT ![t] = j],
           UNCHANGED <<pointer, records, contents, leaving>>,
           live' \subseteq Nat, issued' \in Nat, count' \in Counts,
           JobInv(j), j.at \notin Pending,
           j.previous = None \/ j.previous = jobs[t].previous
    PROVE  IInv'
<1>1. TypeOK'
    BY DEF IInv, TypeOK, Counts
<1>2. StoreInv'
    BY DEF IInv, StoreInv, ActiveIsWhole, ChunksOf
<1>3. \A u \in Tasks : JobInv(jobs[u])'
    BY DEF IInv, TypeOK, JobInv
<1>4. \A u, w \in Tasks : PairInv(jobs[u], jobs[w])'
    BY DEF IInv, TypeOK, PairInv
<1>5. OwnGenerations'
    BY DEF IInv, TypeOK, OwnGenerations
<1>6. QED
    BY <1>1, <1>2, <1>3, <1>4, <1>5 DEF IInv

LEMMA NoJobType == NoJob \in Jobs
<1>1. 0 \in 0..MaxChunks
    BY TokensAssumption
<1>2. QED
    BY <1>1 DEF NoJob, Jobs, Steps, Settled, Kinds

(* A command that ends. *)
LEMMA SettleKeeps ==
    ASSUME IInv, NEW t \in Tasks, NEW result \in Settled, Settle(t, result),
           UNCHANGED <<pointer, records, contents, leaving>>,
           live' \subseteq Nat, issued' \in Nat, count' \in Counts
    PROVE  IInv'
<1> DEFINE j == [NoJob EXCEPT !.at = result, !.kind = jobs[t].kind,
                              !.generation = jobs[t].generation]
<1>1. jobs[t] \in Jobs /\ JobInv(jobs[t])
    BY DEF IInv, TypeOK
<1>2. j \in Jobs
    BY <1>1, NoJobType DEF Jobs, Steps
<1>3. JobInv(j)
  <2>1. /\ j.at = result /\ j.previous = None /\ j.generation = jobs[t].generation
        /\ result \notin Pending
        /\ result \notin {"load.chunk", "loaded", "delete.chunk", "delete.pointer",
                         "save.chunk", "save.pointer", "save.clean"}
      BY DEF NoJob, Settled, Pending
  <2>2. QED
      BY <1>1, <2>1 DEF JobInv
<1>4. j.at \notin Pending /\ j.previous = None
    BY DEF NoJob, Settled, Pending
<1>5. QED
    BY <1>2, <1>3, <1>4, Quiet DEF Settle, Update

(* A command that goes on, outside save.chunk, save.pointer and save.undo. *)
LEMMA GotoKeeps ==
    ASSUME IInv, NEW t \in Tasks, NEW step \in {"load.begin", "save.begin", "login.choose"},
           Goto(t, step),
           UNCHANGED <<pointer, records, contents, leaving>>,
           live' \subseteq Nat, issued' \in Nat, count' \in Counts
    PROVE  IInv'
<1> DEFINE j == [jobs[t] EXCEPT !.at = step]
<1>1. jobs[t] \in Jobs /\ JobInv(jobs[t])
    BY DEF IInv, TypeOK
<1>2. j \in Jobs
    BY <1>1 DEF Jobs, Steps
<1>3. JobInv(j) /\ j.at \notin Pending /\ j.previous = jobs[t].previous
    BY <1>1 DEF JobInv, Pending, Jobs
<1>4. QED
    BY <1>2, <1>3, Quiet DEF Goto, Update

LEMMA StartKeeps ==
    ASSUME IInv, NEW t \in Tasks, NEW kind \in Kinds,
           NEW step \in {"save.begin", "load.begin", "lock", "delete.begin"},
           NEW token \in Nat, Start(t, kind, step, token),
           live' \subseteq Nat, issued' \in Nat
    PROVE  IInv'
<1> DEFINE j == [NoJob EXCEPT !.at = step, !.kind = kind, !.token = token]
<1>1. j \in Jobs
    BY NoJobType DEF Jobs, Steps
<1>2. JobInv(j) /\ j.at \notin Pending /\ j.previous = None
  <2>1. j.at = step /\ j.previous = None /\ j.generation = 0 /\ step \notin Pending
      BY DEF NoJob, Pending
  <2>2. 0 <= Len(contents)
      BY DEF IInv, TypeOK
  <2>3. QED
      BY <2>1, <2>2 DEF JobInv
<1>3. count' \in Counts
    BY DEF Start, IInv, TypeOK, Counts
<1>4. QED
    BY <1>1, <1>2, <1>3, Quiet DEF Start, Update

(* What a step of one of the shapes leaves alone, and its types. *)
LEMMA ReadsOnly ==
    ASSUME IInv, OnlyReads
    PROVE  /\ UNCHANGED <<pointer, records, contents, leaving>>
           /\ live' \subseteq Nat /\ issued' \in Nat /\ count' \in Counts
BY DEF OnlyReads, KeyringOnly, IInv, TypeOK, Counts

LEMMA RaisesOnly ==
    ASSUME IInv, Fault, UNCHANGED <<pointer, records, contents, live, issued, leaving>>
    PROVE  /\ UNCHANGED <<pointer, records, contents, leaving>>
           /\ live' \subseteq Nat /\ issued' \in Nat /\ count' \in Counts
BY DEF Fault, IInv, TypeOK, Counts

-----------------------------------------------------------------------------
(* The steps that only read the keyring, one lemma per operation.          *)

LEMMA CommandKeeps ==
    ASSUME IInv, NEW t \in Tasks, Command(t)
    PROVE  IInv'
<1>1. issued \in Nat /\ live \subseteq Nat /\ issued + 1 \in Nat
    BY DEF IInv, TypeOK
<1>2. CASE BeginLogin(t)
  <2>1. live' \subseteq Nat /\ issued' \in Nat
      BY <1>1, <1>2 DEF BeginLogin
  <2>2. Start(t, "login", "save.begin", issued + 1)
      BY <1>2 DEF BeginLogin
  <2>3. QED
      BY <1>1, <2>1, <2>2, StartKeeps DEF Kinds
<1>3. CASE ChooseProvider(t)
    BY <1>3, ReadsOnly, SettleKeeps DEF ChooseProvider, Settled
<1>4. CASE CancelLogin(t)
  <2>1. count' \in Counts
    <3>1. count \in Counts
        BY DEF IInv, TypeOK, Counts
    <3>2. count' = [count EXCEPT !.stops = @ + 1]
        BY <1>4 DEF CancelLogin, Stop
    <3>3. QED
        BY <3>1, <3>2 DEF Counts
  <2>2. QED
      BY <1>1, <1>4, <2>1, SettleKeeps DEF CancelLogin, Stop, Settled
<1>5. CASE BeginStatus(t)
    BY <1>1, <1>5, StartKeeps DEF BeginStatus, Kinds
<1>6. CASE ReportStatus(t)
    BY <1>6, ReadsOnly, SettleKeeps DEF ReportStatus, Settled
<1>7. CASE BeginUse(t)
    BY <1>1, <1>7, StartKeeps DEF BeginUse, Kinds
<1>8. CASE BeginLogout(t)
    BY <1>1, <1>8, StartKeeps DEF BeginLogout, Kinds
<1>9. QED
    BY <1>2, <1>3, <1>4, <1>5, <1>6, <1>7, <1>8 DEF Command

(* Reading the pointer or a chunk. *)
LEMMA LoadKeeps ==
    ASSUME IInv, NEW t \in Tasks, LoadPointer(t) \/ LoadChunk(t)
    PROVE  IInv'
<1>1. jobs[t] \in Jobs /\ JobInv(jobs[t])
    BY DEF IInv, TypeOK
<1>2. CASE KeyringRaises(Settle(t, "failed"))
    BY <1>2, RaisesOnly, SettleKeeps DEF KeyringRaises, Settled
<1>3. CASE LoadPointer(t) /\ pointer # None /\ ~KeyringRaises(Settle(t, "failed"))
  <2> DEFINE j == [jobs[t] EXCEPT !.at = IF pointer.chunks = 0 THEN "loaded" ELSE "load.chunk",
                                  !.generation = pointer.generation,
                                  !.chunks = pointer.chunks, !.index = 1]
  <2>1. CASE jobs' = [jobs EXCEPT ![t] = j] /\ OnlyReads
    <3>1. pointer \in Manifests /\ pointer.generation <= Len(contents)
        BY <1>3 DEF IInv, TypeOK, StoreInv
    <3>2. pointer.generation \in Nat \ {0} /\ pointer.chunks \in 0..MaxChunks
        BY <3>1 DEF Manifests
    <3>3. j \in Jobs
        BY <1>1, <3>2 DEF Jobs, Steps
    <3>4. JobInv(j) /\ j.at \notin Pending /\ j.previous = jobs[t].previous
        BY <1>1, <3>1, <3>2 DEF JobInv, Pending, Jobs
    <3>5. QED
        BY <2>1, <3>3, <3>4, ReadsOnly, Quiet
  <2>2. QED
      BY <1>3, <2>1 DEF LoadPointer, Update
<1>4. CASE OnlyReads /\ (Settle(t, "unauthenticated") \/ Settle(t, "torn"))
    BY <1>4, ReadsOnly, SettleKeeps DEF Settled
<1>5. CASE At(t, "load.chunk") /\ OnlyReads /\ NextChunk(t, "loaded")
  <2> DEFINE j == [jobs[t] EXCEPT !.index = @ + 1,
                                  !.at = IF jobs[t].index < jobs[t].chunks THEN @ ELSE "loaded"]
  <2>1. j \in Jobs
    <3>1. jobs[t].at = "load.chunk" /\ jobs[t].index + 1 \in Nat
        BY <1>1, <1>5 DEF At, Jobs
    <3>2. (IF jobs[t].index < jobs[t].chunks THEN jobs[t].at ELSE "loaded") \in Steps
        BY <3>1 DEF Steps
    <3>3. QED
        BY <1>1, <3>1, <3>2 DEF Jobs
  <2>2. /\ j.generation = jobs[t].generation /\ j.previous = jobs[t].previous
        /\ j.at \in {"load.chunk", "loaded"}
      BY <1>1, <1>5 DEF At, Jobs
  <2>3. JobInv(j) /\ j.at \notin Pending
      BY <1>1, <1>5, <2>2 DEF JobInv, Pending, At
  <2>4. QED
      BY <1>5, <2>1, <2>2, <2>3, ReadsOnly, Quiet DEF NextChunk, Update
<1>6. QED
    BY <1>2, <1>3, <1>4, <1>5 DEF LoadPointer, LoadChunk

(* The refresh: live and issued change, the keyring does not. *)
LEMMA ValidTokensKeeps ==
    ASSUME IInv, NEW t \in Tasks, ValidTokens(t)
    PROVE  IInv'
<1>1. /\ jobs[t] \in Jobs /\ JobInv(jobs[t]) /\ issued + 1 \in Nat /\ live \subseteq Nat
      /\ count \in Counts
    BY DEF IInv, TypeOK, Counts
<1>3. CASE TakeLock(t) \/ RefreshKeeps(t)
    BY <1>3, ReadsOnly, GotoKeeps DEF TakeLock, RefreshKeeps
<1>4. CASE RefreshRejected(t)
    BY <1>4, ReadsOnly, SettleKeeps DEF RefreshRejected, Settled
<1>5. CASE RefreshLost(t)
  <2>1. count' \in Counts /\ Settle(t, "failed")
      BY <1>1, <1>5 DEF RefreshLost, Fault, Counts
  <2>2. /\ UNCHANGED <<pointer, records, contents, leaving>>
        /\ live' \subseteq Nat /\ issued' \in Nat
      BY <1>1, <1>5 DEF RefreshLost, Exchange, IInv, TypeOK
  <2>3. QED
      BY <2>1, <2>2, SettleKeeps DEF Settled
<1>6. CASE UseLoaded(t)
  <2>1. CASE Settle(t, "ok") \/ Settle(t, "failed")
      BY <1>6, <2>1, ReadsOnly, SettleKeeps DEF UseLoaded, Settled
  <2> DEFINE j == [jobs[t] EXCEPT !.at = "refresh", !.token = contents[jobs[t].generation]]
  <2>2. CASE jobs' = [jobs EXCEPT ![t] = j]
    <3>1. contents \in Seq(Nat) /\ jobs[t].generation \in 1..Len(contents)
        BY <1>1, <1>6 DEF UseLoaded, At, JobInv, Jobs, IInv, TypeOK
    <3>2. contents[jobs[t].generation] \in Nat
        BY <3>1
    <3>3. j \in Jobs
        BY <1>1, <3>2 DEF Jobs, Steps
    <3>4. JobInv(j) /\ j.at \notin Pending /\ j.previous = jobs[t].previous
        BY <1>1 DEF JobInv, Pending, Jobs
    <3>5. QED
        BY <1>6, <2>2, <3>3, <3>4, ReadsOnly, Quiet DEF UseLoaded
  <2>3. QED
      BY <1>6, <2>1, <2>2 DEF UseLoaded, Update
<1>7. CASE RefreshRotates(t)
  <2> DEFINE j == [jobs[t] EXCEPT !.at = "save.begin", !.token = issued + 1]
  <2>1. jobs' = [jobs EXCEPT ![t] = j] /\ count' \in Counts
      BY <1>1, <1>7 DEF RefreshRotates, Exchange, Update
  <2>2. /\ UNCHANGED <<pointer, records, contents, leaving>>
        /\ live' \subseteq Nat /\ issued' \in Nat
      BY <1>1, <1>7 DEF RefreshRotates, Exchange
  <2>3. j \in Jobs
      BY <1>1 DEF Jobs, Steps
  <2>4. JobInv(j) /\ j.at \notin Pending /\ j.previous = jobs[t].previous
      BY <1>1 DEF JobInv, Pending, Jobs
  <2>5. QED
      BY <2>1, <2>2, <2>3, <2>4, Quiet
<1>8. QED
    BY <1>3, <1>4, <1>5, <1>6, <1>7 DEF ValidTokens

-----------------------------------------------------------------------------
(* The steps that change the keyring.                                      *)

(* A step that removes no record of a generation which is active or being  *)
(* written by another task.                                                *)
LEMMA Removal ==
    ASSUME IInv, NEW t \in Tasks, NEW j \in Jobs,
           jobs' = [jobs EXCEPT ![t] = j],
           records' \subseteq records,
           UNCHANGED <<pointer, contents, leaving>>,
           live' \subseteq Nat, issued' \in Nat, count' \in Counts,
           pointer # None /\ pointer.generation \notin leaving =>
               \A i \in 1..pointer.chunks :
                   <<pointer.generation, i>> \in records => <<pointer.generation, i>> \in records',
           \A u \in Tasks : u # t /\ jobs[u].at \in Pending =>
               \A i \in Nat :
                   <<jobs[u].generation, i>> \in records => <<jobs[u].generation, i>> \in records',
           JobInv(j), j.at \notin {"save.chunk", "save.pointer"},
           j.at \in Pending => jobs[t].at \in Pending /\ j.generation = jobs[t].generation,
           j.previous = None \/ j.previous = jobs[t].previous
    PROVE  IInv'
<1>1. TypeOK'
    BY DEF IInv, TypeOK, Counts
<1>2. StoreInv'
  <2>1. ActiveIsWhole'
    <3> SUFFICES ASSUME pointer # None, pointer.generation \notin leaving,
                        NEW i \in 1..pointer.chunks
                 PROVE  <<pointer.generation, i>> \in records'
        BY DEF ActiveIsWhole, ChunksOf
    <3>1. <<pointer.generation, i>> \in records
        BY DEF IInv, StoreInv, ActiveIsWhole, ChunksOf
    <3>2. QED
        BY <3>1
  <2>2. QED
      BY <2>1 DEF IInv, StoreInv
<1>3. \A u \in Tasks : JobInv(jobs[u])'
  <2> SUFFICES ASSUME NEW u \in Tasks PROVE JobInv(jobs[u])'
      OBVIOUS
  <2>1. CASE u = t
    <3>1. jobs'[u] = j
        BY <2>1 DEF IInv, TypeOK
    <3>2. QED
        BY <3>1 DEF JobInv
  <2>2. CASE u # t
    <3>1. jobs'[u] = jobs[u] /\ JobInv(jobs[u]) /\ jobs[u] \in Jobs
        BY <2>2 DEF IInv, TypeOK
    <3>2. \A i \in 1..(jobs[u].index - 1) : i \in Nat
        BY <3>1 DEF Jobs
    <3>3. \A i \in 1..jobs[u].chunks : i \in Nat
        BY <3>1 DEF Jobs
    <3>4. jobs[u].at \in Pending => \A i \in Nat :
              <<jobs[u].generation, i>> \in records => <<jobs[u].generation, i>> \in records'
        BY <2>2
    <3>5. QED
        BY <3>1, <3>2, <3>3, <3>4 DEF JobInv, Pending
  <2>3. QED
      BY <2>1, <2>2
<1>4. \A u, w \in Tasks : PairInv(jobs[u], jobs[w])'
    BY DEF IInv, TypeOK, PairInv
<1>5. OwnGenerations'
    BY DEF IInv, TypeOK, OwnGenerations
<1>6. QED
    BY <1>1, <1>2, <1>3, <1>4, <1>5 DEF IInv

(* A clean-up step deletes its record, or fails without saying so. *)
LEMMA CleanUpOnly ==
    ASSUME IInv, \/ UNCHANGED pointer /\ KeyringOnly
                 \/ Fault /\ UNCHANGED <<pointer, records, contents, live, issued, leaving>>
    PROVE  /\ UNCHANGED <<pointer, contents, leaving>>
           /\ live' \subseteq Nat /\ issued' \in Nat /\ count' \in Counts
BY DEF KeyringOnly, Fault, IInv, TypeOK, Counts

(* The previous generation is neither active nor being written. *)
LEMMA CleanPreviousKeeps ==
    ASSUME IInv, NEW t \in Tasks, CleanPrevious(t)
    PROVE  IInv'
<1>1. /\ jobs[t] \in Jobs /\ JobInv(jobs[t]) /\ jobs[t].at = "save.clean"
      /\ jobs[t].previous \in Manifests
    BY DEF IInv, TypeOK, JobInv, CleanPrevious, At, Jobs
<1>2. CASE Saved(t) /\ OnlyReads
    BY <1>2, ReadsOnly, SettleKeeps, GotoKeeps DEF Saved, Settled
<1> DEFINE i == jobs[t].index
           record == <<jobs[t].previous.generation, i>>
           j == [jobs[t] EXCEPT !.index = i + 1]
<1>3. CASE DeleteQuietly(record, jobs' = [jobs EXCEPT ![t] = j])
  <2>1. j \in Jobs
      BY <1>1 DEF Jobs
  <2>2. JobInv(j) /\ j.at = "save.clean" /\ j.previous = jobs[t].previous
      BY <1>1 DEF JobInv, Pending, Jobs
  <2>3. pointer # None => \A k \in 1..pointer.chunks : record # <<pointer.generation, k>>
      BY <1>1 DEF JobInv
  <2>4. \A u \in Tasks : jobs[u].at \in Pending =>
            \A k \in Nat : record # <<jobs[u].generation, k>>
      BY <1>1, TokensAssumption DEF IInv, PairInv
  <2>5. /\ records' \in {records, records \ {record}}
        /\ jobs' = [jobs EXCEPT ![t] = j]
        /\ \/ UNCHANGED pointer /\ KeyringOnly
           \/ Fault /\ UNCHANGED <<pointer, records, contents, live, issued, leaving>>
      BY <1>3 DEF DeleteQuietly, KeyringRaises
  <2>6. j.at \notin Pending /\ j.at \notin {"save.chunk", "save.pointer"}
      BY <2>2 DEF Pending
  <2>7. /\ UNCHANGED <<pointer, contents, leaving>>
        /\ live' \subseteq Nat /\ issued' \in Nat /\ count' \in Counts
      BY <2>5, CleanUpOnly
  <2> HIDE DEF j, record
  <2>8. QED
      BY <2>1, <2>2, <2>3, <2>4, <2>5, <2>6, <2>7, Removal
<1>4. QED
    BY <1>2, <1>3 DEF CleanPrevious, Update

(* The generation of a save that failed is known to this task only. *)
LEMMA UndoChunksKeeps ==
    ASSUME IInv, NEW t \in Tasks, UndoChunks(t)
    PROVE  IInv'
<1>1. jobs[t] \in Jobs /\ JobInv(jobs[t]) /\ jobs[t].at = "save.undo"
    BY DEF IInv, TypeOK, UndoChunks, At
<1>2. CASE Settle(t, "failed") /\ OnlyReads
    BY <1>2, ReadsOnly, SettleKeeps DEF Settled
<1> DEFINE i == jobs[t].index
           record == <<jobs[t].generation, i>>
           j == [jobs[t] EXCEPT !.index = i + 1]
<1>3. CASE DeleteQuietly(record, jobs' = [jobs EXCEPT ![t] = j])
  <2>1. j \in Jobs
      BY <1>1 DEF Jobs
  <2>2. /\ JobInv(j) /\ j.at = "save.undo" /\ j.previous = jobs[t].previous
        /\ j.generation = jobs[t].generation
      BY <1>1 DEF JobInv, Pending, Jobs
  <2>3. pointer # None => \A k \in 1..pointer.chunks : record # <<pointer.generation, k>>
      BY <1>1 DEF JobInv, Pending
  <2>4. \A u \in Tasks : u # t /\ jobs[u].at \in Pending =>
            \A k \in Nat : record # <<jobs[u].generation, k>>
      BY <1>1 DEF IInv, OwnGenerations, Pending
  <2>5. /\ records' \in {records, records \ {record}}
        /\ jobs' = [jobs EXCEPT ![t] = j]
        /\ \/ UNCHANGED pointer /\ KeyringOnly
           \/ Fault /\ UNCHANGED <<pointer, records, contents, live, issued, leaving>>
      BY <1>3 DEF DeleteQuietly, KeyringRaises
  <2>6. jobs[t].at \in Pending /\ j.at \notin {"save.chunk", "save.pointer"}
      BY <1>1, <2>2 DEF Pending
  <2>7. /\ UNCHANGED <<pointer, contents, leaving>>
        /\ live' \subseteq Nat /\ issued' \in Nat /\ count' \in Counts
      BY <2>5, CleanUpOnly
  <2> HIDE DEF j, record
  <2>8. QED
      BY <2>1, <2>2, <2>3, <2>4, <2>5, <2>6, <2>7, Removal
<1>4. QED
    BY <1>2, <1>3 DEF UndoChunks, Update

(* A logout removes chunks only of the generation it set out to remove. *)
LEMMA DeleteChunkKeeps ==
    ASSUME IInv, NEW t \in Tasks, DeleteChunk(t)
    PROVE  IInv'
<1>1. /\ jobs[t] \in Jobs /\ JobInv(jobs[t]) /\ jobs[t].at = "delete.chunk"
      /\ jobs[t].generation \in leaving
    BY DEF IInv, TypeOK, JobInv, DeleteChunk, At
<1>2. CASE Settle(t, "failed") /\ OnlyReads
    BY <1>2, ReadsOnly, SettleKeeps DEF Settled
<1>3. CASE KeyringRaises(Settle(t, "failed"))
    BY <1>3, RaisesOnly, SettleKeeps DEF KeyringRaises, Settled
<1> DEFINE record == <<jobs[t].generation, jobs[t].index>>
           j == [jobs[t] EXCEPT
                    !.index = @ + 1,
                    !.at = IF jobs[t].index < jobs[t].chunks THEN @ ELSE "delete.pointer"]
<1>4. CASE /\ records' = records \ {record}
           /\ jobs' = [jobs EXCEPT ![t] = j]
           /\ UNCHANGED pointer /\ KeyringOnly
  <2>1. /\ j.at \in {"delete.chunk", "delete.pointer"}
        /\ j.generation = jobs[t].generation /\ j.previous = jobs[t].previous
      BY <1>1 DEF Jobs
  <2>2. j \in Jobs
    <3>1. (IF jobs[t].index < jobs[t].chunks THEN jobs[t].at ELSE "delete.pointer") \in Steps
        BY <1>1 DEF Steps
    <3>2. jobs[t].index + 1 \in Nat
        BY <1>1 DEF Jobs
    <3>3. QED
        BY <1>1, <3>1, <3>2 DEF Jobs
  <2>3. JobInv(j) /\ j.at \notin Pending
      BY <1>1, <2>1 DEF JobInv, Pending
  <2>4. pointer # None /\ pointer.generation \notin leaving
            => \A k \in 1..pointer.chunks : record # <<pointer.generation, k>>
      BY <1>1
  <2>5. \A u \in Tasks : jobs[u].at \in Pending =>
            \A k \in Nat : record # <<jobs[u].generation, k>>
      BY <1>1 DEF IInv, JobInv
  <2>6. /\ UNCHANGED <<pointer, contents, leaving>>
        /\ live' \subseteq Nat /\ issued' \in Nat /\ count' \in Counts
      BY <1>4 DEF KeyringOnly, IInv, TypeOK, Counts
  <2>7. j.at \notin {"save.chunk", "save.pointer"}
      BY <2>1
  <2>8. jobs' = [jobs EXCEPT ![t] = j] /\ records' \in {records, records \ {record}}
      BY <1>4
  <2> HIDE DEF j, record
  <2>9. QED
      BY <2>1, <2>2, <2>3, <2>4, <2>5, <2>6, <2>7, <2>8, Removal
<1>5. QED
    BY <1>2, <1>3, <1>4 DEF DeleteChunk, NextChunk, Update

(* A save that fails goes to undo what it has written of its generation.   *)
LEMMA UndoBegins ==
    ASSUME IInv, NEW t \in Tasks, NEW n \in 0..MaxChunks,
           jobs[t].at \in {"save.chunk", "save.pointer"},
           KeyringRaises(jobs' = [jobs EXCEPT
               ![t] = [jobs[t] EXCEPT !.at = "save.undo", !.chunks = n, !.index = 1]])
    PROVE  IInv'
<1> DEFINE j == [jobs[t] EXCEPT !.at = "save.undo", !.chunks = n, !.index = 1]
<1>1. jobs[t] \in Jobs /\ JobInv(jobs[t])
    BY DEF IInv, TypeOK
<1>2. j \in Jobs
    BY <1>1 DEF Jobs, Steps
<1>3. /\ j.at = "save.undo" /\ j.generation = jobs[t].generation
      /\ j.previous = jobs[t].previous /\ j.at \notin {"save.chunk", "save.pointer"}
      /\ jobs[t].at \in Pending
    BY <1>1 DEF Jobs, Pending
<1>4. JobInv(j)
    BY <1>1, <1>3 DEF JobInv, Pending
<1>5. /\ jobs' = [jobs EXCEPT ![t] = j]
      /\ Fault /\ UNCHANGED <<pointer, records, contents, live, issued, leaving>>
    BY DEF KeyringRaises
<1>6. /\ UNCHANGED <<pointer, contents, leaving>>
      /\ live' \subseteq Nat /\ issued' \in Nat /\ count' \in Counts
    BY <1>5, CleanUpOnly
<1> HIDE DEF j
<1>7. QED
    BY <1>2, <1>3, <1>4, <1>5, <1>6, Removal

(* A fresh generation: a number above all the others. *)
LEMMA SaveBeginsKeeps ==
    ASSUME IInv, NEW t \in Tasks, SaveBegins(t)
    PROVE  IInv'
<1>1. CASE KeyringRaises(Settle(t, "failed"))
    BY <1>1, RaisesOnly, SettleKeeps DEF KeyringRaises, Settled
<1>2. ASSUME NEW n \in 1..MaxChunks,
             Update(t, [jobs[t] EXCEPT !.at = "save.chunk", !.index = 1, !.chunks = n,
                                       !.generation = Len(contents) + 1,
                                       !.previous = pointer]),
             contents' = Append(contents, jobs[t].token),
             UNCHANGED <<pointer, records, live, issued, leaving, count>>
      PROVE  IInv'
  <2> DEFINE j == [jobs[t] EXCEPT !.at = "save.chunk", !.index = 1, !.chunks = n,
                                  !.generation = Len(contents) + 1, !.previous = pointer]
  <2>1. /\ jobs[t] \in Jobs /\ contents \in Seq(Nat) /\ jobs[t].token \in Nat
        /\ pointer \in Manifests \cup {None}
      BY DEF IInv, TypeOK, Jobs
  <2>2. Len(contents) \in Nat /\ Len(contents') = Len(contents) + 1 /\ contents' \in Seq(Nat)
      BY <1>2, <2>1
  <2>3. j \in Jobs
    <3>1. n \in 0..MaxChunks /\ Len(contents) + 1 \in Nat /\ 1 \in Nat /\ "save.chunk" \in Steps
        BY <2>2, TokensAssumption DEF Steps
    <3>2. QED
        BY <2>1, <3>1 DEF Jobs
  <2>4. /\ j.at = "save.chunk" /\ j.index = 1 /\ j.chunks = n
        /\ j.generation = Len(contents) + 1 /\ j.previous = pointer
      BY <2>1 DEF Jobs
  <2>5. jobs' = [jobs EXCEPT ![t] = j]
      BY <1>2 DEF Update
  <2> HIDE DEF j
  <2>6. TypeOK'
      BY <1>2, <2>2, <2>3, <2>5 DEF IInv, TypeOK
  <2>7. pointer # None => pointer.generation <= Len(contents) /\ pointer.generation \in Nat
      BY <2>1 DEF IInv, StoreInv, Manifests
  <2>8. \A g \in leaving : g \in Nat /\ g <= Len(contents)
      BY DEF IInv, TypeOK, StoreInv
  <2>9. StoreInv'
      BY <1>2, <2>2, <2>7, <2>8 DEF IInv, StoreInv, ActiveIsWhole, ChunksOf
  <2>10. \A u \in Tasks :
            /\ jobs[u] \in Jobs /\ JobInv(jobs[u])
            /\ jobs[u].generation \in Nat /\ jobs[u].generation <= Len(contents)
            /\ jobs[u].previous # None =>
                  jobs[u].previous.generation \in Nat
                  /\ jobs[u].previous.generation <= Len(contents)
      BY DEF IInv, TypeOK, JobInv, Jobs, Manifests
  <2>11. \A u \in Tasks : u # t => jobs'[u] = jobs[u]
      BY <2>5 DEF IInv, TypeOK
  <2>12. jobs'[t] = j
      BY <2>5 DEF IInv, TypeOK
  <2>13. \A u \in Tasks : JobInv(jobs[u])'
    <3> SUFFICES ASSUME NEW u \in Tasks PROVE JobInv(jobs[u])'
        OBVIOUS
    <3>1. CASE u # t
        BY <1>2, <2>2, <2>10, <2>11, <3>1 DEF JobInv
    <3>2. CASE u = t
      <4>1. j.generation <= Len(contents') /\ j.generation # 0 /\ j.generation \notin leaving
          BY <2>2, <2>4, <2>8
      <4>2. pointer # None => pointer.generation # j.generation
          BY <2>2, <2>4, <2>7
      <4>3. j.index \in 1..j.chunks /\ 1..(j.index - 1) = {}
          BY <2>4, TokensAssumption
      <4>4. j.previous # None => j.previous.generation <= Len(contents')
          BY <2>2, <2>4, <2>7
      <4>5. QED
          BY <1>2, <2>4, <2>12, <3>2, <4>1, <4>2, <4>3, <4>4 DEF JobInv, Pending
    <3>3. QED
        BY <3>1, <3>2
  <2>14. \A u, w \in Tasks : PairInv(jobs[u], jobs[w])'
    <3> SUFFICES ASSUME NEW u \in Tasks, NEW w \in Tasks,
                        jobs'[u].at \in Pending, jobs'[w].previous # None
                 PROVE  jobs'[w].previous.generation # jobs'[u].generation
        BY DEF PairInv
    <3>1. CASE u = t
      <4>1. jobs'[u].generation = Len(contents) + 1
          BY <2>4, <2>12, <3>1
      <4>2. jobs'[w].previous.generation \in Nat
            /\ jobs'[w].previous.generation <= Len(contents)
          BY <2>4, <2>7, <2>10, <2>11, <2>12
      <4>3. QED
          BY <2>2, <4>1, <4>2
    <3>2. CASE u # t /\ w = t
      <4>1. jobs'[u] = jobs[u] /\ jobs'[w].previous = pointer /\ JobInv(jobs[u])
          BY <2>4, <2>10, <2>11, <2>12, <3>2
      <4>2. QED
          BY <4>1 DEF JobInv
    <3>3. CASE u # t /\ w # t
        BY <2>11, <3>3 DEF IInv, PairInv
    <3>4. QED
        BY <3>1, <3>2, <3>3
  <2>15. OwnGenerations'
    <3> SUFFICES ASSUME NEW u \in Tasks, NEW w \in Tasks, u # w,
                        jobs'[u].at \in Pending, jobs'[w].at \in Pending
                 PROVE  jobs'[u].generation # jobs'[w].generation
        BY DEF OwnGenerations
    <3>1. CASE u # t /\ w # t
        BY <2>11, <3>1 DEF IInv, OwnGenerations
    <3>2. CASE u = t \/ w = t
        BY <2>2, <2>4, <2>10, <2>11, <2>12, <3>2
    <3>3. QED
        BY <3>1, <3>2
  <2>16. QED
      BY <2>6, <2>9, <2>13, <2>14, <2>15 DEF IInv
<1>3. QED
    BY <1>1, <1>2 DEF SaveBegins

LEMMA WriteChunkKeeps ==
    ASSUME IInv, NEW t \in Tasks, WriteChunk(t)
    PROVE  IInv'
<1>1. /\ jobs[t] \in Jobs /\ JobInv(jobs[t]) /\ jobs[t].at = "save.chunk"
      /\ jobs[t].index \in 1..jobs[t].chunks /\ jobs[t].chunks \in 0..MaxChunks
    BY DEF IInv, TypeOK, JobInv, WriteChunk, At, Jobs
<1>2. CASE KeyringRaises(Update(t, [jobs[t] EXCEPT !.at = "save.undo",
                                                   !.chunks = jobs[t].index - 1, !.index = 1]))
  <2>1. jobs[t].index - 1 \in 0..MaxChunks
      BY <1>1, TokensAssumption
  <2>2. QED
      BY <1>1, <1>2, <2>1, UndoBegins DEF Update
<1> DEFINE record == <<jobs[t].generation, jobs[t].index>>
           j == [jobs[t] EXCEPT
                    !.index = @ + 1,
                    !.at = IF jobs[t].index < jobs[t].chunks THEN @ ELSE "save.pointer"]
<1>3. CASE /\ records' = records \cup {record}
           /\ jobs' = [jobs EXCEPT ![t] = j]
           /\ UNCHANGED pointer /\ KeyringOnly
  <2>1. /\ j.at = IF jobs[t].index < jobs[t].chunks THEN "save.chunk" ELSE "save.pointer"
        /\ j.index = jobs[t].index + 1 /\ j.chunks = jobs[t].chunks
        /\ j.generation = jobs[t].generation /\ j.previous = jobs[t].previous
      BY <1>1 DEF Jobs
  <2>2. j \in Jobs
    <3>1. (IF jobs[t].index < jobs[t].chunks THEN jobs[t].at ELSE "save.pointer") \in Steps
        BY <1>1 DEF Steps
    <3>2. jobs[t].index + 1 \in Nat
        BY <1>1 DEF Jobs
    <3>3. QED
        BY <1>1, <3>1, <3>2 DEF Jobs
  <2>3. record \in Nat \X Nat
      BY <1>1 DEF Jobs
  <2> HIDE DEF j
  <2>4. TypeOK'
      BY <1>3, <2>2, <2>3 DEF KeyringOnly, IInv, TypeOK
  <2>5. StoreInv'
      BY <1>3 DEF KeyringOnly, IInv, StoreInv, ActiveIsWhole
  <2>6. \A u \in Tasks : jobs'[u] = (IF u = t THEN j ELSE jobs[u])
      BY <1>3 DEF IInv, TypeOK
  <2>7. \A u \in Tasks : JobInv(jobs[u])'
    <3> SUFFICES ASSUME NEW u \in Tasks PROVE JobInv(jobs[u])'
        OBVIOUS
    <3>1. CASE u # t
        BY <1>3, <2>6, <3>1 DEF KeyringOnly, IInv, JobInv
    <3>2. CASE u = t
      <4>1. jobs'[u] = j
          BY <2>6, <3>2
      <4>2. \A i \in 1..(j.index - 1) : <<j.generation, i>> \in records'
        <5> SUFFICES ASSUME NEW i \in 1..(j.index - 1)
                     PROVE  <<j.generation, i>> \in records'
            OBVIOUS
        <5>1. i \in 1..(jobs[t].index - 1) \/ i = jobs[t].index
            BY <1>1, <2>1
        <5>2. QED
            BY <1>1, <1>3, <2>1, <5>1 DEF JobInv
      <4>3. j.at = "save.chunk" => j.index \in 1..j.chunks
          BY <1>1, <2>1
      <4>4. j.at = "save.pointer" => 1..j.chunks \subseteq 1..(j.index - 1)
          BY <1>1, <2>1
      <4>5. /\ j.generation <= Len(contents')
            /\ j.previous # None => j.previous.generation <= Len(contents')
            /\ j.generation # 0 /\ j.generation \notin leaving'
            /\ pointer' # None => pointer'.generation # j.generation
            /\ j.at \in {"save.chunk", "save.pointer"}
          BY <1>1, <1>3, <2>1 DEF KeyringOnly, JobInv, Pending
      <4>6. QED
          BY <4>1, <4>2, <4>3, <4>4, <4>5 DEF JobInv
    <3>3. QED
        BY <3>1, <3>2
  <2>8. j.at \in Pending /\ jobs[t].at \in Pending
      BY <1>1, <2>1 DEF Pending
  <2>9. \A u, w \in Tasks : PairInv(jobs[u], jobs[w])'
      BY <2>1, <2>6, <2>8 DEF IInv, PairInv
  <2>10. OwnGenerations'
      BY <2>1, <2>6, <2>8 DEF IInv, OwnGenerations
  <2>11. QED
      BY <2>4, <2>5, <2>7, <2>9, <2>10 DEF IInv
<1>4. QED
    BY <1>2, <1>3 DEF WriteChunk, NextChunk, Update

(* The pointer is switched to a generation whose chunks are all there and  *)
(* which no other task has found in the pointer.                           *)
LEMMA SwitchPointerKeeps ==
    ASSUME IInv, NEW t \in Tasks, SwitchPointer(t)
    PROVE  IInv'
<1>1. /\ jobs[t] \in Jobs /\ JobInv(jobs[t]) /\ jobs[t].at = "save.pointer"
      /\ jobs[t].generation \in Nat \ {0} /\ jobs[t].chunks \in 0..MaxChunks
    BY DEF IInv, TypeOK, JobInv, SwitchPointer, At, Jobs, Pending
<1>2. CASE KeyringRaises(Update(t, [jobs[t] EXCEPT !.at = "save.undo", !.index = 1]))
  <2>1. [jobs[t] EXCEPT !.at = "save.undo", !.index = 1]
            = [jobs[t] EXCEPT !.at = "save.undo", !.chunks = jobs[t].chunks, !.index = 1]
      BY <1>1 DEF Jobs
  <2>2. QED
      BY <1>1, <1>2, <2>1, UndoBegins DEF Update
<1>3. ASSUME NEW j \in Jobs,
             jobs' = [jobs EXCEPT ![t] = j],
             j.generation = jobs[t].generation,
             \/ j.at = "save.clean" /\ j.previous = jobs[t].previous /\ j.previous # None
             \/ j.at \in {"login.choose", "ok"} /\ (j.previous = None \/ j.previous = jobs[t].previous),
             pointer' = [generation |-> jobs[t].generation, chunks |-> jobs[t].chunks],
             UNCHANGED records, KeyringOnly
      PROVE  IInv'
  <2>1. /\ pointer' \in Manifests /\ pointer' # None
        /\ pointer'.generation = jobs[t].generation /\ pointer'.chunks = jobs[t].chunks
      BY <1>1, <1>3, TokensAssumption DEF Manifests
  <2>2. TypeOK'
      BY <1>3, <2>1 DEF KeyringOnly, IInv, TypeOK
  <2>3. StoreInv'
    <3>1. ChunksOf(pointer') \subseteq records
        BY <1>1, <2>1 DEF ChunksOf, JobInv
    <3>2. QED
        BY <1>1, <1>3, <2>1, <3>1 DEF KeyringOnly, IInv, StoreInv, ActiveIsWhole, JobInv
  <2>4. \A u \in Tasks : jobs'[u] = (IF u = t THEN j ELSE jobs[u])
      BY <1>3 DEF IInv, TypeOK
  <2>5. \A u \in Tasks : jobs[u].previous # None =>
            jobs[u].previous.generation # jobs[t].generation
      BY <1>1 DEF IInv, PairInv, Pending
  <2>6. \A u \in Tasks : u # t /\ jobs[u].at \in Pending =>
            jobs[u].generation # jobs[t].generation
      BY <1>1 DEF IInv, OwnGenerations, Pending
  <2>7. \A u \in Tasks : JobInv(jobs[u])'
    <3> SUFFICES ASSUME NEW u \in Tasks PROVE JobInv(jobs[u])'
        OBVIOUS
    <3>1. CASE u # t
      <4>1. jobs'[u] = jobs[u] /\ JobInv(jobs[u])
          BY <2>4, <3>1 DEF IInv
      <4>2. jobs[u].at \in Pending => pointer'.generation # jobs[u].generation
          BY <2>1, <2>6, <3>1
      <4>3. jobs[u].at = "save.clean" =>
                jobs[u].previous # None /\ pointer'.generation # jobs[u].previous.generation
          BY <2>1, <2>5, <4>1 DEF JobInv
      <4>4. QED
          BY <1>3, <4>1, <4>2, <4>3 DEF KeyringOnly, JobInv
    <3>2. CASE u = t
      <4>1. jobs'[u] = j
          BY <2>4, <3>2
      <4>2. j.previous # None => j.previous = jobs[t].previous
          BY <1>3
      <4>3. j.at \in {"save.clean", "login.choose", "ok"} /\ j.at \notin Pending
          BY <1>3 DEF Pending
      <4>4. QED
          BY <1>1, <1>3, <2>1, <2>5, <4>1, <4>2, <4>3 DEF KeyringOnly, JobInv
    <3>3. QED
        BY <3>1, <3>2
  <2>8. j.at \notin Pending
      BY <1>3 DEF Pending
  <2>9. \A u, w \in Tasks : PairInv(jobs[u], jobs[w])'
      BY <1>3, <2>4, <2>8 DEF IInv, PairInv
  <2>10. OwnGenerations'
      BY <2>4, <2>8 DEF IInv, OwnGenerations
  <2>11. QED
      BY <2>2, <2>3, <2>7, <2>9, <2>10 DEF IInv
<1> DEFINE switched == /\ pointer' = [generation |-> jobs[t].generation,
                                      chunks |-> jobs[t].chunks]
                       /\ UNCHANGED records /\ KeyringOnly
           clean == [jobs[t] EXCEPT !.at = "save.clean", !.index = 1]
           choose == [jobs[t] EXCEPT !.at = "login.choose"]
           ok == [NoJob EXCEPT !.at = "ok", !.kind = jobs[t].kind,
                               !.generation = jobs[t].generation]
<1>4. CASE switched /\ jobs[t].previous # None /\ jobs' = [jobs EXCEPT ![t] = clean]
  <2>1. clean \in Jobs /\ clean.at = "save.clean" /\ clean.previous = jobs[t].previous
        /\ clean.generation = jobs[t].generation
      BY <1>1 DEF Jobs, Steps
  <2>2. QED
      BY <1>3, <1>4, <2>1
<1>5. CASE switched /\ jobs' = [jobs EXCEPT ![t] = choose]
  <2>1. choose \in Jobs /\ choose.at = "login.choose" /\ choose.previous = jobs[t].previous
        /\ choose.generation = jobs[t].generation
      BY <1>1 DEF Jobs, Steps
  <2>2. QED
      BY <1>3, <1>5, <2>1
<1>6. CASE switched /\ jobs' = [jobs EXCEPT ![t] = ok]
  <2>1. ok \in Jobs
      BY <1>1, NoJobType DEF Jobs, Steps, Settled
  <2>2. ok.at = "ok" /\ ok.previous = None /\ ok.generation = jobs[t].generation
      BY DEF NoJob
  <2>3. QED
      BY <1>3, <1>6, <2>1, <2>2
<1>7. QED
    BY <1>2, <1>4, <1>5, <1>6 DEF SwitchPointer, Saved, Goto, Settle, Update

(* A generation that is being written is not the active one, so no logout  *)
(* sets out to remove it.                                                  *)
LEMMA DeleteBeginsKeeps ==
    ASSUME IInv, NEW t \in Tasks, DeleteBegins(t)
    PROVE  IInv'
<1>1. jobs[t] \in Jobs /\ JobInv(jobs[t])
    BY DEF IInv, TypeOK
<1>2. CASE KeyringRaises(Settle(t, "failed"))
    BY <1>2, RaisesOnly, SettleKeeps DEF KeyringRaises, Settled
<1>3. CASE Settle(t, "ok") /\ OnlyReads
    BY <1>3, ReadsOnly, SettleKeeps DEF Settled
<1> DEFINE j == [jobs[t] EXCEPT
                    !.at = IF pointer.chunks = 0 THEN "delete.pointer" ELSE "delete.chunk",
                    !.generation = pointer.generation, !.chunks = pointer.chunks, !.index = 1]
<1>4. CASE /\ pointer # None
           /\ jobs' = [jobs EXCEPT ![t] = j]
           /\ leaving' = leaving \cup {pointer.generation}
           /\ UNCHANGED <<pointer, records, contents, live, issued, count>>
  <2>1. /\ pointer \in Manifests /\ pointer.generation <= Len(contents)
        /\ pointer.generation \in Nat \ {0} /\ pointer.chunks \in 0..MaxChunks
      BY <1>4 DEF IInv, TypeOK, StoreInv, Manifests
  <2>2. j \in Jobs
      BY <1>1, <2>1 DEF Jobs, Steps
  <2>3. /\ j.at \in {"delete.pointer", "delete.chunk"}
        /\ j.generation = pointer.generation /\ j.previous = jobs[t].previous
      BY <1>1 DEF Jobs
  <2> HIDE DEF j
  <2>4. TypeOK'
      BY <1>4, <2>1, <2>2 DEF IInv, TypeOK
  <2>5. StoreInv'
      BY <1>4, <2>1 DEF IInv, StoreInv, ActiveIsWhole
  <2>6. \A u \in Tasks : jobs'[u] = (IF u = t THEN j ELSE jobs[u])
      BY <1>4 DEF IInv, TypeOK
  <2>7. \A u \in Tasks : JobInv(jobs[u])'
    <3> SUFFICES ASSUME NEW u \in Tasks PROVE JobInv(jobs[u])'
        OBVIOUS
    <3>1. CASE u # t
        BY <1>4, <2>6, <3>1 DEF IInv, JobInv
    <3>2. CASE u = t
        BY <1>1, <1>4, <2>1, <2>3, <2>6, <3>2 DEF JobInv, Pending
    <3>3. QED
        BY <3>1, <3>2
  <2>8. j.at \notin Pending
      BY <2>3 DEF Pending
  <2>9. \A u, w \in Tasks : PairInv(jobs[u], jobs[w])'
      BY <2>3, <2>6, <2>8 DEF IInv, PairInv
  <2>10. OwnGenerations'
      BY <2>6, <2>8 DEF IInv, OwnGenerations
  <2>11. QED
      BY <2>4, <2>5, <2>7, <2>9, <2>10 DEF IInv
<1>5. QED
    BY <1>2, <1>3, <1>4 DEF DeleteBegins, Update

LEMMA DeletePointerKeeps ==
    ASSUME IInv, NEW t \in Tasks, DeletePointer(t)
    PROVE  IInv'
<1>1. CASE KeyringRaises(Settle(t, "failed")) \/ KeyringRaises(Settle(t, "ok"))
    BY <1>1, RaisesOnly, SettleKeeps DEF KeyringRaises, Settled
<1> DEFINE j == [NoJob EXCEPT !.at = "ok", !.kind = jobs[t].kind,
                              !.generation = jobs[t].generation]
<1>2. CASE pointer' = None /\ jobs' = [jobs EXCEPT ![t] = j] /\ UNCHANGED records /\ KeyringOnly
  <2>1. jobs[t] \in Jobs /\ JobInv(jobs[t])
      BY DEF IInv, TypeOK
  <2>2. j \in Jobs
      BY <2>1, NoJobType DEF Jobs, Steps, Settled
  <2>3. j.at = "ok" /\ j.previous = None /\ j.generation = jobs[t].generation
      BY DEF NoJob
  <2> HIDE DEF j
  <2>4. TypeOK'
      BY <1>2, <2>2 DEF KeyringOnly, IInv, TypeOK
  <2>5. StoreInv'
      BY <1>2 DEF KeyringOnly, IInv, StoreInv, ActiveIsWhole
  <2>6. \A u \in Tasks : jobs'[u] = (IF u = t THEN j ELSE jobs[u])
      BY <1>2 DEF IInv, TypeOK
  <2>7. \A u \in Tasks : JobInv(jobs[u])'
      BY <1>2, <2>1, <2>3, <2>6 DEF KeyringOnly, IInv, JobInv, Pending
  <2>8. j.at \notin Pending
      BY <2>3 DEF Pending
  <2>9. \A u, w \in Tasks : PairInv(jobs[u], jobs[w])'
      BY <2>3, <2>6, <2>8 DEF IInv, PairInv
  <2>10. OwnGenerations'
      BY <2>6, <2>8 DEF IInv, OwnGenerations
  <2>11. QED
      BY <2>4, <2>5, <2>7, <2>9, <2>10 DEF IInv
<1>3. QED
    BY <1>1, <1>2 DEF DeletePointer, Settle, Update

LEMMA CrashKeeps ==
    ASSUME IInv, NEW p \in Processes, Crash(p)
    PROVE  IInv'
<1>1. \A u \in Tasks : jobs'[u] = NoJob \/ jobs'[u] = jobs[u]
    BY DEF Crash
<1>2. /\ NoJob.at = "idle" /\ NoJob.previous = None /\ NoJob.generation = 0
      /\ NoJob.at \notin Pending
    BY DEF NoJob, Pending
<1>3. UNCHANGED <<pointer, records, contents, live, issued, leaving>>
    BY DEF Crash, Stop
<1>4. TypeOK'
  <2>1. count' \in Counts
    <3>1. count \in Counts
        BY DEF IInv, TypeOK, Counts
    <3>2. count' = [count EXCEPT !.stops = @ + 1]
        BY DEF Crash, Stop
    <3>3. QED
        BY <3>1, <3>2 DEF Counts
  <2>2. jobs' \in [Tasks -> Jobs]
      BY NoJobType DEF Crash, IInv, TypeOK
  <2>3. QED
      BY <1>3, <2>1, <2>2 DEF IInv, TypeOK, Counts
<1>5. StoreInv'
    BY <1>3 DEF IInv, StoreInv, ActiveIsWhole
<1>6. \A u \in Tasks : JobInv(jobs[u])'
  <2> SUFFICES ASSUME NEW u \in Tasks PROVE JobInv(jobs[u])'
      OBVIOUS
  <2>1. CASE jobs'[u] = jobs[u]
      BY <1>3, <2>1 DEF IInv, JobInv
  <2>2. CASE jobs'[u] = NoJob
    <3>1. 0 <= Len(contents)
        BY DEF IInv, TypeOK
    <3>2. QED
        BY <1>2, <1>3, <2>2, <3>1 DEF JobInv
  <2>3. QED
      BY <1>1, <2>1, <2>2
<1>7. \A u, w \in Tasks : PairInv(jobs[u], jobs[w])'
    BY <1>1, <1>2 DEF IInv, PairInv
<1>8. OwnGenerations'
    BY <1>1, <1>2 DEF IInv, OwnGenerations
<1>9. QED
    BY <1>4, <1>5, <1>6, <1>7, <1>8 DEF IInv

-----------------------------------------------------------------------------
(* The invariant, and the theorems.                                        *)

LEMMA InitHolds == Init => IInv
<1> SUFFICES ASSUME Init PROVE IInv
    OBVIOUS
<1>1. \A t \in Tasks : jobs[t] = NoJob
    BY DEF Init
<1>2. /\ NoJob.at = "idle" /\ NoJob.previous = None /\ NoJob.generation = 0
      /\ NoJob.at \notin Pending
    BY DEF NoJob, Pending
<1>3. contents \in Seq(Nat) /\ Len(contents) = 1
    BY DEF Init
<1>4. [generation |-> 1, chunks |-> 0] \in Manifests
    BY TokensAssumption DEF Manifests
<1>5. TypeOK
    BY <1>3, <1>4, NoJobType DEF Init, TypeOK
<1>6. StoreInv
    BY <1>3 DEF Init, StoreInv, ActiveIsWhole, ChunksOf
<1>7. \A t \in Tasks : JobInv(jobs[t])
    BY <1>1, <1>2, <1>3 DEF JobInv
<1>8. (\A t, u \in Tasks : PairInv(jobs[t], jobs[u])) /\ OwnGenerations
    BY <1>1, <1>2 DEF PairInv, OwnGenerations
<1>9. QED
    BY <1>5, <1>6, <1>7, <1>8 DEF IInv

LEMMA StutterKeeps == ASSUME IInv, UNCHANGED vars PROVE IInv'
BY DEF vars, IInv, TypeOK, StoreInv, ActiveIsWhole, JobInv, PairInv, OwnGenerations

LEMMA Inductive == ASSUME IInv, [Next]_vars PROVE IInv'
<1>1. ASSUME NEW t \in Tasks, Save(t) PROVE IInv'
    BY <1>1, SaveBeginsKeeps, WriteChunkKeeps, SwitchPointerKeeps, CleanPreviousKeeps,
       UndoChunksKeeps DEF Save
<1>2. ASSUME NEW t \in Tasks, Delete(t) PROVE IInv'
    BY <1>2, DeleteBeginsKeeps, DeleteChunkKeeps, DeletePointerKeeps DEF Delete
<1>3. QED
    BY <1>1, <1>2, CommandKeeps, LoadKeeps, ValidTokensKeeps, CrashKeeps, StutterKeeps DEF Next

LEMMA InvariantHolds == Spec => []IInv
<1>1. Init => IInv
    BY InitHolds
<1>2. IInv /\ [Next]_vars => IInv'
    BY Inductive
<1>3. QED
    BY <1>1, <1>2, PTL DEF Spec

(* Every state of the token store is well typed, whatever fails or dies.   *)
THEOREM TypeCorrect == Spec => []TypeOK
<1>1. IInv => TypeOK
    BY DEF IInv
<1>2. QED
    BY <1>1, InvariantHolds, PTL

(* Every chunk the active pointer names is there until a logout sets out   *)
(* to remove that generation: for any number of processes, whichever       *)
(* keyring calls fail and wherever a process dies                          *)
(* (KeyringCodexOAuthTokenStore.save and delete).                          *)
THEOREM ActiveWhole == Spec => []ActiveIsWhole
<1>1. IInv => ActiveIsWhole
    BY DEF IInv, StoreInv
<1>2. QED
    BY <1>1, InvariantHolds, PTL

-----------------------------------------------------------------------------
(* The refinement: a step either leaves the bundle that BundleStore sees   *)
(* alone, or takes one of its steps.                                       *)

LEMMA KeyringAlone ==
    ASSUME UNCHANGED <<pointer, records, leaving>>
    PROVE  UNCHANGED Abstract!storeVars
BY DEF Abstract!storeVars, Active, ChunksOf

(* Adding or deleting a record of another generation is not seen. *)
LEMMA OtherGeneration ==
    ASSUME IInv, NEW g \in Nat, NEW i \in Nat,
           pointer # None => pointer.generation # g,
           \/ records' = records \cup {<<g, i>>}
           \/ records' = records \ {<<g, i>>},
           UNCHANGED <<pointer, leaving>>
    PROVE  UNCHANGED Abstract!storeVars
<1>1. pointer # None => <<g, i>> \notin ChunksOf(pointer)
    BY DEF ChunksOf
<1>2. pointer # None => (ChunksOf(pointer) \subseteq records' <=> ChunksOf(pointer) \subseteq records)
    BY <1>1
<1>3. Active' = Active
    BY <1>2 DEF Active, ChunksOf
<1>4. QED
    BY <1>3 DEF Abstract!storeVars

LEMMA JobOf ==
    ASSUME IInv, NEW t \in Tasks
    PROVE  /\ jobs[t] \in Jobs /\ JobInv(jobs[t])
           /\ jobs[t].generation \in Nat /\ jobs[t].index \in Nat
           /\ jobs[t].previous # None => /\ jobs[t].previous.generation \in Nat \ {0}
                                         /\ jobs[t].previous.chunks \in Nat
BY TokensAssumption DEF IInv, TypeOK, Jobs, Manifests

LEMMA SaveIsSeen ==
    ASSUME IInv, NEW t \in Tasks, Save(t)
    PROVE  [Abstract!Next]_(Abstract!storeVars)
<1>1. CASE SaveBegins(t)
    BY <1>1, KeyringAlone DEF SaveBegins, KeyringRaises
<1>2. CASE WriteChunk(t)
  <2>1. pointer # None => pointer.generation # jobs[t].generation
      BY <1>2, JobOf DEF WriteChunk, At, JobInv, Pending
  <2>2. QED
      BY <1>2, <2>1, JobOf, KeyringAlone, OtherGeneration DEF WriteChunk, KeyringRaises, KeyringOnly
<1>3. CASE SwitchPointer(t)
  <2>1. CASE /\ pointer' = [generation |-> jobs[t].generation, chunks |-> jobs[t].chunks]
             /\ UNCHANGED <<records, leaving>>
    <3>1. /\ jobs[t].generation \in Nat \ {0} /\ jobs[t].generation \notin leaving
          /\ \A i \in 1..jobs[t].chunks : <<jobs[t].generation, i>> \in records
        BY <1>3, JobOf DEF SwitchPointer, At, JobInv, Pending
    <3>2. pointer' # None
        BY <2>1, <3>1, JobOf, TokensAssumption DEF Manifests, Jobs
    <3>3. ChunksOf(pointer)' \subseteq records'
        BY <2>1, <3>1 DEF ChunksOf
    <3>4. Active' = jobs[t].generation
        BY <2>1, <3>2, <3>3 DEF Active
    <3>5. jobs[t].generation # None
        BY <3>1, TokensAssumption
    <3>6. QED
        BY <2>1, <3>1, <3>4, <3>5 DEF Abstract!Next, Abstract!Activate
  <2>2. QED
      BY <1>3, <2>1, KeyringAlone DEF SwitchPointer, KeyringRaises, KeyringOnly
<1>4. CASE CleanPrevious(t)
  <2>1. /\ jobs[t].previous # None
        /\ pointer # None => pointer.generation # jobs[t].previous.generation
      BY <1>4, JobOf DEF CleanPrevious, At, JobInv
  <2>2. QED
      BY <1>4, <2>1, JobOf, KeyringAlone, OtherGeneration
      DEF CleanPrevious, DeleteQuietly, KeyringRaises, KeyringOnly, OnlyReads
<1>5. CASE UndoChunks(t)
  <2>1. pointer # None => pointer.generation # jobs[t].generation
      BY <1>5, JobOf DEF UndoChunks, At, JobInv, Pending
  <2>2. QED
      BY <1>5, <2>1, JobOf, KeyringAlone, OtherGeneration
      DEF UndoChunks, DeleteQuietly, KeyringRaises, KeyringOnly, OnlyReads
<1>6. QED
    BY <1>1, <1>2, <1>3, <1>4, <1>5 DEF Save

LEMMA DeleteIsSeen ==
    ASSUME IInv, NEW t \in Tasks, Delete(t)
    PROVE  [Abstract!Next]_(Abstract!storeVars)
<1>1. CASE DeleteBegins(t)
  <2>1. CASE leaving' = leaving \cup {pointer.generation} /\ UNCHANGED <<pointer, records>>
    <3>1. Active' = Active
        BY <2>1 DEF Active, ChunksOf
    <3>2. QED
        BY <2>1, <3>1 DEF Abstract!Next, Abstract!AskRemoval
  <2>2. QED
      BY <1>1, <2>1, KeyringAlone DEF DeleteBegins, KeyringRaises, KeyringOnly, OnlyReads
<1>2. CASE DeleteChunk(t)
  <2>1. CASE /\ records' = records \ {<<jobs[t].generation, jobs[t].index>>}
             /\ UNCHANGED <<pointer, leaving>>
    <3>1. jobs[t].generation \in leaving
        BY <1>2, JobOf DEF DeleteChunk, At, JobInv
    <3>2. CASE pointer # None => pointer.generation # jobs[t].generation
        BY <2>1, <3>2, JobOf, OtherGeneration
    <3>3. CASE pointer # None /\ pointer.generation = jobs[t].generation
      <4>1. Active \in {pointer.generation, 0} /\ Active' \in {pointer.generation, 0}
          BY <2>1, <3>3 DEF Active
      <4>2. Active = 0 => Active' = 0
        <5>1. pointer.generation # 0
            BY <3>3, TokensAssumption DEF IInv, TypeOK, Manifests
        <5>2. ChunksOf(pointer) \subseteq records' => ChunksOf(pointer) \subseteq records
            BY <2>1
        <5>3. QED
            BY <2>1, <3>3, <5>1, <5>2 DEF Active, ChunksOf
      <4>3. CASE Active' = Active
          BY <2>1, <4>3 DEF Abstract!storeVars
      <4>4. CASE Active' # Active
          BY <2>1, <3>1, <3>3, <4>1, <4>2, <4>4 DEF Abstract!Next, Abstract!Break
      <4>5. QED
          BY <4>3, <4>4
    <3>4. QED
        BY <3>2, <3>3
  <2>2. QED
      BY <1>2, <2>1, KeyringAlone DEF DeleteChunk, KeyringRaises, KeyringOnly, OnlyReads
<1>3. CASE DeletePointer(t)
  <2>1. CASE pointer' = None /\ UNCHANGED leaving
    <3>1. leaving # {}
        BY <1>3, JobOf DEF DeletePointer, At, JobInv
    <3>2. Active' = None
        BY <2>1 DEF Active
    <3>3. QED
        BY <2>1, <3>1, <3>2 DEF Abstract!Next, Abstract!Clear
  <2>2. QED
      BY <1>3, <2>1, KeyringAlone DEF DeletePointer, KeyringRaises, KeyringOnly
<1>4. QED
    BY <1>1, <1>2, <1>3 DEF Delete

LEMMA ReadIsSeen ==
    ASSUME NEW t \in Tasks, Command(t) \/ LoadPointer(t) \/ LoadChunk(t) \/ ValidTokens(t)
    PROVE  UNCHANGED Abstract!storeVars
<1>1. CASE Command(t)
    BY <1>1, KeyringAlone
    DEF Command, BeginLogin, ChooseProvider, CancelLogin, BeginStatus, ReportStatus, BeginUse,
        BeginLogout, Start, Stop, OnlyReads, KeyringOnly
<1>2. CASE LoadPointer(t) \/ LoadChunk(t)
    BY <1>2, KeyringAlone DEF LoadPointer, LoadChunk, OnlyReads, KeyringOnly, KeyringRaises
<1>3. CASE ValidTokens(t)
    BY <1>3, KeyringAlone
    DEF ValidTokens, TakeLock, UseLoaded, RefreshRotates, RefreshKeeps, RefreshRejected, RefreshLost,
        Exchange, OnlyReads, KeyringOnly
<1>4. QED
    BY <1>1, <1>2, <1>3

(* The keyring records implement one bundle that is replaced in one step   *)
(* and only becomes unreadable once its removal was asked for, for any     *)
(* number of processes and whatever fails (save, delete).                  *)
THEOREM ImplementsBundleStore == Spec => OneBundle
<1>1. Init => Abstract!Init
  <2> SUFFICES ASSUME Init PROVE Active # 0 /\ leaving = {}
      BY DEF Abstract!Init
  <2>1. CASE pointer = None
      BY <2>1, TokensAssumption DEF Init, Active
  <2>2. CASE pointer # None
    <3>1. pointer = [generation |-> 1, chunks |-> 0]
        BY <2>2 DEF Init
    <3>2. ChunksOf(pointer) \subseteq records
        BY <3>1 DEF ChunksOf
    <3>3. QED
        BY <2>2, <3>1, <3>2 DEF Init, Active
  <2>3. QED
      BY <2>1, <2>2
<1>2. IInv /\ [Next]_vars => [Abstract!Next]_(Abstract!storeVars)
  <2> SUFFICES ASSUME IInv, [Next]_vars
               PROVE  [Abstract!Next]_(Abstract!storeVars)
      OBVIOUS
  <2>1. CASE UNCHANGED vars
      BY <2>1, KeyringAlone DEF vars
  <2>2. ASSUME NEW p \in Processes, Crash(p) PROVE UNCHANGED Abstract!storeVars
      BY <2>2, KeyringAlone DEF Crash, Stop
  <2>3. QED
      BY <2>1, <2>2, SaveIsSeen, DeleteIsSeen, ReadIsSeen DEF Next
<1>3. QED
    BY <1>1, <1>2, InvariantHolds, PTL DEF Spec, OneBundle, Abstract!Spec

-----------------------------------------------------------------------------
(* One process: what its refresh lock is for.  The rest of this module     *)
(* supposes OneProcess, as the run does; the commands of several processes *)
(* may overlap, and then none of the four properties below holds.          *)
OneProcess == \A t, u \in Tasks : ProcessOf[t] = ProcessOf[u]

(* A job past the lock. *)
Working(j) == j.at \notin Settled \cup {"lock"}

OneWorks ==
    /\ \A t \in Tasks : jobs[t].at = "lock" => jobs[t].kind = "use"
    /\ \A t, u \in Tasks : t # u /\ Running(t) /\ Running(u) => jobs[t].kind = "use"
    /\ \A t, u \in Tasks : Working(jobs[t]) /\ Working(jobs[u]) => t = u

(* A reader between the pointer and the last chunk. *)
ReadsPointer(j) ==
    /\ j.at \in {"load.chunk", "loaded"} =>
        pointer # None /\ pointer.generation = j.generation
    /\ j.at = "load.chunk" => pointer.chunks = j.chunks /\ j.index \in 1..j.chunks
    /\ j.at = "torn" => j.generation \in leaving

ReadInvariant == OneWorks /\ \A t \in Tasks : ReadsPointer(jobs[t])

-----------------------------------------------------------------------------
(* The shape of a step of one task, seen from all of them.                 *)

LEMMA UpdateIs ==
    ASSUME IInv, NEW t \in Tasks, NEW j, Update(t, j)
    PROVE  jobs'[t] = j /\ \A u \in Tasks : u # t => jobs'[u] = jobs[u]
BY DEF Update, IInv, TypeOK

LEMMA SettleIs ==
    ASSUME IInv, NEW t \in Tasks, NEW result \in Settled, Settle(t, result)
    PROVE  /\ jobs'[t].at = result /\ jobs'[t].kind = jobs[t].kind
           /\ jobs'[t].generation = jobs[t].generation
           /\ \A u \in Tasks : u # t => jobs'[u] = jobs[u]
<1> DEFINE j == [NoJob EXCEPT !.at = result, !.kind = jobs[t].kind,
                              !.generation = jobs[t].generation]
<1>1. j.at = result /\ j.kind = jobs[t].kind /\ j.generation = jobs[t].generation
    BY DEF NoJob
<1>2. Update(t, j)
    BY DEF Settle
<1> HIDE DEF j
<1>3. QED
    BY <1>1, <1>2, UpdateIs

LEMMA GotoIs ==
    ASSUME IInv, NEW t \in Tasks, NEW step \in Steps, Goto(t, step)
    PROVE  /\ jobs'[t] = [jobs[t] EXCEPT !.at = step]
           /\ jobs'[t].at = step /\ jobs'[t].kind = jobs[t].kind
           /\ jobs'[t].token = jobs[t].token
           /\ \A u \in Tasks : u # t => jobs'[u] = jobs[u]
<1>1. jobs[t] \in Jobs
    BY DEF IInv, TypeOK
<1>2. QED
    BY <1>1, UpdateIs DEF Goto, Jobs

(* The task that works goes on or settles; the others do not move. *)
Works(t) ==
    /\ Working(jobs[t])
    /\ jobs[t]'.kind = jobs[t].kind
    /\ jobs[t]'.at # "lock"
    /\ \A u \in Tasks : u # t => jobs'[u] = jobs[u]

LEMMA WorksAlone ==
    ASSUME IInv, IInv', ReadInvariant, NEW t \in Tasks, Works(t),
           leaving \subseteq leaving', ReadsPointer(jobs[t])'
    PROVE  ReadInvariant'
<1>1. /\ Working(jobs[t]) /\ jobs'[t].kind = jobs[t].kind /\ jobs'[t].at # "lock"
      /\ \A u \in Tasks : u # t => jobs'[u] = jobs[u]
    BY DEF Works
<1>2. \A u \in Tasks : u # t => ~Working(jobs[u])
    BY <1>1 DEF ReadInvariant, OneWorks
<1>3. Running(t)
    BY <1>1 DEF Working, Running
<1>4. OneWorks'
    BY <1>1, <1>2, <1>3 DEF ReadInvariant, OneWorks, Running, Working
<1>5. ASSUME NEW u \in Tasks, u # t PROVE ReadsPointer(jobs[u])'
  <2>1. jobs'[u] = jobs[u] /\ jobs[u].at \notin {"load.chunk", "loaded"}
      BY <1>1, <1>2, <1>5 DEF Working, Settled
  <2>2. ReadsPointer(jobs[u])
      BY DEF ReadInvariant
  <2>3. QED
      BY <2>1, <2>2 DEF ReadsPointer
<1>6. QED
    BY <1>4, <1>5 DEF ReadInvariant

LEMMA StartAlone ==
    ASSUME OneProcess, IInv, ReadInvariant, NEW t \in Tasks, NEW kind, NEW step, NEW token,
           step \in {"save.begin", "load.begin", "delete.begin", "lock"},
           step = "lock" <=> kind = "use",
           Start(t, kind, step, token)
    PROVE  /\ ReadInvariant'
           /\ jobs'[t].at = step /\ jobs'[t].token = token
           /\ \A u \in Tasks : u # t => jobs'[u] = jobs[u]
           /\ ~Running(t)
           /\ step # "lock" => \A u \in Tasks : ~Running(u)
<1>1. /\ jobs'[t].at = step /\ jobs'[t].kind = kind /\ jobs'[t].token = token
      /\ \A u \in Tasks : u # t => jobs'[u] = jobs[u]
  <2> DEFINE j == [NoJob EXCEPT !.at = step, !.kind = kind, !.token = token]
  <2>1. j.at = step /\ j.kind = kind /\ j.token = token
      BY DEF NoJob
  <2>2. Update(t, j)
      BY DEF Start
  <2> HIDE DEF j
  <2>3. QED
      BY <2>1, <2>2, UpdateIs
<1>2. /\ ~Running(t)
      /\ \A u \in Tasks : Running(u) => kind = "use" /\ jobs[u].kind = "use"
    BY DEF Start, OneProcess
<1>3. \A u \in Tasks : Working(jobs[u]) => Running(u)
    BY DEF Working, Running
<1>4. step # "lock" => \A u \in Tasks : ~Running(u)
    BY <1>2
<1>5. ~Working(jobs[t]) /\ (Working(jobs'[t]) => step # "lock")
    BY <1>1, <1>2, <1>3 DEF Working
<1>6. OneWorks'
  <2>1. \A u \in Tasks : jobs'[u].at = "lock" => jobs'[u].kind = "use"
      BY <1>1 DEF ReadInvariant, OneWorks
  <2>2. \A u, w \in Tasks : u # w /\ Running(u)' /\ Running(w)' => jobs'[u].kind = "use"
      BY <1>1, <1>2 DEF ReadInvariant, OneWorks, Running
  <2>3. \A u, w \in Tasks : Working(jobs'[u]) /\ Working(jobs'[w]) => u = w
      BY <1>1, <1>3, <1>4, <1>5 DEF ReadInvariant, OneWorks
  <2>4. QED
      BY <2>1, <2>2, <2>3 DEF OneWorks, Running, Working
<1>7. \A u \in Tasks : ReadsPointer(jobs[u])'
    BY <1>1 DEF Start, ReadInvariant, ReadsPointer
<1>8. QED
    BY <1>1, <1>2, <1>4, <1>6, <1>7 DEF ReadInvariant

LEMMA TakeLockAlone ==
    ASSUME OneProcess, IInv, ReadInvariant, NEW t \in Tasks, TakeLock(t)
    PROVE  /\ ReadInvariant'
           /\ jobs'[t].at = "load.begin"
           /\ \A u \in Tasks : u # t => jobs'[u] = jobs[u]
           /\ \A u \in Tasks : ~Working(jobs[u])
<1>1. /\ jobs'[t].at = "load.begin" /\ jobs'[t].kind = jobs[t].kind
      /\ \A u \in Tasks : u # t => jobs'[u] = jobs[u]
      /\ jobs[t].at = "lock" /\ leaving' = leaving /\ pointer' = pointer
    BY GotoIs DEF TakeLock, At, Steps, OnlyReads, KeyringOnly
<1>2. Running(t) /\ ~Working(jobs[t])
    BY <1>1 DEF Running, Working, Settled
<1>3. \A u \in Tasks : ~Working(jobs[u])
  <2> SUFFICES ASSUME NEW u \in Tasks, u # t, Working(jobs[u]) PROVE FALSE
      BY <1>2
  <2>1. Running(u) /\ ~At(u, "lock")
      BY DEF Working, Running, At
  <2>2. jobs[u].kind = "use"
      BY <1>2, <2>1 DEF ReadInvariant, OneWorks
  <2>3. HoldsLock(u)
      BY <2>1, <2>2 DEF HoldsLock
  <2>4. QED
      BY <2>3 DEF TakeLock, OneProcess
<1>4. OneWorks'
  <2>1. \A u \in Tasks : Running(u)' => Running(u) /\ jobs'[u].kind = jobs[u].kind
      BY <1>1, <1>2 DEF Running
  <2>2. \A u, w \in Tasks : u # w /\ Running(u)' /\ Running(w)' => jobs'[u].kind = "use"
      BY <2>1 DEF ReadInvariant, OneWorks
  <2>3. \A u \in Tasks : Working(jobs'[u]) => u = t
      BY <1>1, <1>3
  <2>4. \A u \in Tasks : jobs'[u].at = "lock" => jobs'[u].kind = "use"
      BY <1>1 DEF ReadInvariant, OneWorks
  <2>5. QED
      BY <2>2, <2>3, <2>4 DEF OneWorks, Running, Working
<1>5. \A u \in Tasks : ReadsPointer(jobs[u])'
    BY <1>1 DEF ReadInvariant, ReadsPointer
<1>6. QED
    BY <1>1, <1>3, <1>4, <1>5 DEF ReadInvariant

LEMMA CrashAlone ==
    ASSUME IInv, ReadInvariant, NEW p \in Processes, Crash(p)
    PROVE  ReadInvariant'
<1>1. \A u \in Tasks : jobs'[u] = NoJob \/ jobs'[u] = jobs[u]
    BY DEF Crash
<1>2. NoJob.at = "idle"
    BY DEF NoJob
<1>3. UNCHANGED <<pointer, leaving>>
    BY DEF Crash, Stop
<1>4. "idle" \in Settled /\ "idle" \notin {"lock", "load.chunk", "loaded", "torn"}
    BY DEF Settled
<1>5. \A u \in Tasks : /\ Running(u)' => jobs'[u] = jobs[u] /\ Running(u)
                       /\ Working(jobs[u])' => jobs'[u] = jobs[u] /\ Working(jobs[u])
                       /\ jobs'[u].at = "lock" => jobs'[u] = jobs[u]
    BY <1>1, <1>2, <1>4 DEF Running, Working
<1>6. OneWorks'
    BY <1>5 DEF ReadInvariant, OneWorks
<1>7. \A u \in Tasks : ReadsPointer(jobs[u])'
    BY <1>1, <1>2, <1>3, <1>4 DEF ReadInvariant, ReadsPointer
<1>8. QED
    BY <1>6, <1>7 DEF ReadInvariant

(* A task that works does not come to a step a reader's facts are about.   *)
Onward(t) ==
    /\ Works(t)
    /\ jobs[t]'.at \notin {"load.chunk", "loaded", "torn"}

LEMMA OnwardReads ==
    ASSUME IInv, IInv', ReadInvariant, NEW t \in Tasks, Onward(t), leaving \subseteq leaving'
    PROVE  ReadInvariant'
BY WorksAlone DEF Onward, ReadsPointer

LEMMA SettleOnward ==
    ASSUME IInv, NEW t \in Tasks, NEW result \in Settled \ {"torn"},
           Working(jobs[t]), Settle(t, result)
    PROVE  Onward(t)
BY SettleIs DEF Onward, Works, Settled

LEMMA GotoOnward ==
    ASSUME IInv, NEW t \in Tasks, Working(jobs[t]),
           NEW step \in Steps \ {"lock", "load.chunk", "loaded", "torn"}, Goto(t, step)
    PROVE  Onward(t)
BY GotoIs DEF Onward, Works

LEMMA UpdateOnward ==
    ASSUME IInv, NEW t \in Tasks, NEW j, Update(t, j), Working(jobs[t]),
           j.kind = jobs[t].kind,
           j.at \notin {"lock", "load.chunk", "loaded", "torn"}
    PROVE  Onward(t)
BY UpdateIs DEF Onward, Works

LEMMA SavedOnward ==
    ASSUME IInv, NEW t \in Tasks, Working(jobs[t]), Saved(t)
    PROVE  Onward(t)
<1>1. "login.choose" \in Steps \ {"lock", "load.chunk", "loaded", "torn"}
      /\ "ok" \in Settled \ {"torn"}
    BY DEF Steps, Settled
<1>2. QED
    BY <1>1, SettleOnward, GotoOnward DEF Saved

LEMMA WorkingSteps ==
    ASSUME NEW j, j.at \in {"load.begin", "load.chunk", "loaded", "refresh",
                            "save.begin", "save.chunk", "save.pointer", "save.clean", "save.undo",
                            "login.choose", "delete.begin", "delete.chunk", "delete.pointer"}
    PROVE  Working(j)
BY DEF Working, Settled

LEMMA SaveOnward ==
    ASSUME IInv, NEW t \in Tasks, Save(t)
    PROVE  Onward(t) /\ leaving' = leaving
<1>1. jobs[t] \in Jobs
    BY DEF IInv, TypeOK
<1>2. Working(jobs[t])
  <2>1. jobs[t].at \in {"save.begin", "save.chunk", "save.pointer", "save.clean", "save.undo"}
      BY DEF Save, SaveBegins, WriteChunk, SwitchPointer, CleanPrevious, UndoChunks, At
  <2>2. QED
      BY <2>1, WorkingSteps
<1>3. leaving' = leaving
    BY DEF Save, SaveBegins, WriteChunk, SwitchPointer, CleanPrevious, UndoChunks, DeleteQuietly,
           KeyringRaises, KeyringOnly, OnlyReads
<1> SUFFICES Onward(t)
    BY <1>3
<1>4. "failed" \in Settled \ {"torn"}
    BY DEF Settled
<1>5. CASE Settle(t, "failed") \/ Saved(t)
    BY <1>2, <1>4, <1>5, SettleOnward, SavedOnward
<1>6. ASSUME NEW j, Update(t, j), j.kind = jobs[t].kind,
             j.at \in {"save.chunk", "save.pointer", "save.clean", "save.undo"}
      PROVE  Onward(t)
    BY <1>2, <1>6, UpdateOnward
<1>7. CASE SaveBegins(t)
  <2>1. ASSUME NEW n \in 1..MaxChunks,
               Update(t, [jobs[t] EXCEPT !.at = "save.chunk", !.index = 1, !.chunks = n,
                                         !.generation = Len(contents) + 1,
                                         !.previous = pointer])
        PROVE  Onward(t)
      <3> DEFINE j == [jobs[t] EXCEPT !.at = "save.chunk", !.index = 1, !.chunks = n,
                                      !.generation = Len(contents) + 1, !.previous = pointer]
      <3>1. j.at = "save.chunk" /\ j.kind = jobs[t].kind
          BY <1>1 DEF Jobs
      <3>2. Update(t, j)
          BY <2>1
      <3> HIDE DEF j
      <3>3. QED
          BY <1>6, <3>1, <3>2
  <2>2. QED
      BY <1>5, <1>7, <2>1 DEF SaveBegins, KeyringRaises
<1>8. CASE WriteChunk(t)
  <2>1. CASE NextChunk(t, "save.pointer")
      <3> DEFINE j == [jobs[t] EXCEPT !.index = @ + 1,
                           !.at = IF jobs[t].index < jobs[t].chunks THEN @ ELSE "save.pointer"]
      <3>1. j.at \in {"save.chunk", "save.pointer"} /\ j.kind = jobs[t].kind
          BY <1>1, <1>8 DEF Jobs, WriteChunk, At
      <3>2. Update(t, j)
          BY <2>1 DEF NextChunk
      <3> HIDE DEF j
      <3>3. QED
          BY <1>6, <3>1, <3>2
  <2>2. CASE Update(t, [jobs[t] EXCEPT !.at = "save.undo", !.chunks = jobs[t].index - 1,
                                       !.index = 1])
      <3> DEFINE j == [jobs[t] EXCEPT !.at = "save.undo", !.chunks = jobs[t].index - 1,
                                      !.index = 1]
      <3>1. j.at = "save.undo" /\ j.kind = jobs[t].kind
          BY <1>1 DEF Jobs
      <3>2. Update(t, j)
          BY <2>2
      <3> HIDE DEF j
      <3>3. QED
          BY <1>6, <3>1, <3>2
  <2>3. QED
      BY <1>8, <2>1, <2>2 DEF WriteChunk, KeyringRaises
<1>9. CASE SwitchPointer(t)
  <2>1. ASSUME NEW step \in {"save.clean", "save.undo"},
               Update(t, [jobs[t] EXCEPT !.at = step, !.index = 1])
        PROVE  Onward(t)
      <3> DEFINE j == [jobs[t] EXCEPT !.at = step, !.index = 1]
      <3>1. j.at = step /\ j.kind = jobs[t].kind
          BY <1>1 DEF Jobs
      <3>2. Update(t, j)
          BY <2>1
      <3> HIDE DEF j
      <3>3. QED
          BY <1>6, <3>1, <3>2
  <2>2. QED
      BY <1>5, <1>9, <2>1 DEF SwitchPointer, KeyringRaises
<1>10. CASE Update(t, [jobs[t] EXCEPT !.index = jobs[t].index + 1])
             /\ jobs[t].at \in {"save.clean", "save.undo"}
  <2> DEFINE j == [jobs[t] EXCEPT !.index = jobs[t].index + 1]
  <2>1. j.at = jobs[t].at /\ j.kind = jobs[t].kind
      BY <1>1 DEF Jobs
  <2>2. Update(t, j)
      BY <1>10
  <2> HIDE DEF j
  <2>3. QED
      BY <1>6, <1>10, <2>1, <2>2
<1>11. CASE CleanPrevious(t) \/ UndoChunks(t)
    BY <1>5, <1>10, <1>11 DEF CleanPrevious, UndoChunks, DeleteQuietly, KeyringRaises, At
<1>12. QED
    BY <1>3, <1>7, <1>8, <1>9, <1>11 DEF Save

LEMMA DeleteOnward ==
    ASSUME IInv, NEW t \in Tasks, Delete(t)
    PROVE  Onward(t) /\ leaving \subseteq leaving'
<1>1. jobs[t] \in Jobs
    BY DEF IInv, TypeOK
<1>2. Working(jobs[t])
  <2>1. jobs[t].at \in {"delete.begin", "delete.chunk", "delete.pointer"}
      BY DEF Delete, DeleteBegins, DeleteChunk, DeletePointer, At
  <2>2. QED
      BY <2>1, WorkingSteps
<1>3. leaving \subseteq leaving'
    BY DEF Delete, DeleteBegins, DeleteChunk, DeletePointer, KeyringRaises, KeyringOnly, OnlyReads
<1> SUFFICES Onward(t)
    BY <1>3
<1>4. {"failed", "ok"} \subseteq Settled \ {"torn"}
    BY DEF Settled
<1>5. CASE Settle(t, "failed") \/ Settle(t, "ok")
    BY <1>2, <1>4, <1>5, SettleOnward
<1>6. CASE DeleteBegins(t) /\ ~(Settle(t, "failed") \/ Settle(t, "ok"))
  <2> DEFINE j == [jobs[t] EXCEPT
                      !.at = IF pointer.chunks = 0 THEN "delete.pointer" ELSE "delete.chunk",
                      !.generation = pointer.generation, !.chunks = pointer.chunks, !.index = 1]
  <2>1. j.at \in {"delete.pointer", "delete.chunk"} /\ j.kind = jobs[t].kind
      BY <1>1 DEF Jobs
  <2>2. Update(t, j)
      BY <1>6 DEF DeleteBegins, KeyringRaises
  <2> HIDE DEF j
  <2>3. QED
      BY <1>2, <2>1, <2>2, UpdateOnward
<1>7. CASE DeleteChunk(t) /\ ~(Settle(t, "failed") \/ Settle(t, "ok"))
  <2> DEFINE j == [jobs[t] EXCEPT !.index = @ + 1,
                       !.at = IF jobs[t].index < jobs[t].chunks THEN @ ELSE "delete.pointer"]
  <2>1. j.at \in {"delete.pointer", "delete.chunk"} /\ j.kind = jobs[t].kind
      BY <1>1, <1>7 DEF Jobs, DeleteChunk, At
  <2>2. Update(t, j)
      BY <1>7 DEF DeleteChunk, KeyringRaises, NextChunk
  <2> HIDE DEF j
  <2>3. QED
      BY <1>2, <2>1, <2>2, UpdateOnward
<1>8. QED
    BY <1>3, <1>5, <1>6, <1>7 DEF Delete, DeletePointer, KeyringRaises

LEMMA ValidTokensOnward ==
    ASSUME IInv, NEW t \in Tasks, ValidTokens(t), ~TakeLock(t)
    PROVE  Onward(t) /\ leaving' = leaving
<1>1. jobs[t] \in Jobs
    BY DEF IInv, TypeOK
<1>2. Working(jobs[t])
  <2>1. jobs[t].at \in {"loaded", "refresh"}
      BY DEF ValidTokens, UseLoaded, RefreshRotates, RefreshKeeps, RefreshRejected, RefreshLost, At
  <2>2. QED
      BY <2>1, WorkingSteps
<1>3. leaving' = leaving
    BY DEF ValidTokens, UseLoaded, RefreshRotates, RefreshKeeps, RefreshRejected, RefreshLost,
           Exchange, KeyringOnly, OnlyReads
<1> SUFFICES Onward(t)
    BY <1>3
<1>4. /\ {"failed", "ok", "expired"} \subseteq Settled \ {"torn"}
      /\ "save.begin" \in Steps \ {"lock", "load.chunk", "loaded", "torn"}
    BY DEF Settled, Steps
<1>5. CASE Settle(t, "failed") \/ Settle(t, "ok") \/ Settle(t, "expired")
    BY <1>2, <1>4, <1>5, SettleOnward
<1>6. CASE Goto(t, "save.begin")
    BY <1>2, <1>4, <1>6, GotoOnward
<1>7. CASE Update(t, [jobs[t] EXCEPT !.at = "refresh", !.token = contents[jobs[t].generation]])
  <2> DEFINE j == [jobs[t] EXCEPT !.at = "refresh", !.token = contents[jobs[t].generation]]
  <2>1. j.at = "refresh" /\ j.kind = jobs[t].kind
      BY <1>1 DEF Jobs
  <2>2. Update(t, j)
      BY <1>7
  <2> HIDE DEF j
  <2>3. QED
      BY <1>2, <2>1, <2>2, UpdateOnward
<1>8. CASE RefreshRotates(t)
  <2> DEFINE j == [jobs[t] EXCEPT !.at = "save.begin", !.token = issued + 1]
  <2>1. j.at = "save.begin" /\ j.kind = jobs[t].kind
      BY <1>1 DEF Jobs
  <2>2. Update(t, j)
      BY <1>8 DEF RefreshRotates, Exchange
  <2> HIDE DEF j
  <2>3. QED
      BY <1>2, <2>1, <2>2, UpdateOnward
<1>9. QED
    BY <1>3, <1>5, <1>6, <1>7, <1>8
    DEF ValidTokens, UseLoaded, RefreshKeeps, RefreshRejected, RefreshLost

LEMMA CommandOnward ==
    ASSUME IInv, ReadInvariant, NEW t \in Tasks, ChooseProvider(t) \/ CancelLogin(t) \/ ReportStatus(t)
    PROVE  Onward(t) /\ leaving' = leaving
<1>1. Working(jobs[t])
  <2>1. CASE CancelLogin(t)
    <3>1. Running(t) /\ jobs[t].at # "lock"
        BY <2>1 DEF CancelLogin, ReadInvariant, OneWorks
    <3>2. QED
        BY <3>1 DEF Running, Working
  <2>2. CASE ChooseProvider(t) \/ ReportStatus(t)
    <3>1. jobs[t].at \in {"login.choose", "loaded"}
        BY <2>2 DEF ChooseProvider, ReportStatus, At
    <3>2. QED
        BY <3>1, WorkingSteps
  <2>3. QED
      BY <2>1, <2>2
<1>2. leaving' = leaving
    BY DEF ChooseProvider, CancelLogin, ReportStatus, Stop, OnlyReads, KeyringOnly
<1>3. {"ok", "failed", "cancelled"} \subseteq Settled \ {"torn"}
    BY DEF Settled
<1>4. Settle(t, "ok") \/ Settle(t, "failed") \/ Settle(t, "cancelled")
    BY DEF ChooseProvider, CancelLogin, ReportStatus
<1>5. QED
    BY <1>1, <1>2, <1>3, <1>4, SettleOnward

(* The loads: what the reader holds is the pointer, and a chunk that the   *)
(* active generation lacks is one a logout has set out to remove.          *)
LEMMA LoadReads ==
    ASSUME IInv, IInv', ReadInvariant, NEW t \in Tasks, LoadPointer(t) \/ LoadChunk(t)
    PROVE  ReadInvariant'
<1>1. /\ jobs[t] \in Jobs /\ Working(jobs[t]) /\ ReadsPointer(jobs[t])
      /\ jobs[t].at \in {"load.begin", "load.chunk"}
  <2>1. jobs[t].at \in {"load.begin", "load.chunk"}
      BY DEF LoadPointer, LoadChunk, At
  <2>2. QED
      BY <2>1, WorkingSteps DEF IInv, TypeOK, ReadInvariant
<1>2. leaving' = leaving /\ pointer' = pointer
    BY DEF LoadPointer, LoadChunk, KeyringRaises, OnlyReads, KeyringOnly
<1>3. {"unauthenticated", "failed"} \subseteq Settled \ {"torn"}
    BY DEF Settled
<1>4. CASE Settle(t, "unauthenticated") \/ Settle(t, "failed")
    BY <1>1, <1>2, <1>3, <1>4, SettleOnward, OnwardReads
<1>5. ASSUME NEW j \in Jobs, Update(t, j), j.kind = jobs[t].kind,
             j.at \in {"load.chunk", "loaded"},
             pointer # None, pointer.generation = j.generation,
             j.at = "load.chunk" => pointer.chunks = j.chunks /\ j.index \in 1..j.chunks
      PROVE  ReadInvariant'
  <2>1. Works(t) /\ jobs'[t] = j
      BY <1>1, <1>5, UpdateIs DEF Works
  <2>2. ReadsPointer(jobs[t])'
      BY <1>2, <1>5, <2>1 DEF ReadsPointer
  <2>3. QED
      BY <1>2, <2>1, <2>2, WorksAlone
<1>6. CASE LoadPointer(t) /\ ~(Settle(t, "unauthenticated") \/ Settle(t, "failed"))
  <2> DEFINE j == [jobs[t] EXCEPT !.at = IF pointer.chunks = 0 THEN "loaded" ELSE "load.chunk",
                                  !.generation = pointer.generation,
                                  !.chunks = pointer.chunks, !.index = 1]
  <2>1. pointer # None /\ Update(t, j)
      BY <1>6 DEF LoadPointer, KeyringRaises
  <2>2. pointer.generation \in Nat /\ pointer.chunks \in 0..MaxChunks /\ pointer.chunks \in Nat
      BY <2>1, TokensAssumption DEF IInv, TypeOK, Manifests
  <2>3. j \in Jobs
      BY <1>1, <2>2 DEF Jobs, Steps
  <2>4. /\ j.kind = jobs[t].kind /\ j.generation = pointer.generation
        /\ j.chunks = pointer.chunks /\ j.index = 1
        /\ j.at \in {"load.chunk", "loaded"}
        /\ j.at = "load.chunk" => pointer.chunks # 0
      BY <1>1 DEF Jobs
  <2> HIDE DEF j
  <2>5. QED
      BY <1>5, <2>1, <2>2, <2>3, <2>4
<1>7. CASE LoadChunk(t) /\ NextChunk(t, "loaded")
  <2> DEFINE j == [jobs[t] EXCEPT !.index = @ + 1,
                       !.at = IF jobs[t].index < jobs[t].chunks THEN @ ELSE "loaded"]
  <2>1. Update(t, j)
      BY <1>7 DEF NextChunk
  <2>2. /\ jobs[t].at = "load.chunk" /\ pointer # None
        /\ pointer.generation = jobs[t].generation /\ pointer.chunks = jobs[t].chunks
        /\ jobs[t].index \in 1..jobs[t].chunks
        /\ jobs[t].chunks \in Nat
      BY <1>1, <1>7, TokensAssumption DEF LoadChunk, At, ReadsPointer, Jobs
  <2>3. /\ jobs[t].index + 1 \in Nat
        /\ (IF jobs[t].index < jobs[t].chunks THEN jobs[t].at ELSE "loaded") \in Steps
      BY <2>2 DEF Steps
  <2>4. j \in Jobs
      BY <1>1, <2>3 DEF Jobs
  <2>5. /\ j.kind = jobs[t].kind /\ j.generation = jobs[t].generation
        /\ j.chunks = jobs[t].chunks /\ j.index = jobs[t].index + 1
        /\ j.at = IF jobs[t].index < jobs[t].chunks THEN "load.chunk" ELSE "loaded"
      BY <1>1, <2>2 DEF Jobs
  <2> HIDE DEF j
  <2>6. j.at = "load.chunk" => j.index \in 1..j.chunks
      BY <2>2, <2>5
  <2>7. QED
      BY <1>5, <2>1, <2>2, <2>4, <2>5, <2>6
<1>8. CASE LoadChunk(t) /\ Settle(t, "torn") /\ <<jobs[t].generation, jobs[t].index>> \notin records
  <2>1. /\ pointer # None /\ pointer.generation = jobs[t].generation
        /\ jobs[t].index \in 1..pointer.chunks
      BY <1>1, <1>8 DEF LoadChunk, At, ReadsPointer
  <2>2. <<jobs[t].generation, jobs[t].index>> \in ChunksOf(pointer)
      BY <2>1 DEF ChunksOf
  <2>3. jobs[t].generation \in leaving
      BY <1>8, <2>1, <2>2 DEF IInv, StoreInv, ActiveIsWhole
  <2>4. "torn" \in Settled
      BY DEF Settled
  <2>5. /\ jobs'[t].at = "torn" /\ jobs'[t].kind = jobs[t].kind
        /\ jobs'[t].generation = jobs[t].generation
        /\ \A u \in Tasks : u # t => jobs'[u] = jobs[u]
      BY <1>8, <2>4, SettleIs
  <2>6. Works(t) /\ ReadsPointer(jobs[t])'
      BY <1>1, <1>2, <2>3, <2>5 DEF Works, ReadsPointer
  <2>7. QED
      BY <1>2, <2>6, WorksAlone
<1>9. QED
    BY <1>4, <1>6, <1>7, <1>8 DEF LoadChunk, KeyringRaises

LEMMA BeginAlone ==
    ASSUME OneProcess, IInv, ReadInvariant, NEW t \in Tasks,
           BeginLogin(t) \/ BeginStatus(t) \/ BeginUse(t) \/ BeginLogout(t)
    PROVE  ReadInvariant'
BY StartAlone DEF BeginLogin, BeginStatus, BeginUse, BeginLogout

LEMMA ReadInductive ==
    ASSUME OneProcess, IInv, IInv', ReadInvariant, [Next]_vars
    PROVE  ReadInvariant'
<1>1. CASE UNCHANGED vars
    BY <1>1 DEF vars, ReadInvariant, OneWorks, ReadsPointer, Running
<1>2. ASSUME NEW t \in Tasks, Command(t)
      PROVE  ReadInvariant'
    BY <1>2, BeginAlone, CommandOnward, OnwardReads DEF Command
<1>3. ASSUME NEW t \in Tasks, ValidTokens(t)
      PROVE  ReadInvariant'
    BY <1>3, TakeLockAlone, ValidTokensOnward, OnwardReads
<1>4. ASSUME NEW t \in Tasks, Save(t) \/ Delete(t)
      PROVE  ReadInvariant'
    BY <1>4, SaveOnward, DeleteOnward, OnwardReads
<1>5. QED
    BY <1>1, <1>2, <1>3, <1>4, LoadReads, CrashAlone DEF Next

LEMMA ReadInvariantHolds ==
    ASSUME OneProcess
    PROVE  Spec => []ReadInvariant
<1>1. Init => ReadInvariant
  <2> SUFFICES ASSUME Init PROVE ReadInvariant
      OBVIOUS
  <2>1. \A t \in Tasks : jobs[t].at = "idle"
      BY DEF Init, NoJob
  <2>2. "idle" \in Settled /\ "idle" \notin {"lock", "load.chunk", "loaded", "torn"}
      BY DEF Settled
  <2>3. QED
      BY <2>1, <2>2 DEF ReadInvariant, OneWorks, ReadsPointer, Running, Working
<1>2. IInv /\ IInv' /\ ReadInvariant /\ [Next]_vars => ReadInvariant'
    BY ReadInductive
<1>3. QED
    BY <1>1, <1>2, InvariantHolds, PTL DEF Spec

(* In one process, a command that has found a pointer gets every chunk of  *)
(* its bundle unless a logout has set out to remove it, whichever keyring  *)
(* calls fail and wherever the process dies                                *)
(* (KeyringCodexOAuthTokenStore.load, save, delete).                       *)
THEOREM BundleIsActivatedAtomically ==
    ASSUME OneProcess
    PROVE  Spec => []AtomicallyActivated
<1>1. ReadInvariant => AtomicallyActivated
    BY DEF ReadInvariant, ReadsPointer, AtomicallyActivated, At
<1>2. QED
    BY <1>1, ReadInvariantHolds, PTL

-----------------------------------------------------------------------------
(* One process, and nothing fails or stops: what the working task has done *)
(* so far, in the records and to the refresh token.                        *)

Faultless == count.faults = 0 /\ count.stops = 0

Saving == {"save.begin", "save.chunk", "save.pointer"}
Writing == {"save.chunk", "save.pointer", "save.clean", "delete.chunk", "delete.pointer"}

(* The records when nobody is in the middle of a save or a logout. *)
Written == IF pointer = None THEN {} ELSE ChunksOf(pointer)

StoredIsLive == pointer # None => contents[pointer.generation] \in live

TokenAtHand(j) ==
    /\ j.at \in {"refresh", "save.begin"} => j.token \in live
    /\ j.at \in {"save.chunk", "save.pointer"} => contents[j.generation] \in live
    /\ j.at \notin Saving => StoredIsLive

ManifestAtHand(j) ==
    /\ j.at # "save.undo"
    /\ j.at \in {"save.chunk", "save.pointer"} => j.previous = pointer
    /\ j.at \in {"delete.chunk", "delete.pointer"} =>
        pointer # None /\ pointer.generation = j.generation
    /\ j.at = "delete.chunk" => pointer.chunks = j.chunks /\ j.index \in 1..j.chunks

RecordsAtHand(j) ==
    /\ j.at = "save.chunk" => records = Written \cup {j.generation} \X (1..(j.index - 1))
    /\ j.at = "save.pointer" => records = Written \cup {j.generation} \X (1..j.chunks)
    /\ j.at = "save.clean" =>
        records = Written \cup {j.previous.generation} \X (j.index..j.previous.chunks)
    /\ j.at = "delete.chunk" => records = {j.generation} \X (j.index..j.chunks)
    /\ j.at = "delete.pointer" => records = {}
    /\ j.at \notin Writing => records = Written

Undisturbed(j) == TokenAtHand(j) /\ ManifestAtHand(j) /\ RecordsAtHand(j)

FaultlessInvariant ==
    Faultless =>
        /\ \A t \in Tasks : jobs[t].at # "expired"
        /\ \A t \in Tasks : Working(jobs[t]) => Undisturbed(jobs[t])
        /\ (\A t \in Tasks : ~Working(jobs[t])) => Undisturbed(NoJob)

(* A fault or a stop is never forgotten. *)
LEMMA FaultShows == ASSUME IInv, Fault \/ Stop PROVE ~Faultless'
BY DEF Fault, Stop, Faultless, IInv, TypeOK

(* A settled job has nothing at hand. *)
LEMMA AtRest ==
    ASSUME NEW j, j.at \in Settled \cup {"lock", "load.begin", "delete.begin"}
    PROVE  Undisturbed(j) <=> StoredIsLive /\ records = Written
<1>1. /\ j.at \notin Saving /\ j.at \notin Writing
      /\ j.at \notin {"refresh", "save.begin", "save.chunk", "save.pointer", "save.clean",
                      "save.undo", "delete.chunk", "delete.pointer"}
    BY DEF Settled, Saving, Writing
<1>2. TokenAtHand(j) <=> StoredIsLive
    BY <1>1 DEF TokenAtHand
<1>3. ManifestAtHand(j)
    BY <1>1 DEF ManifestAtHand
<1>4. RecordsAtHand(j) <=> records = Written
    BY <1>1 DEF RecordsAtHand
<1>5. QED
    BY <1>2, <1>3, <1>4 DEF Undisturbed

LEMMA NoJobAtRest == Undisturbed(NoJob) <=> StoredIsLive /\ records = Written
<1>1. NoJob.at \in Settled
    BY DEF NoJob, Settled
<1>2. QED
    BY <1>1, AtRest

LEMMA AtRestNext ==
    ASSUME NEW t \in Tasks, jobs'[t].at \in Settled, Undisturbed(jobs[t])'
    PROVE  Undisturbed(NoJob)'
<1>1. /\ jobs'[t].at \notin Saving /\ jobs'[t].at \notin Writing
      /\ NoJob.at \notin Saving /\ NoJob.at \notin Writing
      /\ NoJob.at \notin {"refresh", "save.begin", "save.chunk", "save.pointer", "save.clean",
                          "save.undo", "delete.chunk", "delete.pointer"}
    BY DEF Settled, Saving, Writing, NoJob
<1>2. StoredIsLive' /\ records' = Written'
    BY <1>1 DEF Undisturbed, TokenAtHand, RecordsAtHand
<1>3. TokenAtHand(NoJob)'
    BY <1>1, <1>2 DEF TokenAtHand, NoJob
<1>4. ManifestAtHand(NoJob)'
    BY <1>1 DEF ManifestAtHand, NoJob
<1>5. RecordsAtHand(NoJob)'
    BY <1>1, <1>2 DEF RecordsAtHand, NoJob
<1>6. QED
    BY <1>3, <1>4, <1>5 DEF Undisturbed, NoJob

(* The step of the working task keeps the invariant when the task has left *)
(* things as its new position says.                                        *)
LEMMA UndisturbedStep ==
    ASSUME IInv, ReadInvariant, FaultlessInvariant, NEW t \in Tasks, Works(t),
           UNCHANGED count,
           Faultless => jobs[t]'.at # "expired" /\ Undisturbed(jobs[t])'
    PROVE  FaultlessInvariant'
<1> SUFFICES ASSUME Faultless'
             PROVE  /\ \A u \in Tasks : jobs'[u].at # "expired"
                    /\ \A u \in Tasks : Working(jobs'[u]) => Undisturbed(jobs[u])'
                    /\ (\A u \in Tasks : ~Working(jobs'[u])) => Undisturbed(NoJob)'
    BY DEF FaultlessInvariant, Working
<1>1. Faultless
    BY DEF Faultless
<1>2. /\ Working(jobs[t]) /\ jobs'[t].at # "lock"
      /\ \A u \in Tasks : u # t => jobs'[u] = jobs[u]
    BY DEF Works
<1>3. \A u \in Tasks : u # t => ~Working(jobs'[u])
    BY <1>2 DEF ReadInvariant, OneWorks
<1>4. jobs'[t].at # "expired" /\ Undisturbed(jobs[t])'
    BY <1>1
<1>5. \A u \in Tasks : jobs'[u].at # "expired"
    BY <1>1, <1>2, <1>4 DEF FaultlessInvariant
<1>6. ASSUME ~Working(jobs'[t])
      PROVE  Undisturbed(NoJob)'
  <2>1. jobs'[t].at \in Settled
      BY <1>2, <1>6 DEF Working
  <2>2. QED
      BY <1>4, <2>1, AtRestNext
<1>7. QED
    BY <1>3, <1>4, <1>5, <1>6

(* A fault disturbs everything. *)
LEMMA DisturbedStep ==
    ASSUME IInv, Fault \/ Stop
    PROVE  FaultlessInvariant'
BY FaultShows DEF FaultlessInvariant

(* The task settles, or goes on, without touching the store.               *)
LEMMA NothingChanges ==
    ASSUME OnlyReads
    PROVE  /\ UNCHANGED <<pointer, records, contents, live, issued, count>>
           /\ Written' = Written /\ StoredIsLive' = StoredIsLive
BY DEF OnlyReads, KeyringOnly, Written, ChunksOf, StoredIsLive

LEMMA UndisturbedRead ==
    ASSUME IInv, ReadInvariant, FaultlessInvariant, NEW t \in Tasks, Works(t), OnlyReads,
           Faultless => /\ jobs[t]'.at \notin Saving \cup Writing \cup {"expired", "save.undo"}
                        /\ jobs[t].at \notin Saving \cup Writing
                        /\ jobs[t]'.at = "refresh" => jobs[t]'.token \in live
    PROVE  FaultlessInvariant'
<1>1. /\ UNCHANGED <<pointer, records, contents, live, count>>
      /\ Written' = Written /\ StoredIsLive' = StoredIsLive
    BY NothingChanges
<1>2. ASSUME Faultless
      PROVE  jobs'[t].at # "expired" /\ Undisturbed(jobs[t])'
  <2>1. Undisturbed(jobs[t])
      BY <1>2 DEF FaultlessInvariant, Works
  <2>2. StoredIsLive /\ records = Written
      BY <1>2, <2>1 DEF Undisturbed, TokenAtHand, RecordsAtHand
  <2>3. /\ jobs'[t].at \notin Saving /\ jobs'[t].at \notin Writing
        /\ jobs'[t].at \notin {"expired", "save.undo"}
        /\ jobs'[t].at = "refresh" => jobs'[t].token \in live
      BY <1>2
  <2>4. TokenAtHand(jobs[t])'
      BY <1>1, <2>2, <2>3 DEF TokenAtHand, Saving
  <2>5. ManifestAtHand(jobs[t])'
      BY <2>3 DEF ManifestAtHand, Writing
  <2>6. RecordsAtHand(jobs[t])'
      BY <1>1, <2>2, <2>3 DEF RecordsAtHand, Writing
  <2>7. QED
      BY <2>3, <2>4, <2>5, <2>6 DEF Undisturbed
<1>3. QED
    BY <1>1, <1>2, UndisturbedStep

-----------------------------------------------------------------------------
(* The commands and the refresh.                                           *)

(* The first step of a command past the lock finds everything at rest. *)
LEMMA FirstStep ==
    ASSUME IInv, FaultlessInvariant, NEW t \in Tasks,
           \A u \in Tasks : ~Working(jobs[u]),
           \A u \in Tasks : u # t => jobs'[u] = jobs[u],
           UNCHANGED <<pointer, records, contents>>,
           jobs'[t].at \in {"save.begin", "load.begin", "delete.begin"},
           jobs'[t].at = "save.begin" => jobs'[t].token \in live',
           live \subseteq live',
           count'.faults = count.faults, count'.stops = count.stops
    PROVE  FaultlessInvariant'
<1> SUFFICES ASSUME Faultless'
             PROVE  /\ \A u \in Tasks : jobs'[u].at # "expired"
                    /\ \A u \in Tasks : Working(jobs'[u]) => Undisturbed(jobs[u])'
                    /\ (\A u \in Tasks : ~Working(jobs'[u])) => Undisturbed(NoJob)'
    BY DEF FaultlessInvariant, Working
<1>1. Faultless
    BY DEF Faultless
<1>2. Undisturbed(NoJob) /\ \A u \in Tasks : jobs[u].at # "expired"
    BY <1>1 DEF FaultlessInvariant
<1>3. StoredIsLive /\ records = Written
    BY <1>2, NoJobAtRest
<1>4. StoredIsLive' /\ records' = Written'
    BY <1>3 DEF StoredIsLive, Written, ChunksOf
<1>5. Undisturbed(jobs[t])'
  <2>1. TokenAtHand(jobs[t])' /\ ManifestAtHand(jobs[t])'
      BY <1>4 DEF TokenAtHand, ManifestAtHand
  <2>2. RecordsAtHand(jobs[t])'
      BY <1>4 DEF RecordsAtHand
  <2>3. QED
      BY <2>1, <2>2 DEF Undisturbed
<1>6. Working(jobs'[t])
    BY WorkingSteps
<1>7. QED
    BY <1>2, <1>5, <1>6

LEMMA BeginUndisturbed ==
    ASSUME OneProcess, IInv, ReadInvariant, FaultlessInvariant, NEW t \in Tasks,
           BeginLogin(t) \/ BeginStatus(t) \/ BeginUse(t) \/ BeginLogout(t)
    PROVE  FaultlessInvariant'
<1>1. \A u \in Tasks : ~Running(u) => ~Working(jobs[u])
    BY DEF Running, Working
<1>2. ASSUME NEW kind, NEW step, NEW token, Start(t, kind, step, token)
      PROVE  /\ UNCHANGED <<pointer, records, contents>>
             /\ count'.faults = count.faults /\ count'.stops = count.stops
    BY <1>2 DEF Start, IInv, TypeOK
<1>3. CASE BeginLogin(t)
  <2>1. Start(t, "login", "save.begin", issued + 1) /\ live' = live \cup {issued + 1}
      BY <1>3 DEF BeginLogin
  <2>2. /\ jobs'[t].at = "save.begin" /\ jobs'[t].token = issued + 1
        /\ \A u \in Tasks : u # t => jobs'[u] = jobs[u]
        /\ \A u \in Tasks : ~Running(u)
      BY <2>1, StartAlone
  <2>3. QED
      BY <1>1, <1>2, <2>1, <2>2, FirstStep
<1>4. CASE BeginStatus(t)
  <2>1. Start(t, "status", "load.begin", 0) /\ live' = live
      BY <1>4 DEF BeginStatus
  <2>2. /\ jobs'[t].at = "load.begin"
        /\ \A u \in Tasks : u # t => jobs'[u] = jobs[u]
        /\ \A u \in Tasks : ~Running(u)
      BY <2>1, StartAlone
  <2>3. QED
      BY <1>1, <1>2, <2>1, <2>2, FirstStep
<1>5. CASE BeginLogout(t)
  <2>1. Start(t, "logout", "delete.begin", 0) /\ live' = live
      BY <1>5 DEF BeginLogout
  <2>2. /\ jobs'[t].at = "delete.begin"
        /\ \A u \in Tasks : u # t => jobs'[u] = jobs[u]
        /\ \A u \in Tasks : ~Running(u)
      BY <2>1, StartAlone
  <2>3. QED
      BY <1>1, <1>2, <2>1, <2>2, FirstStep
<1>6. CASE BeginUse(t)
  <2>1. Start(t, "use", "lock", 0) /\ live' = live
      BY <1>6 DEF BeginUse
  <2>2. /\ jobs'[t].at = "lock" /\ ~Running(t)
        /\ \A u \in Tasks : u # t => jobs'[u] = jobs[u]
      BY <2>1, StartAlone
  <2>3. \A u \in Tasks : Working(jobs'[u]) <=> u # t /\ Working(jobs[u])
      BY <2>2 DEF Working
  <2>4. \A u \in Tasks : Working(jobs[u]) => u # t
      BY <1>1, <2>2
  <2>5. UNCHANGED <<pointer, records, contents, live>>
        /\ count'.faults = count.faults /\ count'.stops = count.stops
      BY <1>2, <2>1
  <2>6. Undisturbed(NoJob)' <=> Undisturbed(NoJob)
      BY <2>5 DEF Undisturbed, TokenAtHand, ManifestAtHand, RecordsAtHand, StoredIsLive, Written,
                  ChunksOf, NoJob
  <2>7. \A u \in Tasks : u # t => (Undisturbed(jobs[u])' <=> Undisturbed(jobs[u]))
      BY <2>2, <2>5 DEF Undisturbed, TokenAtHand, ManifestAtHand, RecordsAtHand, StoredIsLive,
                        Written, ChunksOf
  <2>8. SUFFICES ASSUME Faultless'
                 PROVE  /\ \A u \in Tasks : jobs'[u].at # "expired"
                        /\ \A u \in Tasks : Working(jobs'[u]) => Undisturbed(jobs[u])'
                        /\ (\A u \in Tasks : ~Working(jobs'[u])) => Undisturbed(NoJob)'
      BY DEF FaultlessInvariant, Working
  <2>9. Faultless
      BY <2>5, <2>8 DEF Faultless
  <2>10. QED
      BY <2>2, <2>3, <2>4, <2>6, <2>7, <2>9 DEF FaultlessInvariant
<1>7. QED
    BY <1>3, <1>4, <1>5, <1>6

LEMMA TakeLockUndisturbed ==
    ASSUME OneProcess, IInv, ReadInvariant, FaultlessInvariant, NEW t \in Tasks, TakeLock(t)
    PROVE  FaultlessInvariant'
<1>1. /\ jobs'[t].at = "load.begin"
      /\ \A u \in Tasks : u # t => jobs'[u] = jobs[u]
      /\ \A u \in Tasks : ~Working(jobs[u])
    BY TakeLockAlone
<1>2. UNCHANGED <<pointer, records, contents, live, count>>
    BY NothingChanges DEF TakeLock
<1>3. QED
    BY <1>1, <1>2, FirstStep

LEMMA CommandUndisturbed ==
    ASSUME IInv, ReadInvariant, FaultlessInvariant, NEW t \in Tasks,
           ChooseProvider(t) \/ CancelLogin(t) \/ ReportStatus(t)
    PROVE  FaultlessInvariant'
<1>1. CASE CancelLogin(t)
    BY <1>1, DisturbedStep DEF CancelLogin
<1>2. CASE ChooseProvider(t) \/ ReportStatus(t)
  <2>1. Works(t) /\ OnlyReads
      BY <1>2, CommandOnward DEF Onward, ChooseProvider, ReportStatus
  <2>2. jobs[t].at \notin Saving \cup Writing
      BY <1>2 DEF ChooseProvider, ReportStatus, At, Saving, Writing
  <2>3. jobs'[t].at \in {"ok", "failed"}
    <3>1. Settle(t, "ok") \/ Settle(t, "failed")
        BY <1>2 DEF ChooseProvider, ReportStatus
    <3>2. {"ok", "failed"} \subseteq Settled
        BY DEF Settled
    <3>3. QED
        BY <3>1, <3>2, SettleIs
  <2>4. jobs'[t].at \notin Saving \cup Writing \cup {"expired", "save.undo"} /\ jobs'[t].at # "refresh"
      BY <2>3 DEF Saving, Writing
  <2>5. QED
      BY <2>1, <2>2, <2>4, UndisturbedRead
<1>3. QED
    BY <1>1, <1>2

LEMMA LoadUndisturbed ==
    ASSUME IInv, IInv', ReadInvariant, FaultlessInvariant, NEW t \in Tasks,
           LoadPointer(t) \/ LoadChunk(t)
    PROVE  FaultlessInvariant'
<1>1. CASE Fault
    BY <1>1, DisturbedStep
<1>2. CASE OnlyReads
  <2>1. jobs[t].at \in {"load.begin", "load.chunk"} /\ jobs[t] \in Jobs
      BY DEF LoadPointer, LoadChunk, At, IInv, TypeOK
  <2>2. Working(jobs[t])
      BY <2>1, WorkingSteps
  <2>3. /\ jobs'[t].kind = jobs[t].kind
        /\ \A u \in Tasks : u # t => jobs'[u] = jobs[u]
        /\ jobs'[t].at \in {"unauthenticated", "failed", "torn", "load.chunk", "loaded"}
    <3>1. ASSUME NEW result \in {"unauthenticated", "failed", "torn"}, Settle(t, result)
          PROVE  /\ jobs'[t].kind = jobs[t].kind /\ jobs'[t].at = result
                 /\ \A u \in Tasks : u # t => jobs'[u] = jobs[u]
      <4>1. result \in Settled
          BY <3>1 DEF Settled
      <4>2. QED
          BY <3>1, <4>1, SettleIs
    <3>2. CASE Settle(t, "unauthenticated") \/ Settle(t, "failed") \/ Settle(t, "torn")
        BY <3>1, <3>2
    <3>3. ASSUME NEW j, Update(t, j), j.kind = jobs[t].kind, j.at \in {"load.chunk", "loaded"}
          PROVE  /\ jobs'[t].kind = jobs[t].kind
                 /\ \A u \in Tasks : u # t => jobs'[u] = jobs[u]
                 /\ jobs'[t].at \in {"load.chunk", "loaded"}
        BY <3>3, UpdateIs
    <3>4. CASE LoadPointer(t) /\ ~(Settle(t, "unauthenticated") \/ Settle(t, "failed"))
      <4> DEFINE j == [jobs[t] EXCEPT !.at = IF pointer.chunks = 0 THEN "loaded" ELSE "load.chunk",
                                      !.generation = pointer.generation,
                                      !.chunks = pointer.chunks, !.index = 1]
      <4>1. j.kind = jobs[t].kind /\ j.at \in {"load.chunk", "loaded"}
          BY <2>1 DEF Jobs
      <4>2. Update(t, j)
          BY <3>4 DEF LoadPointer, KeyringRaises
      <4> HIDE DEF j
      <4>3. QED
          BY <3>3, <4>1, <4>2
    <3>5. CASE LoadChunk(t) /\ NextChunk(t, "loaded")
      <4> DEFINE j == [jobs[t] EXCEPT !.index = @ + 1,
                           !.at = IF jobs[t].index < jobs[t].chunks THEN @ ELSE "loaded"]
      <4>1. j.kind = jobs[t].kind /\ j.at \in {"load.chunk", "loaded"}
          BY <2>1, <3>5 DEF Jobs, LoadChunk, At
      <4>2. Update(t, j)
          BY <3>5 DEF NextChunk
      <4> HIDE DEF j
      <4>3. QED
          BY <3>3, <4>1, <4>2
    <3>6. QED
        BY <3>2, <3>4, <3>5 DEF LoadChunk, KeyringRaises
  <2>4. Works(t)
      BY <2>2, <2>3 DEF Works
  <2>5. /\ jobs[t].at \notin Saving \cup Writing
        /\ jobs'[t].at \notin Saving \cup Writing \cup {"expired", "save.undo"}
        /\ jobs'[t].at # "refresh"
      BY <2>1, <2>3 DEF Saving, Writing
  <2>6. QED
      BY <1>2, <2>4, <2>5, UndisturbedRead
<1>3. QED
    BY <1>1, <1>2 DEF LoadPointer, LoadChunk, KeyringRaises

(* The refresh token is exchanged only while it is the stored one, and the *)
(* one at hand afterwards is live.                                         *)
LEMMA RefreshUndisturbed ==
    ASSUME IInv, ReadInvariant, FaultlessInvariant, NEW t \in Tasks,
           RefreshRotates(t) \/ RefreshKeeps(t) \/ RefreshRejected(t) \/ RefreshLost(t)
    PROVE  FaultlessInvariant'
<1>1. CASE RefreshLost(t)
    BY <1>1, DisturbedStep DEF RefreshLost
<1>2. ASSUME RefreshRotates(t) \/ RefreshKeeps(t) \/ RefreshRejected(t)
      PROVE  FaultlessInvariant'
  <2>1. Works(t)
    <3>1. ValidTokens(t) /\ ~TakeLock(t)
        BY <1>2 DEF ValidTokens, TakeLock, RefreshRotates, RefreshKeeps, RefreshRejected, At
    <3>2. QED
        BY <3>1, ValidTokensOnward DEF Onward
  <2>2. jobs[t] \in Jobs /\ jobs[t].at = "refresh"
      BY <1>2 DEF RefreshRotates, RefreshKeeps, RefreshRejected, At, IInv, TypeOK
  <2>3. Faultless => Undisturbed(jobs[t])
      BY <2>1 DEF FaultlessInvariant, Works
  <2>4. Faultless => jobs[t].token \in live /\ records = Written
      BY <2>2, <2>3 DEF Undisturbed, TokenAtHand, RecordsAtHand, Writing
  <2>5. UNCHANGED <<pointer, records, count>>
      BY <1>2 DEF RefreshRotates, RefreshKeeps, RefreshRejected, Exchange, OnlyReads, KeyringOnly
  <2>6. Written' = Written
      BY <2>5 DEF Written, ChunksOf
  <2>7. Faultless => jobs'[t].at = "save.begin" /\ jobs'[t].token \in live'
    <3>1. CASE RefreshRotates(t)
      <4> DEFINE j == [jobs[t] EXCEPT !.at = "save.begin", !.token = issued + 1]
      <4>1. j.at = "save.begin" /\ j.token = issued + 1
          BY <2>2 DEF Jobs
      <4>2. Update(t, j) /\ issued + 1 \in live'
          BY <3>1 DEF RefreshRotates, Exchange
      <4> HIDE DEF j
      <4>3. QED
          BY <4>1, <4>2, UpdateIs
    <3>2. CASE RefreshKeeps(t)
      <4>1. Goto(t, "save.begin") /\ live' = live /\ "save.begin" \in Steps
          BY <3>2 DEF RefreshKeeps, OnlyReads, KeyringOnly, Steps
      <4>2. QED
          BY <2>4, <4>1, GotoIs
    <3>3. CASE RefreshRejected(t)
        BY <2>4, <3>3 DEF RefreshRejected
    <3>4. QED
        BY <1>2, <3>1, <3>2, <3>3
  <2>8. ASSUME Faultless
        PROVE  Undisturbed(jobs[t])'
    <3>1. jobs'[t].at = "save.begin" /\ jobs'[t].token \in live' /\ records' = Written'
        BY <2>4, <2>5, <2>6, <2>7, <2>8
    <3>2. TokenAtHand(jobs[t])' /\ ManifestAtHand(jobs[t])'
        BY <3>1 DEF TokenAtHand, ManifestAtHand, Saving
    <3>3. RecordsAtHand(jobs[t])'
        BY <3>1 DEF RecordsAtHand
    <3>4. QED
        BY <3>2, <3>3 DEF Undisturbed
  <2>9. QED
      BY <2>1, <2>5, <2>7, <2>8, UndisturbedStep
<1>3. QED
    BY <1>1, <1>2

LEMMA UseLoadedUndisturbed ==
    ASSUME IInv, ReadInvariant, FaultlessInvariant, NEW t \in Tasks, UseLoaded(t)
    PROVE  FaultlessInvariant'
<1>1. Works(t) /\ OnlyReads
  <2>1. ValidTokens(t) /\ ~TakeLock(t)
      BY DEF ValidTokens, TakeLock, UseLoaded, At
  <2>2. QED
      BY <2>1, ValidTokensOnward DEF Onward, UseLoaded
<1>2. jobs[t] \in Jobs /\ jobs[t].at = "loaded" /\ ReadsPointer(jobs[t])
    BY DEF UseLoaded, At, IInv, TypeOK, ReadInvariant
<1>3. jobs[t].at \notin Saving \cup Writing
    BY <1>2 DEF Saving, Writing
<1>4. jobs'[t].at \in {"ok", "failed"} \/ (jobs'[t].at = "refresh"
                                           /\ jobs'[t].token = contents[jobs[t].generation])
  <2>1. CASE Settle(t, "ok") \/ Settle(t, "failed")
    <3>1. {"ok", "failed"} \subseteq Settled
        BY DEF Settled
    <3>2. QED
        BY <2>1, <3>1, SettleIs
  <2>2. CASE Update(t, [jobs[t] EXCEPT !.at = "refresh", !.token = contents[jobs[t].generation]])
    <3> DEFINE j == [jobs[t] EXCEPT !.at = "refresh", !.token = contents[jobs[t].generation]]
    <3>1. j.at = "refresh" /\ j.token = contents[jobs[t].generation]
        BY <1>2 DEF Jobs
    <3>2. Update(t, j)
        BY <2>2
    <3> HIDE DEF j
    <3>3. QED
        BY <3>1, <3>2, UpdateIs
  <2>3. QED
      BY <2>1, <2>2 DEF UseLoaded
<1>5. jobs'[t].at \notin Saving \cup Writing \cup {"expired", "save.undo"}
    BY <1>4 DEF Saving, Writing
<1>6. Faultless => contents[jobs[t].generation] \in live
  <2>1. Faultless => StoredIsLive
      BY <1>1, <1>3 DEF FaultlessInvariant, Works, Undisturbed, TokenAtHand
  <2>2. pointer # None /\ pointer.generation = jobs[t].generation
      BY <1>2 DEF ReadsPointer
  <2>3. QED
      BY <2>1, <2>2 DEF StoredIsLive
<1>7. QED
    BY <1>1, <1>3, <1>4, <1>5, <1>6, UndisturbedRead

-----------------------------------------------------------------------------
(* The save. *)

(* A generation's chunks, one more at a time and one less. *)
LEMMA OneMoreChunk ==
    ASSUME NEW g, NEW i \in Nat \ {0}
    PROVE  {g} \X (1..i) = ({g} \X (1..(i - 1))) \cup {<<g, i>>}
<1>1. 1..i = (1..(i - 1)) \cup {i}
    OBVIOUS
<1>2. QED
    BY <1>1

LEMMA OneChunkLess ==
    ASSUME NEW g, NEW i \in Nat, NEW n \in Nat
    PROVE  ({g} \X (i..n)) \ {<<g, i>>} = {g} \X ((i + 1)..n)
<1>1. (i..n) \ {i} = (i + 1)..n
    OBVIOUS
<1>2. QED
    BY <1>1

LEMMA SaveBeginsUndisturbed ==
    ASSUME IInv, IInv', ReadInvariant, FaultlessInvariant, NEW t \in Tasks, SaveBegins(t)
    PROVE  FaultlessInvariant'
<1>1. CASE Fault
    BY <1>1, DisturbedStep
<1>2. ASSUME NEW n \in 1..MaxChunks,
             Update(t, [jobs[t] EXCEPT !.at = "save.chunk", !.index = 1, !.chunks = n,
                                       !.generation = Len(contents) + 1,
                                       !.previous = pointer]),
             contents' = Append(contents, jobs[t].token),
             UNCHANGED <<pointer, records, live, issued, leaving, count>>
      PROVE  FaultlessInvariant'
  <2>1. Works(t)
    <3>1. Save(t)
        BY DEF Save
    <3>2. QED
        BY <3>1, SaveOnward DEF Onward
  <2>2. /\ jobs[t] \in Jobs /\ jobs[t].at = "save.begin" /\ jobs[t].token \in Nat
        /\ contents \in Seq(Nat)
      BY DEF SaveBegins, At, IInv, TypeOK, Jobs
  <2>3. Faultless => jobs[t].token \in live /\ records = Written
    <3>1. Faultless => Undisturbed(jobs[t])
        BY <2>1 DEF FaultlessInvariant, Works
    <3>2. QED
        BY <2>2, <3>1 DEF Undisturbed, TokenAtHand, RecordsAtHand, Writing
  <2>4. /\ jobs'[t].at = "save.chunk" /\ jobs'[t].index = 1
        /\ jobs'[t].generation = Len(contents) + 1 /\ jobs'[t].previous = pointer
    <3> DEFINE j == [jobs[t] EXCEPT !.at = "save.chunk", !.index = 1, !.chunks = n,
                                    !.generation = Len(contents) + 1, !.previous = pointer]
    <3>1. /\ j.at = "save.chunk" /\ j.index = 1
          /\ j.generation = Len(contents) + 1 /\ j.previous = pointer
        BY <2>2 DEF Jobs
    <3>2. Update(t, j)
        BY <1>2
    <3> HIDE DEF j
    <3>3. QED
        BY <3>1, <3>2, UpdateIs
  <2>5. contents'[Len(contents) + 1] = jobs[t].token
      BY <1>2, <2>2
  <2>6. ASSUME Faultless
        PROVE  Undisturbed(jobs[t])'
    <3>1. TokenAtHand(jobs[t])'
        BY <1>2, <2>3, <2>4, <2>5, <2>6 DEF TokenAtHand, Saving
    <3>2. ManifestAtHand(jobs[t])'
        BY <1>2, <2>4 DEF ManifestAtHand
    <3>3. records' = Written' \cup {jobs'[t].generation} \X (1..(jobs'[t].index - 1))
      <4>1. 1..(jobs'[t].index - 1) = {}
          BY <2>4
      <4>2. {jobs'[t].generation} \X (1..(jobs'[t].index - 1)) = {}
          BY <4>1
      <4>3. records' = Written'
          BY <1>2, <2>3, <2>6 DEF Written, ChunksOf
      <4>4. QED
          BY <4>2, <4>3
    <3>4. RecordsAtHand(jobs[t])'
        BY <2>4, <3>3 DEF RecordsAtHand, Writing
    <3>5. QED
        BY <3>1, <3>2, <3>4 DEF Undisturbed
  <2>7. QED
      BY <1>2, <2>1, <2>4, <2>6, UndisturbedStep
<1>3. QED
    BY <1>1, <1>2 DEF SaveBegins, KeyringRaises

LEMMA WriteChunkUndisturbed ==
    ASSUME IInv, IInv', ReadInvariant, FaultlessInvariant, NEW t \in Tasks, WriteChunk(t)
    PROVE  FaultlessInvariant'
<1>1. CASE Fault
    BY <1>1, DisturbedStep
<1>2. CASE /\ records' = records \cup {<<jobs[t].generation, jobs[t].index>>}
           /\ NextChunk(t, "save.pointer")
           /\ UNCHANGED pointer /\ KeyringOnly
  <2>1. Works(t)
    <3>1. Save(t)
        BY DEF Save
    <3>2. QED
        BY <3>1, SaveOnward DEF Onward
  <2>2. /\ jobs[t] \in Jobs /\ jobs[t].at = "save.chunk"
        /\ jobs[t].chunks \in Nat /\ jobs[t].index \in 1..jobs[t].chunks
    <3>1. jobs[t] \in Jobs /\ JobInv(jobs[t]) /\ jobs[t].at = "save.chunk"
        BY JobOf DEF WriteChunk, At
    <3>2. jobs[t].index \in 1..jobs[t].chunks
        BY <3>1 DEF JobInv
    <3>3. jobs[t].chunks \in Nat
        BY <3>1, TokensAssumption DEF Jobs
    <3>4. QED
        BY <3>1, <3>2, <3>3
  <2>3. Faultless => Undisturbed(jobs[t])
      BY <2>1 DEF FaultlessInvariant, Works
  <2>4. /\ jobs'[t].at = IF jobs[t].index < jobs[t].chunks THEN "save.chunk" ELSE "save.pointer"
        /\ jobs'[t].index = jobs[t].index + 1 /\ jobs'[t].chunks = jobs[t].chunks
        /\ jobs'[t].generation = jobs[t].generation /\ jobs'[t].previous = jobs[t].previous
    <3> DEFINE j == [jobs[t] EXCEPT !.index = @ + 1,
                         !.at = IF jobs[t].index < jobs[t].chunks THEN @ ELSE "save.pointer"]
    <3>1. /\ j.at = IF jobs[t].index < jobs[t].chunks THEN "save.chunk" ELSE "save.pointer"
          /\ j.index = jobs[t].index + 1 /\ j.chunks = jobs[t].chunks
          /\ j.generation = jobs[t].generation /\ j.previous = jobs[t].previous
        BY <2>2 DEF Jobs
    <3>2. Update(t, j)
        BY <1>2 DEF NextChunk
    <3> HIDE DEF j
    <3>3. QED
        BY <3>1, <3>2, UpdateIs
  <2>5. UNCHANGED <<pointer, contents, live, count>> /\ Written' = Written
      BY <1>2 DEF KeyringOnly, Written, ChunksOf
  <2>6. ASSUME Faultless
        PROVE  Undisturbed(jobs[t])'
    <3>1. /\ contents[jobs[t].generation] \in live /\ jobs[t].previous = pointer
          /\ records = Written \cup {jobs[t].generation} \X (1..(jobs[t].index - 1))
        BY <2>2, <2>3, <2>6 DEF Undisturbed, TokenAtHand, ManifestAtHand, RecordsAtHand
    <3>2. TokenAtHand(jobs[t])'
        BY <2>4, <2>5, <3>1 DEF TokenAtHand, Saving
    <3>3. ManifestAtHand(jobs[t])'
        BY <2>4, <2>5, <3>1 DEF ManifestAtHand
    <3>4. records' = Written' \cup {jobs'[t].generation} \X (1..jobs[t].index)
      <4>1. {jobs[t].generation} \X (1..jobs[t].index) =
               ({jobs[t].generation} \X (1..(jobs[t].index - 1)))
                  \cup {<<jobs[t].generation, jobs[t].index>>}
          BY <2>2, OneMoreChunk
      <4>2. QED
          BY <1>2, <2>4, <2>5, <3>1, <4>1
    <3>5. RecordsAtHand(jobs[t])'
      <4>1. CASE jobs[t].index < jobs[t].chunks
        <5>1. jobs'[t].at = "save.chunk" /\ jobs'[t].index - 1 = jobs[t].index
            BY <2>2, <2>4, <4>1
        <5>2. QED
            BY <3>4, <5>1 DEF RecordsAtHand, Writing
      <4>2. CASE ~(jobs[t].index < jobs[t].chunks)
        <5>1. jobs'[t].at = "save.pointer" /\ jobs'[t].chunks = jobs[t].index
            BY <2>2, <2>4, <4>2
        <5>2. QED
            BY <3>4, <5>1 DEF RecordsAtHand, Writing
      <4>3. QED
          BY <4>1, <4>2
    <3>6. QED
        BY <3>2, <3>3, <3>5 DEF Undisturbed
  <2>7. QED
      BY <2>1, <2>4, <2>5, <2>6, UndisturbedStep
<1>3. QED
    BY <1>1, <1>2 DEF WriteChunk, KeyringRaises

(* Saved: the command settles, or login goes on to choose the provider. *)
LEMMA SavedIs ==
    ASSUME IInv, NEW t \in Tasks, Saved(t)
    PROVE  jobs'[t].at \in {"ok", "login.choose"}
<1>1. "ok" \in Settled /\ "login.choose" \in Steps
    BY DEF Settled, Steps
<1>2. QED
    BY <1>1, SettleIs, GotoIs DEF Saved

(* Everything is at rest after a save. *)
LEMMA RestAfter ==
    ASSUME NEW t \in Tasks, jobs'[t].at \in {"ok", "login.choose"},
           StoredIsLive', records' = Written'
    PROVE  jobs'[t].at # "expired" /\ Undisturbed(jobs[t])'
<1>1. /\ jobs'[t].at \notin Saving /\ jobs'[t].at \notin Writing
      /\ jobs'[t].at \notin {"refresh", "save.begin", "save.undo"}
    BY DEF Saving, Writing
<1>2. TokenAtHand(jobs[t])'
    BY <1>1 DEF TokenAtHand, Saving
<1>3. ManifestAtHand(jobs[t])'
    BY <1>1 DEF ManifestAtHand, Writing
<1>4. RecordsAtHand(jobs[t])'
    BY <1>1 DEF RecordsAtHand, Writing
<1>5. QED
    BY <1>2, <1>3, <1>4 DEF Undisturbed

LEMMA SwitchPointerUndisturbed ==
    ASSUME IInv, IInv', ReadInvariant, FaultlessInvariant, NEW t \in Tasks, SwitchPointer(t)
    PROVE  FaultlessInvariant'
<1>1. CASE Fault
    BY <1>1, DisturbedStep
<1>2. CASE /\ pointer' = [generation |-> jobs[t].generation, chunks |-> jobs[t].chunks]
           /\ IF jobs[t].previous # None
              THEN Update(t, [jobs[t] EXCEPT !.at = "save.clean", !.index = 1])
              ELSE Saved(t)
           /\ UNCHANGED records /\ KeyringOnly
  <2>1. Works(t)
    <3>1. Save(t)
        BY DEF Save
    <3>2. QED
        BY <3>1, SaveOnward DEF Onward
  <2>2. jobs[t] \in Jobs /\ jobs[t].at = "save.pointer"
        /\ jobs[t].generation \in Nat \ {0} /\ jobs[t].chunks \in 0..MaxChunks
    <3>1. jobs[t] \in Jobs /\ JobInv(jobs[t]) /\ jobs[t].at = "save.pointer"
        BY JobOf DEF SwitchPointer, At
    <3>2. QED
        BY <3>1 DEF JobInv, Pending, Jobs
  <2>3. ASSUME Faultless
        PROVE  /\ contents[jobs[t].generation] \in live /\ jobs[t].previous = pointer
               /\ records = Written \cup {jobs[t].generation} \X (1..jobs[t].chunks)
    <3>1. Undisturbed(jobs[t])
        BY <2>1, <2>3 DEF FaultlessInvariant, Works
    <3>2. QED
        BY <2>2, <3>1 DEF Undisturbed, TokenAtHand, ManifestAtHand, RecordsAtHand
  <2>4. /\ pointer' # None
        /\ pointer'.generation = jobs[t].generation /\ pointer'.chunks = jobs[t].chunks
    <3>1. pointer' \in Manifests
        BY <1>2, <2>2 DEF Manifests
    <3>2. QED
        BY <1>2, <3>1, TokensAssumption
  <2>5. /\ Written' = {jobs[t].generation} \X (1..jobs[t].chunks)
        /\ UNCHANGED <<records, contents, live, count>>
      BY <1>2, <2>4 DEF Written, ChunksOf, KeyringOnly
  <2>6. Faultless => StoredIsLive'
      BY <2>3, <2>4, <2>5 DEF StoredIsLive
  <2>7. CASE jobs[t].previous = None
    <3>1. Faultless => records' = Written'
        BY <2>3, <2>5, <2>7 DEF Written
    <3>2. jobs'[t].at \in {"ok", "login.choose"}
        BY <1>2, <2>7, SavedIs
    <3>3. QED
        BY <2>1, <2>5, <2>6, <3>1, <3>2, RestAfter, UndisturbedStep
  <2>8. CASE jobs[t].previous # None
    <3>1. /\ jobs'[t].at = "save.clean" /\ jobs'[t].index = 1
          /\ jobs'[t].previous = jobs[t].previous
      <4> DEFINE j == [jobs[t] EXCEPT !.at = "save.clean", !.index = 1]
      <4>1. j.at = "save.clean" /\ j.index = 1 /\ j.previous = jobs[t].previous
          BY <2>2 DEF Jobs
      <4>2. Update(t, j)
          BY <1>2, <2>8
      <4> HIDE DEF j
      <4>3. QED
          BY <4>1, <4>2, UpdateIs
    <3>2. ASSUME Faultless
          PROVE  Undisturbed(jobs[t])'
      <4>1. Written = {jobs[t].previous.generation} \X (1..jobs[t].previous.chunks)
          BY <2>3, <2>8, <3>2 DEF Written, ChunksOf
      <4>2. records' = Written' \cup
               {jobs'[t].previous.generation} \X (jobs'[t].index..jobs'[t].previous.chunks)
          BY <2>3, <2>5, <3>1, <3>2, <4>1
      <4>3. RecordsAtHand(jobs[t])'
          BY <3>1, <4>2 DEF RecordsAtHand, Writing
      <4>4. TokenAtHand(jobs[t])' /\ ManifestAtHand(jobs[t])'
          BY <2>6, <3>1, <3>2 DEF TokenAtHand, ManifestAtHand
      <4>5. QED
          BY <4>3, <4>4 DEF Undisturbed
    <3>3. QED
        BY <2>1, <2>5, <3>1, <3>2, UndisturbedStep
  <2>9. QED
      BY <2>7, <2>8
<1>3. QED
    BY <1>1, <1>2 DEF SwitchPointer, KeyringRaises

LEMMA CleanPreviousUndisturbed ==
    ASSUME IInv, IInv', ReadInvariant, FaultlessInvariant, NEW t \in Tasks, CleanPrevious(t)
    PROVE  FaultlessInvariant'
<1>1. Works(t)
  <2>1. Save(t)
      BY DEF Save
  <2>2. QED
      BY <2>1, SaveOnward DEF Onward
<1>2. /\ jobs[t] \in Jobs /\ jobs[t].at = "save.clean" /\ jobs[t].index \in Nat
      /\ jobs[t].previous.chunks \in Nat
      /\ pointer # None => pointer.generation # jobs[t].previous.generation
  <2>1. jobs[t] \in Jobs /\ JobInv(jobs[t]) /\ jobs[t].at = "save.clean"
      BY JobOf DEF CleanPrevious, At
  <2>2. QED
      BY <2>1, JobOf DEF JobInv
<1>3. ASSUME Faultless
      PROVE  /\ StoredIsLive
             /\ records = Written \cup
                   {jobs[t].previous.generation} \X (jobs[t].index..jobs[t].previous.chunks)
  <2>1. Undisturbed(jobs[t])
      BY <1>1, <1>3 DEF FaultlessInvariant, Works
  <2>2. QED
      BY <1>2, <2>1 DEF Undisturbed, TokenAtHand, RecordsAtHand, Saving
<1>4. CASE Fault
    BY <1>4, DisturbedStep
<1>5. CASE jobs[t].index > jobs[t].previous.chunks /\ Saved(t) /\ OnlyReads
  <2>1. UNCHANGED <<records, count>> /\ Written' = Written /\ StoredIsLive' = StoredIsLive
      BY <1>5, NothingChanges
  <2>2. jobs[t].index..jobs[t].previous.chunks = {}
      BY <1>2, <1>5
  <2>3. {jobs[t].previous.generation} \X (jobs[t].index..jobs[t].previous.chunks) = {}
      BY <2>2
  <2>4. Faultless => StoredIsLive' /\ records' = Written'
      BY <1>3, <2>1, <2>3
  <2>5. jobs'[t].at \in {"ok", "login.choose"}
      BY <1>5, SavedIs
  <2>6. QED
      BY <1>1, <2>1, <2>4, <2>5, RestAfter, UndisturbedStep
<1>6. CASE /\ records' = records \ {<<jobs[t].previous.generation, jobs[t].index>>}
           /\ Update(t, [jobs[t] EXCEPT !.index = jobs[t].index + 1])
           /\ UNCHANGED pointer /\ KeyringOnly
  <2>1. UNCHANGED <<pointer, contents, live, count>> /\ Written' = Written
        /\ StoredIsLive' = StoredIsLive
      BY <1>6 DEF KeyringOnly, Written, ChunksOf, StoredIsLive
  <2>2. /\ jobs'[t].at = "save.clean" /\ jobs'[t].index = jobs[t].index + 1
        /\ jobs'[t].previous = jobs[t].previous
    <3> DEFINE j == [jobs[t] EXCEPT !.index = jobs[t].index + 1]
    <3>1. j.at = "save.clean" /\ j.index = jobs[t].index + 1 /\ j.previous = jobs[t].previous
        BY <1>2 DEF Jobs
    <3>2. Update(t, j)
        BY <1>6
    <3> HIDE DEF j
    <3>3. QED
        BY <3>1, <3>2, UpdateIs
  <2>3. ASSUME Faultless
        PROVE  Undisturbed(jobs[t])'
    <3> DEFINE record == <<jobs[t].previous.generation, jobs[t].index>>
               rest == {jobs[t].previous.generation} \X (jobs[t].index..jobs[t].previous.chunks)
               after == {jobs[t].previous.generation}
                           \X ((jobs[t].index + 1)..jobs[t].previous.chunks)
    <3>1. rest \ {record} = after
        BY <1>2, OneChunkLess
    <3>2. record \notin Written
        BY <1>2 DEF Written, ChunksOf
    <3>3. records = Written \cup rest /\ records' = records \ {record}
        BY <1>3, <1>6, <2>3
    <3>4. records' = Written \cup after
      <4> HIDE DEF record, rest, after
      <4>1. QED
          BY <3>1, <3>2, <3>3
    <3>5. RecordsAtHand(jobs[t])'
        BY <2>1, <2>2, <3>4 DEF RecordsAtHand, Writing
    <3>6. TokenAtHand(jobs[t])' /\ ManifestAtHand(jobs[t])'
        BY <1>3, <2>1, <2>2, <2>3 DEF TokenAtHand, ManifestAtHand
    <3>7. QED
        BY <3>5, <3>6 DEF Undisturbed
  <2>4. QED
      BY <1>1, <2>1, <2>2, <2>3, UndisturbedStep
<1>7. QED
    BY <1>4, <1>5, <1>6 DEF CleanPrevious, DeleteQuietly, KeyringRaises

(* Without faults a save never undoes. *)
LEMMA UndoChunksUndisturbed ==
    ASSUME IInv, ReadInvariant, FaultlessInvariant, NEW t \in Tasks, UndoChunks(t)
    PROVE  FaultlessInvariant'
<1>1. jobs[t].at = "save.undo" /\ Works(t)
  <2>1. Save(t)
      BY DEF Save
  <2>2. QED
      BY <2>1, SaveOnward DEF Onward, UndoChunks, At
<1>2. ~Faultless
    BY <1>1 DEF FaultlessInvariant, Works, Undisturbed, ManifestAtHand
<1>3. CASE Fault
    BY <1>3, DisturbedStep
<1>4. CASE UNCHANGED count
    BY <1>1, <1>2, <1>4, UndisturbedStep
<1>5. QED
    BY <1>3, <1>4 DEF UndoChunks, DeleteQuietly, KeyringRaises, OnlyReads, KeyringOnly

-----------------------------------------------------------------------------
(* The logout. *)

(* What a logout does when nothing fails: it settles with the store at     *)
(* rest, or goes on.                                                       *)
LEMMA LogoutSettles ==
    ASSUME IInv, ReadInvariant, FaultlessInvariant, NEW t \in Tasks, Works(t),
           NEW result \in {"ok", "failed"}, Settle(t, result), UNCHANGED count,
           Faultless => StoredIsLive' /\ records' = Written'
    PROVE  FaultlessInvariant'
<1>1. result \in Settled /\ result \notin Saving \cup Writing
      /\ result \notin {"refresh", "save.begin", "save.undo", "expired"}
    BY DEF Settled, Saving, Writing
<1>2. jobs'[t].at = result
    BY <1>1, SettleIs
<1>3. ASSUME Faultless
      PROVE  Undisturbed(jobs[t])'
  <2>1. TokenAtHand(jobs[t])'
      BY <1>1, <1>2, <1>3 DEF TokenAtHand, Saving
  <2>2. ManifestAtHand(jobs[t])'
      BY <1>1, <1>2 DEF ManifestAtHand, Writing
  <2>3. RecordsAtHand(jobs[t])'
      BY <1>1, <1>2, <1>3 DEF RecordsAtHand, Writing
  <2>4. QED
      BY <2>1, <2>2, <2>3 DEF Undisturbed
<1>4. QED
    BY <1>1, <1>2, <1>3, UndisturbedStep

LEMMA DeleteBeginsUndisturbed ==
    ASSUME IInv, IInv', ReadInvariant, FaultlessInvariant, NEW t \in Tasks, DeleteBegins(t)
    PROVE  FaultlessInvariant'
<1>1. Works(t)
  <2>1. Delete(t)
      BY DEF Delete
  <2>2. QED
      BY <2>1, DeleteOnward DEF Onward
<1>2. jobs[t] \in Jobs /\ jobs[t].at = "delete.begin"
    BY JobOf DEF DeleteBegins, At
<1>3. Faultless => StoredIsLive /\ records = Written
  <2>1. Faultless => Undisturbed(jobs[t])
      BY <1>1 DEF FaultlessInvariant, Works
  <2>2. QED
      BY <1>2, <2>1, AtRest
<1>4. CASE Fault
    BY <1>4, DisturbedStep
<1>5. CASE Settle(t, "ok") /\ OnlyReads
  <2>1. UNCHANGED <<records, count>> /\ Written' = Written /\ StoredIsLive' = StoredIsLive
      BY <1>5, NothingChanges
  <2>2. QED
      BY <1>1, <1>3, <1>5, <2>1, LogoutSettles
<1> DEFINE j == [jobs[t] EXCEPT
                    !.at = IF pointer.chunks = 0 THEN "delete.pointer" ELSE "delete.chunk",
                    !.generation = pointer.generation, !.chunks = pointer.chunks, !.index = 1]
<1>6. CASE /\ pointer # None /\ Update(t, j)
           /\ UNCHANGED <<pointer, records, contents, live, issued, count>>
  <2>1. pointer.chunks \in Nat
      BY <1>6, TokensAssumption DEF IInv, TypeOK, Manifests
  <2>2. /\ j.at = IF pointer.chunks = 0 THEN "delete.pointer" ELSE "delete.chunk"
        /\ j.generation = pointer.generation /\ j.chunks = pointer.chunks /\ j.index = 1
      BY <1>2 DEF Jobs
  <2> HIDE DEF j
  <2>3. jobs'[t] = j
      BY <1>6, UpdateIs
  <2>4. StoredIsLive' = StoredIsLive
      BY <1>6 DEF StoredIsLive
  <2>5. Written = {pointer.generation} \X (1..pointer.chunks)
      BY <1>6 DEF Written, ChunksOf
  <2>6. ASSUME Faultless
        PROVE  Undisturbed(jobs[t])'
    <3>1. TokenAtHand(jobs[t])'
        BY <1>3, <2>2, <2>3, <2>4, <2>6 DEF TokenAtHand
    <3>2. ManifestAtHand(jobs[t])'
        BY <1>6, <2>1, <2>2, <2>3 DEF ManifestAtHand
    <3>3. RecordsAtHand(jobs[t])'
      <4>1. CASE pointer.chunks = 0
        <5>1. 1..pointer.chunks = {}
            BY <4>1
        <5>2. Written = {}
            BY <2>5, <5>1
        <5>3. QED
            BY <1>3, <1>6, <2>2, <2>3, <2>6, <4>1, <5>2 DEF RecordsAtHand, Writing
      <4>2. CASE pointer.chunks # 0
          BY <1>3, <1>6, <2>2, <2>3, <2>5, <2>6, <4>2 DEF RecordsAtHand, Writing
      <4>3. QED
          BY <4>1, <4>2
    <3>4. QED
        BY <3>1, <3>2, <3>3 DEF Undisturbed
  <2>7. QED
      BY <1>1, <1>6, <2>2, <2>3, <2>6, UndisturbedStep
<1>7. QED
    BY <1>4, <1>5, <1>6 DEF DeleteBegins, KeyringRaises

LEMMA DeleteChunkUndisturbed ==
    ASSUME IInv, IInv', ReadInvariant, FaultlessInvariant, NEW t \in Tasks, DeleteChunk(t)
    PROVE  FaultlessInvariant'
<1>1. Works(t)
  <2>1. Delete(t)
      BY DEF Delete
  <2>2. QED
      BY <2>1, DeleteOnward DEF Onward
<1>2. jobs[t] \in Jobs /\ jobs[t].at = "delete.chunk" /\ jobs[t].index \in Nat
    BY JobOf DEF DeleteChunk, At
<1> DEFINE record == <<jobs[t].generation, jobs[t].index>>
<1>3. ASSUME Faultless
      PROVE  /\ StoredIsLive
             /\ pointer # None /\ pointer.generation = jobs[t].generation
             /\ pointer.chunks = jobs[t].chunks /\ jobs[t].index \in 1..jobs[t].chunks
             /\ jobs[t].chunks \in Nat
             /\ records = {jobs[t].generation} \X (jobs[t].index..jobs[t].chunks)
  <2>1. Undisturbed(jobs[t])
      BY <1>1, <1>3 DEF FaultlessInvariant, Works
  <2>2. jobs[t].chunks \in Nat
      BY <1>2, TokensAssumption DEF Jobs
  <2>3. QED
      BY <1>2, <2>1, <2>2 DEF Undisturbed, TokenAtHand, ManifestAtHand, RecordsAtHand, Saving
<1>4. CASE Fault
    BY <1>4, DisturbedStep
<1>5. CASE record \notin records /\ Settle(t, "failed") /\ OnlyReads
  <2>1. ASSUME Faultless PROVE record \in records
    <3>1. jobs[t].index \in jobs[t].index..jobs[t].chunks
        BY <1>3, <2>1
    <3>2. QED
        BY <1>3, <2>1, <3>1
  <2>2. ~Faultless /\ UNCHANGED count
      BY <1>5, <2>1, NothingChanges
  <2>3. QED
      BY <1>1, <2>2, UndisturbedStep
<1>6. CASE /\ records' = records \ {record}
           /\ NextChunk(t, "delete.pointer")
           /\ UNCHANGED pointer /\ KeyringOnly
  <2>1. UNCHANGED <<pointer, contents, live, count>> /\ StoredIsLive' = StoredIsLive
      BY <1>6 DEF KeyringOnly, StoredIsLive
  <2>2. /\ jobs'[t].at = IF jobs[t].index < jobs[t].chunks THEN "delete.chunk" ELSE "delete.pointer"
        /\ jobs'[t].index = jobs[t].index + 1 /\ jobs'[t].chunks = jobs[t].chunks
        /\ jobs'[t].generation = jobs[t].generation
    <3> DEFINE j == [jobs[t] EXCEPT !.index = @ + 1,
                         !.at = IF jobs[t].index < jobs[t].chunks THEN @ ELSE "delete.pointer"]
    <3>1. /\ j.at = IF jobs[t].index < jobs[t].chunks THEN "delete.chunk" ELSE "delete.pointer"
          /\ j.index = jobs[t].index + 1 /\ j.chunks = jobs[t].chunks
          /\ j.generation = jobs[t].generation
        BY <1>2 DEF Jobs
    <3>2. Update(t, j)
        BY <1>6 DEF NextChunk
    <3> HIDE DEF j
    <3>3. QED
        BY <3>1, <3>2, UpdateIs
  <2>3. ASSUME Faultless
        PROVE  Undisturbed(jobs[t])'
    <3>1. records' = {jobs[t].generation} \X ((jobs[t].index + 1)..jobs[t].chunks)
        BY <1>2, <1>3, <1>6, <2>3, OneChunkLess
    <3>2. TokenAtHand(jobs[t])'
        BY <1>3, <2>1, <2>2, <2>3 DEF TokenAtHand
    <3>3. CASE jobs[t].index < jobs[t].chunks
      <4>1. jobs'[t].at = "delete.chunk" /\ jobs'[t].index \in 1..jobs'[t].chunks
          BY <1>3, <2>2, <2>3, <3>3
      <4>2. ManifestAtHand(jobs[t])'
          BY <1>3, <2>1, <2>2, <2>3, <4>1 DEF ManifestAtHand
      <4>3. RecordsAtHand(jobs[t])'
          BY <2>2, <3>1, <4>1 DEF RecordsAtHand, Writing
      <4>4. QED
          BY <3>2, <4>2, <4>3 DEF Undisturbed
    <3>4. CASE ~(jobs[t].index < jobs[t].chunks)
      <4>1. jobs'[t].at = "delete.pointer"
          BY <2>2, <3>4
      <4>2. (jobs[t].index + 1)..jobs[t].chunks = {}
          BY <1>3, <2>3, <3>4
      <4>3. records' = {}
          BY <3>1, <4>2
      <4>4. ManifestAtHand(jobs[t])'
          BY <1>3, <2>1, <2>2, <2>3, <4>1 DEF ManifestAtHand
      <4>5. RecordsAtHand(jobs[t])'
          BY <4>1, <4>3 DEF RecordsAtHand, Writing
      <4>6. QED
          BY <3>2, <4>4, <4>5 DEF Undisturbed
    <3>5. QED
        BY <3>3, <3>4
  <2>4. QED
      BY <1>1, <2>1, <2>2, <2>3, UndisturbedStep
<1>7. QED
    BY <1>4, <1>5, <1>6 DEF DeleteChunk, KeyringRaises

LEMMA DeletePointerUndisturbed ==
    ASSUME IInv, IInv', ReadInvariant, FaultlessInvariant, NEW t \in Tasks, DeletePointer(t)
    PROVE  FaultlessInvariant'
<1>1. Works(t)
  <2>1. Delete(t)
      BY DEF Delete
  <2>2. QED
      BY <2>1, DeleteOnward DEF Onward
<1>2. CASE Fault
    BY <1>2, DisturbedStep
<1>3. CASE pointer' = None /\ Settle(t, "ok") /\ UNCHANGED records /\ KeyringOnly
  <2>1. Faultless => records = {}
      BY <1>1 DEF FaultlessInvariant, Works, DeletePointer, At, Undisturbed, RecordsAtHand
  <2>2. StoredIsLive' /\ Written' = {} /\ UNCHANGED count
      BY <1>3 DEF StoredIsLive, Written, KeyringOnly
  <2>3. QED
      BY <1>1, <1>3, <2>1, <2>2, LogoutSettles
<1>4. QED
    BY <1>2, <1>3 DEF DeletePointer, KeyringRaises

-----------------------------------------------------------------------------
(* The invariant of one undisturbed process, and what it shows.            *)

LEMMA FaultlessInductive ==
    ASSUME OneProcess, IInv, IInv', ReadInvariant, FaultlessInvariant, [Next]_vars
    PROVE  FaultlessInvariant'
<1>1. CASE UNCHANGED vars
    BY <1>1 DEF vars, FaultlessInvariant, Faultless, Undisturbed, TokenAtHand, ManifestAtHand,
                RecordsAtHand, StoredIsLive, Written
<1>2. ASSUME NEW t \in Tasks, Command(t)
      PROVE  FaultlessInvariant'
    BY <1>2, BeginUndisturbed, CommandUndisturbed DEF Command
<1>3. ASSUME NEW t \in Tasks, ValidTokens(t)
      PROVE  FaultlessInvariant'
    BY <1>3, TakeLockUndisturbed, UseLoadedUndisturbed, RefreshUndisturbed DEF ValidTokens
<1>4. ASSUME NEW t \in Tasks, Save(t)
      PROVE  FaultlessInvariant'
    BY <1>4, SaveBeginsUndisturbed, WriteChunkUndisturbed, SwitchPointerUndisturbed,
       CleanPreviousUndisturbed, UndoChunksUndisturbed DEF Save
<1>5. ASSUME NEW t \in Tasks, Delete(t)
      PROVE  FaultlessInvariant'
    BY <1>5, DeleteBeginsUndisturbed, DeleteChunkUndisturbed, DeletePointerUndisturbed DEF Delete
<1>6. ASSUME NEW p \in Processes, Crash(p)
      PROVE  FaultlessInvariant'
    BY <1>6, DisturbedStep DEF Crash
<1>7. QED
    BY <1>1, <1>2, <1>3, <1>4, <1>5, <1>6, LoadUndisturbed DEF Next

LEMMA FaultlessInit == Init => FaultlessInvariant
<1> SUFFICES ASSUME Init PROVE FaultlessInvariant
    OBVIOUS
<1>1. \A t \in Tasks : jobs[t].at = "idle"
    BY DEF Init, NoJob
<1>2. "idle" \in Settled /\ "idle" # "expired"
    BY DEF Settled
<1>3. StoredIsLive
    BY DEF Init, StoredIsLive
<1>4. records = Written
  <2>1. pointer # None => pointer.chunks = 0
      BY DEF Init
  <2>2. 1..0 = {}
      OBVIOUS
  <2>3. QED
      BY <2>1, <2>2 DEF Init, Written, ChunksOf
<1>5. QED
    BY <1>1, <1>2, <1>3, <1>4, NoJobAtRest DEF FaultlessInvariant, Working

LEMMA FaultlessInvariantHolds ==
    ASSUME OneProcess
    PROVE  Spec => []FaultlessInvariant
<1>1. IInv /\ IInv' /\ ReadInvariant /\ FaultlessInvariant /\ [Next]_vars => FaultlessInvariant'
    BY FaultlessInductive
<1>2. QED
    BY <1>1, FaultlessInit, InvariantHolds, ReadInvariantHolds, PTL DEF Spec

LEMMA RestingStore ==
    ASSUME FaultlessInvariant, Faultless, \A t \in Tasks : ~Running(t)
    PROVE  StoredIsLive /\ records = Written
BY NoJobAtRest DEF FaultlessInvariant, Working, Running

(* In one process, while no call fails and nothing is stopped, the stored  *)
(* refresh token is one the server accepts, however often and from however *)
(* many tasks it is refreshed (valid_tokens: lock, refresh, save).         *)
THEOREM StoredTokenIsUsable ==
    ASSUME OneProcess
    PROVE  Spec => []StoredTokenUsable
<1>1. FaultlessInvariant => StoredTokenUsable
    BY RestingStore DEF StoredTokenUsable, StoredIsLive, Faultless
<1>2. QED
    BY <1>1, FaultlessInvariantHolds, PTL

(* ... and no task is told that its authentication has expired: the lock   *)
(* keeps two tasks from presenting the same refresh token (valid_tokens).  *)
THEOREM NoTokenPresentedTwice ==
    ASSUME OneProcess
    PROVE  Spec => []NoTokenReused
<1>1. FaultlessInvariant => NoTokenReused
    BY DEF FaultlessInvariant, Faultless, NoTokenReused, At
<1>2. QED
    BY <1>1, FaultlessInvariantHolds, PTL

(* ... and the keyring holds the chunks of the active bundle and no other, *)
(* whatever saves and logouts went before (save, delete).                  *)
THEOREM KeyringIsTidy ==
    ASSUME OneProcess
    PROVE  Spec => []NoStrayRecords
<1>1. FaultlessInvariant => NoStrayRecords
    BY RestingStore DEF NoStrayRecords, Written, Faultless
<1>2. QED
    BY <1>1, FaultlessInvariantHolds, PTL
=============================================================================
