----------------------------- MODULE CodexTokens -----------------------------
(***************************************************************************)
(* The Codex OAuth token bundle in the OS keyring, and the commands that   *)
(* read, replace, refresh and remove it.  A bundle is cut into chunks, one *)
(* keyring record each, under a fresh generation name; one more record,    *)
(* the pointer, names the active generation and its number of chunks.      *)
(* Nothing spans two keyring calls, so every call is a step of its own.    *)
(*                                                                         *)
(* Tasks are the coroutines that run a command; the tasks of one process   *)
(* share one CodexOAuthTokenManager and its refresh lock.  The server      *)
(* accepts a refresh token until it has exchanged it for another one.  A   *)
(* keyring call may raise and has then changed nothing; a deletion may do  *)
(* so with PasswordDeleteError, the error of a missing record.             *)
(***************************************************************************)
EXTENDS Naturals, Sequences, FiniteSets

CONSTANTS
    Tasks, Processes,
    ProcessOf,   \* the process each task runs in
    MaxChunks,   \* the most chunks a bundle may have (_MAX_KEYRING_CHUNKS)
    MaxJobs,     \* bound: commands started in one behaviour
    MaxFaults,   \* bound: failing keyring calls and lost responses
    MaxStops,    \* bound: interrupted commands and processes that die
    None

Manifests == [generation : Nat \ {0}, chunks : 0..MaxChunks]

ASSUME TokensAssumption ==
    /\ ProcessOf \in [Tasks -> Processes]
    /\ MaxChunks \in Nat \ {0}
    /\ {MaxJobs, MaxFaults, MaxStops} \subseteq Nat
    /\ None \notin Manifests \cup Nat

VARIABLES
    pointer,    \* the pointer record: the active manifest, or None
    records,    \* the chunk records: <<generation, index>>
    contents,   \* the refresh token in the bundle of every generation
    live,       \* the refresh tokens the server accepts
    issued,     \* how many refresh tokens the server has issued
    jobs,       \* the command each task is running
    leaving,    \* history: generations some logout set out to remove
    count       \* commands, faults and stops so far

vars == <<pointer, records, contents, live, issued, jobs, leaving, count>>

Kinds == {"none", "login", "status", "use", "logout"}
Settled == {"idle", "ok", "failed", "unauthenticated", "torn", "expired", "cancelled"}
Steps == Settled \cup {"lock", "load.begin", "load.chunk", "loaded", "refresh",
                       "save.begin", "save.chunk", "save.pointer", "save.clean", "save.undo",
                       "login.choose", "delete.begin", "delete.chunk", "delete.pointer"}

(* generation, chunks: the manifest being read, written or removed; index: *)
(* its next chunk; previous: the manifest a save has found; token: the     *)
(* refresh token at hand.                                                  *)
Jobs == [at : Steps, kind : Kinds, generation : Nat, chunks : 0..MaxChunks, index : Nat,
         previous : Manifests \cup {None}, token : Nat]

NoJob == [at |-> "idle", kind |-> "none", generation |-> 0, chunks |-> 0, index |-> 0,
          previous |-> None, token |-> 0]

ChunksOf(manifest) == {manifest.generation} \X (1..manifest.chunks)

-----------------------------------------------------------------------------
(* The shape of every step. *)

At(t, step) == jobs[t].at = step

Running(t) == jobs[t].at \notin Settled

Update(t, job) == jobs' = [jobs EXCEPT ![t] = job]

Goto(t, step) == Update(t, [jobs[t] EXCEPT !.at = step])

Settle(t, result) ==
    Update(t, [NoJob EXCEPT !.at = result, !.kind = jobs[t].kind,
                            !.generation = jobs[t].generation])

(* From chunk to chunk, then on to the next part of the operation. *)
NextChunk(t, done) ==
    Update(t, [jobs[t] EXCEPT !.index = @ + 1,
                              !.at = IF jobs[t].index < jobs[t].chunks THEN @ ELSE done])

Fault ==
    /\ count.faults < MaxFaults
    /\ count' = [count EXCEPT !.faults = @ + 1]

KeyringRaises(next) ==
    /\ Fault
    /\ next
    /\ UNCHANGED <<pointer, records, contents, live, issued, leaving>>

KeyringOnly == UNCHANGED <<contents, live, issued, leaving, count>>

OnlyReads == UNCHANGED <<pointer, records>> /\ KeyringOnly

(* Every command is a process of its own, except that several calls of     *)
(* valid_tokens() may be awaited in one.                                   *)
Start(t, kind, step, token) ==
    /\ ~Running(t)
    /\ \A u \in Tasks : ProcessOf[u] = ProcessOf[t] /\ Running(u)
                           => kind = "use" /\ jobs[u].kind = "use"
    /\ count.jobs < MaxJobs
    /\ count' = [count EXCEPT !.jobs = @ + 1]
    /\ Update(t, [NoJob EXCEPT !.at = step, !.kind = kind, !.token = token])
    /\ UNCHANGED <<pointer, records, contents, leaving>>

-----------------------------------------------------------------------------
(* save(): the chunks of a new generation, then the pointer, then the      *)
(* chunks of the generation it replaces.                                   *)

(* the bundle is cut into chunks, the generation named, the pointer read *)
SaveBegins(t) ==
    /\ At(t, "save.begin")
    /\ \/ /\ \E n \in 1..MaxChunks :
                Update(t, [jobs[t] EXCEPT !.at = "save.chunk", !.index = 1, !.chunks = n,
                                          !.generation = Len(contents) + 1,
                                          !.previous = pointer])
          /\ contents' = Append(contents, jobs[t].token)
          /\ UNCHANGED <<pointer, records, live, issued, leaving, count>>
       \/ KeyringRaises(Settle(t, "failed"))

(* Mutant: the pointer is switched before the last chunk is written.       *)
WriteChunk_PointerEarly(t) ==
    /\ At(t, "save.chunk")
    /\ \/ /\ records' = records \cup {<<jobs[t].generation, jobs[t].index>>}
          /\ Update(t, [jobs[t] EXCEPT
                !.index = @ + 1,
                !.at = IF jobs[t].index + 1 < jobs[t].chunks THEN @ ELSE "save.pointer"])
          /\ UNCHANGED pointer /\ KeyringOnly
       \/ KeyringRaises(Update(t, [jobs[t] EXCEPT !.at = "save.undo",
                                                  !.chunks = jobs[t].index - 1,
                                                  !.index = 1]))

(* set_password of a chunk; after an error the chunks written are deleted  *)
WriteChunk(t) ==
    /\ At(t, "save.chunk")
    /\ \/ /\ records' = records \cup {<<jobs[t].generation, jobs[t].index>>}
          /\ NextChunk(t, "save.pointer")
          /\ UNCHANGED pointer /\ KeyringOnly
       \/ KeyringRaises(Update(t, [jobs[t] EXCEPT !.at = "save.undo",
                                                  !.chunks = jobs[t].index - 1,
                                                  !.index = 1]))

Saved(t) == IF jobs[t].kind = "login" THEN Goto(t, "login.choose") ELSE Settle(t, "ok")

(* Mutant: the count written is the index after the last chunk.            *)
SwitchPointer_CountsOneMore(t) ==
    /\ At(t, "save.pointer")
    /\ pointer' = [generation |-> jobs[t].generation, chunks |-> jobs[t].index]
    /\ Saved(t)
    /\ UNCHANGED records /\ KeyringOnly

SwitchPointer(t) ==
    /\ At(t, "save.pointer")
    /\ \/ /\ pointer' = [generation |-> jobs[t].generation, chunks |-> jobs[t].chunks]
          /\ IF jobs[t].previous # None
             THEN Update(t, [jobs[t] EXCEPT !.at = "save.clean", !.index = 1])
             ELSE Saved(t)
          /\ UNCHANGED records /\ KeyringOnly
       \/ KeyringRaises(Update(t, [jobs[t] EXCEPT !.at = "save.undo", !.index = 1]))

(* A deletion with suppressed errors: the record may stay. *)
DeleteQuietly(record, next) ==
    \/ records' = records \ {record} /\ next /\ UNCHANGED pointer /\ KeyringOnly
    \/ KeyringRaises(next)

(* Mutant: the clean-up forgets the last chunk.                            *)
CleanPrevious_OffByOne(t) ==
    /\ At(t, "save.clean")
    /\ LET i == jobs[t].index
           previous == jobs[t].previous
       IN  IF i >= previous.chunks
           THEN Saved(t) /\ OnlyReads
           ELSE DeleteQuietly(<<previous.generation, i>>,
                              Update(t, [jobs[t] EXCEPT !.index = i + 1]))

CleanPrevious(t) ==
    /\ At(t, "save.clean")
    /\ LET i == jobs[t].index
           previous == jobs[t].previous
       IN  IF i > previous.chunks
           THEN Saved(t) /\ OnlyReads
           ELSE DeleteQuietly(<<previous.generation, i>>,
                              Update(t, [jobs[t] EXCEPT !.index = i + 1]))

UndoChunks(t) ==
    /\ At(t, "save.undo")
    /\ LET i == jobs[t].index
       IN  IF i > jobs[t].chunks
           THEN Settle(t, "failed") /\ OnlyReads
           ELSE DeleteQuietly(<<jobs[t].generation, i>>,
                              Update(t, [jobs[t] EXCEPT !.index = i + 1]))

Save(t) == SaveBegins(t) \/ WriteChunk(t) \/ SwitchPointer(t) \/ CleanPrevious(t) \/ UndoChunks(t)

-----------------------------------------------------------------------------
(* load(): the pointer, then its chunks.  A pointer with no chunks is a    *)
(* bundle of schema 1, which lies in the pointer record itself.            *)

LoadPointer(t) ==
    /\ At(t, "load.begin")
    /\ \/ pointer = None /\ Settle(t, "unauthenticated") /\ OnlyReads
       \/ /\ pointer # None
          /\ Update(t, [jobs[t] EXCEPT !.at = IF pointer.chunks = 0 THEN "loaded"
                                              ELSE "load.chunk",
                                       !.generation = pointer.generation,
                                       !.chunks = pointer.chunks, !.index = 1])
          /\ OnlyReads
       \/ KeyringRaises(Settle(t, "failed"))

LoadChunk(t) ==
    /\ At(t, "load.chunk")
    /\ \/ /\ IF <<jobs[t].generation, jobs[t].index>> \in records
             THEN NextChunk(t, "loaded")
             ELSE Settle(t, "torn")
          /\ OnlyReads
       \/ KeyringRaises(Settle(t, "failed"))

(* status() *)
ReportStatus(t) ==
    /\ At(t, "loaded") /\ jobs[t].kind = "status"
    /\ Settle(t, "ok")
    /\ OnlyReads

-----------------------------------------------------------------------------
(* valid_tokens(): under the lock, load, then refresh and save if the      *)
(* access token is about to expire.                                        *)

HoldsLock(t) == jobs[t].kind = "use" /\ Running(t) /\ ~At(t, "lock")

(* Mutant: the lock is not taken.                                          *)
TakeLock_Never(t) == At(t, "lock") /\ Goto(t, "load.begin") /\ OnlyReads

TakeLock(t) ==
    /\ At(t, "lock")
    /\ \A u \in Tasks : ProcessOf[u] = ProcessOf[t] => ~HoldsLock(u)
    /\ Goto(t, "load.begin")
    /\ OnlyReads

(* the access token is fresh, or the bundle has no expiry or account *)
UseLoaded(t) ==
    /\ At(t, "loaded") /\ jobs[t].kind = "use"
    /\ \/ Settle(t, "ok")
       \/ Settle(t, "failed")
       \/ Update(t, [jobs[t] EXCEPT !.at = "refresh", !.token = contents[jobs[t].generation]])
    /\ OnlyReads

Exchange(token) ==
    /\ issued' = issued + 1
    /\ live' = (live \ {token}) \cup {issued'}
    /\ UNCHANGED <<pointer, records, contents, leaving>>

(* Mutant: the replaced refresh token is kept in the refreshed bundle.     *)
RefreshRotates_OldToken(t) ==
    /\ At(t, "refresh")
    /\ jobs[t].token \in live
    /\ Exchange(jobs[t].token)
    /\ Update(t, [jobs[t] EXCEPT !.at = "save.begin"])
    /\ UNCHANGED count

RefreshRotates(t) ==
    /\ At(t, "refresh")
    /\ jobs[t].token \in live
    /\ Exchange(jobs[t].token)
    /\ Update(t, [jobs[t] EXCEPT !.at = "save.begin", !.token = issued'])
    /\ UNCHANGED count

(* a response without a refresh token: the old one stays valid *)
RefreshKeeps(t) ==
    /\ At(t, "refresh")
    /\ jobs[t].token \in live
    /\ Goto(t, "save.begin")
    /\ OnlyReads

RefreshRejected(t) ==
    /\ At(t, "refresh")
    /\ jobs[t].token \notin live
    /\ Settle(t, "expired")
    /\ OnlyReads

(* a timeout or an unusable answer, before or after the server has *)
(* exchanged the token *)
RefreshLost(t) ==
    /\ At(t, "refresh")
    /\ Fault
    /\ \/ jobs[t].token \in live /\ Exchange(jobs[t].token)
       \/ UNCHANGED <<pointer, records, contents, live, issued, leaving>>
    /\ Settle(t, "failed")

ValidTokens(t) ==
    \/ TakeLock(t) \/ UseLoaded(t)
    \/ RefreshRotates(t) \/ RefreshKeeps(t) \/ RefreshRejected(t) \/ RefreshLost(t)

-----------------------------------------------------------------------------
(* delete(missing_ok=True): the chunks, which must be there, then the      *)
(* pointer.                                                                *)

DeleteBegins(t) ==
    /\ At(t, "delete.begin")
    /\ \/ pointer = None /\ Settle(t, "ok") /\ OnlyReads
       \/ /\ pointer # None
          /\ Update(t, [jobs[t] EXCEPT !.at = IF pointer.chunks = 0 THEN "delete.pointer"
                                              ELSE "delete.chunk",
                                       !.generation = pointer.generation,
                                       !.chunks = pointer.chunks, !.index = 1])
          /\ leaving' = leaving \cup {pointer.generation}
          /\ UNCHANGED <<pointer, records, contents, live, issued, count>>
       \/ KeyringRaises(Settle(t, "failed"))

DeleteChunk(t) ==
    /\ At(t, "delete.chunk")
    /\ LET record == <<jobs[t].generation, jobs[t].index>>
       IN  \/ /\ record \in records
              /\ records' = records \ {record}
              /\ NextChunk(t, "delete.pointer")
              /\ UNCHANGED pointer /\ KeyringOnly
           \/ record \notin records /\ Settle(t, "failed") /\ OnlyReads
           \/ KeyringRaises(Settle(t, "failed"))

(* With missing_ok, PasswordDeleteError passes for success. *)
DeletePointer(t) ==
    /\ At(t, "delete.pointer")
    /\ \/ pointer' = None /\ Settle(t, "ok") /\ UNCHANGED records /\ KeyringOnly
       \/ KeyringRaises(Settle(t, "ok"))
       \/ KeyringRaises(Settle(t, "failed"))

Delete(t) == DeleteBegins(t) \/ DeleteChunk(t) \/ DeletePointer(t)

-----------------------------------------------------------------------------
(* The commands. *)

(* The device authorization has succeeded: the server has issued a bundle. *)
BeginLogin(t) ==
    /\ Start(t, "login", "save.begin", issued + 1)
    /\ issued' = issued + 1
    /\ live' = live \cup {issued'}

(* After save(), login stores the choice of the provider, which may fail.  *)
ChooseProvider(t) ==
    /\ At(t, "login.choose")
    /\ Settle(t, "ok") \/ Settle(t, "failed")
    /\ OnlyReads

BeginStatus(t) == Start(t, "status", "load.begin", 0) /\ UNCHANGED <<live, issued>>
BeginUse(t) == Start(t, "use", "lock", 0) /\ UNCHANGED <<live, issued>>
BeginLogout(t) == Start(t, "logout", "delete.begin", 0) /\ UNCHANGED <<live, issued>>

Stop ==
    /\ count.stops < MaxStops
    /\ count' = [count EXCEPT !.stops = @ + 1]
    /\ UNCHANGED <<pointer, records, contents, live, issued, leaving>>

(* Ctrl-C during login: KeyboardInterrupt is not an Exception, so save()   *)
(* undoes nothing on the way out.                                          *)
CancelLogin(t) ==
    /\ jobs[t].kind = "login" /\ Running(t)
    /\ Settle(t, "cancelled")
    /\ Stop

(* A process dies, with all of its tasks. *)
Crash(p) ==
    /\ \E t \in Tasks : ProcessOf[t] = p /\ Running(t)
    /\ jobs' = [t \in Tasks |-> IF ProcessOf[t] = p /\ Running(t) THEN NoJob ELSE jobs[t]]
    /\ Stop

Init ==
    /\ pointer \in {None, [generation |-> 1, chunks |-> 0]}
    /\ records = {}
    /\ contents = <<1>>
    /\ live = {1}
    /\ issued = 1
    /\ jobs = [t \in Tasks |-> NoJob]
    /\ leaving = {}
    /\ count = [jobs |-> 0, faults |-> 0, stops |-> 0]

Command(t) ==
    \/ BeginLogin(t) \/ ChooseProvider(t) \/ CancelLogin(t)
    \/ BeginStatus(t) \/ ReportStatus(t)
    \/ BeginUse(t) \/ BeginLogout(t)

Next ==
    \/ \E t \in Tasks :
          Command(t) \/ LoadPointer(t) \/ LoadChunk(t) \/ ValidTokens(t) \/ Save(t) \/ Delete(t)
    \/ \E p \in Processes : Crash(p)

Spec == Init /\ [][Next]_vars

-----------------------------------------------------------------------------
(* Properties. *)

TypeOK ==
    /\ pointer \in Manifests \cup {None}
    /\ records \subseteq Nat \X Nat
    /\ contents \in Seq(Nat)
    /\ live \subseteq Nat
    /\ issued \in Nat
    /\ jobs \in [Tasks -> Jobs]
    /\ leaving \subseteq Nat
    /\ count \in [jobs : Nat, faults : Nat, stops : Nat]

(* Whatever fails, dies or overlaps, every chunk that the active pointer   *)
(* names is there, until a logout sets out to remove that generation       *)
(* (KeyringCodexOAuthTokenStore.save: pointer last, clean-up after it).    *)
ActiveIsWhole ==
    pointer # None /\ pointer.generation \notin leaving => ChunksOf(pointer) \subseteq records

(* The active bundle, as BundleStore sees it; 0 is no generation's name. *)
Active ==
    IF pointer = None THEN None
    ELSE IF ChunksOf(pointer) \subseteq records THEN pointer.generation ELSE 0

Abstract == INSTANCE BundleStore WITH active <- Active, Damaged <- 0

(* The keyring records implement one bundle that is replaced in one step   *)
(* (save, delete), whoever runs at the same time and wherever it stops.    *)
OneBundle == Abstract!Spec

(* A reader that has found a pointer gets the bundle, unless a logout is   *)
(* removing it: docs/credentials.md calls it "one atomically activated     *)
(* token bundle".  Holds while commands run one after the other.           *)
AtomicallyActivated ==
    \A t \in Tasks : At(t, "torn") => jobs[t].generation \in leaving

(* While every call succeeds and one process runs at a time, the stored    *)
(* refresh token is one the server accepts, however often and from however *)
(* many tasks it is refreshed (valid_tokens: lock, refresh, save).         *)
StoredTokenUsable ==
    (count.faults = 0 /\ count.stops = 0 /\ \A t \in Tasks : ~Running(t))
        => (pointer # None => contents[pointer.generation] \in live)

(* ... and no task is ever told that its authentication has expired.       *)
NoTokenReused ==
    count.faults = 0 /\ count.stops = 0 => \A t \in Tasks : ~At(t, "expired")

(* Without faults, no record of a replaced or removed bundle stays behind. *)
NoStrayRecords ==
    (count.faults = 0 /\ count.stops = 0 /\ \A t \in Tasks : ~Running(t))
        => records = (IF pointer = None THEN {} ELSE ChunksOf(pointer))

(* docs/providers/openai-codex.md: "Ctrl+C cancels without writing         *)
(* credentials".  Checked as: no record of its bundle exists afterwards.   *)
CancelledStoresNothing ==
    \A t \in Tasks : At(t, "cancelled") =>
        /\ \A record \in records : record[1] # jobs[t].generation
        /\ pointer # None => pointer.generation # jobs[t].generation
=============================================================================
