----------------------------- MODULE LocalState -----------------------------
(***************************************************************************)
(* NetSage's local state: three YAML files (inventory, credential          *)
(* profiles, SSH host trust), the passwords in the OS keyring, and the     *)
(* commands that change them.  There is no lock: every command is its own  *)
(* process, each store operation loads a whole file and saves it again,    *)
(* and several commands may run at once.                                   *)
(*                                                                         *)
(* Loading and saving a file are one step each: a save writes a temporary  *)
(* file and os.replace puts it in place, so it happens whole or not at all *)
(* (state/atomic.py).  Reads that are combined into one decision are one   *)
(* step.  A save, or a keyring call, may fail without effect (the failure  *)
(* of a store operation's load ends the same way as that of its save), and *)
(* a process may die between two steps.  A command that is refused before  *)
(* it changes anything, by a check of its first step or by the user, is    *)
(* not modelled.                                                           *)
(***************************************************************************)
EXTENDS Naturals, FiniteSets

CONSTANTS
    Processes, Names, Profiles,
    Addresses,    \* host:port
    Keys,         \* public host keys
    MaxJobs,      \* bound: commands started in one behaviour
    MaxFaults,    \* bound: failing saves and keyring calls
    MaxCrashes,   \* bound: processes that die half way
    MaxRekeys,    \* bound: host key changes
    None

DeviceRefs == [address : Addresses, credential : Profiles]
TrustRecords == [address : Addresses, key : Keys]
Inventories == [Names -> DeviceRefs \cup {None}]
TrustFiles == [Names -> TrustRecords \cup {None}]

ASSUME StateAssumption ==
    /\ None \notin DeviceRefs \cup TrustRecords
    /\ None \notin Names \cup Profiles \cup Addresses \cup Keys
    /\ {MaxJobs, MaxFaults, MaxCrashes, MaxRekeys} \subseteq Nat

VARIABLES
    inventory, trust, profiles,   \* the three files
    secrets,        \* profile names with a password in the keyring
    hostKey,        \* the key each address presents
    jobs,           \* the command each process is running
    reviewed,       \* history: <<name, address, key>> a user confirmed
    authenticated,  \* history: <<name, address, key>> a password was sent to
    before,         \* history: files and keyring when the last command started
    count           \* commands, faults, crashes and key changes so far

files == <<inventory, trust, profiles>>
vars == <<files, secrets, hostKey, jobs, reviewed, authenticated, before, count>>

Steps == {"idle", "ok", "failed",
          "add", "add.test", "add.loadTrust", "add.saveTrust", "add.loadInventory",
          "add.saveInventory", "add.loadRollback", "add.saveRollback",
          "remove.save", "remove.loadTrust", "remove.saveTrust",
          "remove.loadRollback", "remove.saveRollback",
          "reset.review", "reset.load", "reset.save",
          "connect.trust", "connect.discover", "connect.auth",
          "profile.secret", "profile.load", "profile.save", "profile.rollback",
          "drop.load", "drop.save", "drop.secret", "drop.loadRollback",
          "drop.saveRollback", "rotate.secret"}

(* name, address, credential: the command's device or profile; pin: the    *)
(* host key it works with; devices, hosts, known: the file as it will be   *)
(* saved.                                                                  *)
Jobs == [at : Steps, name : Names \cup {None}, address : Addresses \cup {None},
         credential : Profiles \cup {None}, pin : Keys \cup {None},
         devices : Inventories \cup {None}, hosts : TrustFiles \cup {None},
         known : (SUBSET Profiles) \cup {None}]

NoJob == [at |-> "idle", name |-> None, address |-> None, credential |-> None,
          pin |-> None, devices |-> None, hosts |-> None, known |-> None]

Settled == {"idle", "ok", "failed"}

Init ==
    /\ inventory = [n \in Names |-> None]
    /\ trust = [n \in Names |-> None]
    /\ profiles = {}
    /\ secrets = {}
    /\ hostKey \in [Addresses -> Keys]
    /\ jobs = [p \in Processes |-> NoJob]
    /\ reviewed = {}
    /\ authenticated = {}
    /\ before = <<inventory, trust, profiles, secrets>>
    /\ count = [jobs |-> 0, faults |-> 0, crashes |-> 0, rekeys |-> 0]

-----------------------------------------------------------------------------
(* The shape of every step. *)

At(p, step) == jobs[p].at = step

Update(p, job) == jobs' = [jobs EXCEPT ![p] = job]

(* Neither a store operation that has saved nor a finished command keeps   *)
(* what it had loaded.                                                     *)
Goto(p, step) ==
    Update(p, IF step \in Settled
              THEN [NoJob EXCEPT !.at = step]
              ELSE [jobs[p] EXCEPT !.at = step, !.devices = None, !.hosts = None,
                                   !.known = None])

(* A command that is accepted by the checks of its first step. *)
Start(p, job) ==
    /\ jobs[p].at \in Settled
    /\ count.jobs < MaxJobs
    /\ Update(p, job)
    /\ before' = <<inventory, trust, profiles, secrets>>
    /\ count' = [count EXCEPT !.jobs = @ + 1]
    /\ UNCHANGED <<files, secrets, hostKey, authenticated>>

(* A step that only reads. *)
OnlyReads == UNCHANGED <<files, secrets, hostKey, reviewed, authenticated, before, count>>

(* A step that writes one thing, which its caller leaves out of the list.  *)
Writes == UNCHANGED <<hostKey, reviewed, authenticated, before, count>>

(* A save or a keyring call that raises and has changed nothing. *)
Fault ==
    /\ count.faults < MaxFaults
    /\ count' = [count EXCEPT !.faults = @ + 1]
    /\ UNCHANGED <<files, secrets, hostKey, reviewed, authenticated, before>>

(* The load of a store operation, with the change it will save. *)
LoadTrust(p, next, record) ==
    Update(p, [jobs[p] EXCEPT !.at = next, !.hosts = [trust EXCEPT ![jobs[p].name] = record]])

LoadDevices(p, next, device) ==
    Update(p, [jobs[p] EXCEPT !.at = next, !.devices = [inventory EXCEPT ![jobs[p].name] = device]])

LoadProfiles(p, next, names) == Update(p, [jobs[p] EXCEPT !.at = next, !.known = names])

(* Its save: the whole file replaced, or an exception and nothing changed. *)
SaveTrust(p, done, raised) ==
    \/ /\ trust' = jobs[p].hosts
       /\ Goto(p, done)
       /\ UNCHANGED <<inventory, profiles, secrets>> /\ Writes
    \/ Fault /\ Goto(p, raised)

SaveDevices(p, done, raised) ==
    \/ /\ inventory' = jobs[p].devices
       /\ Goto(p, done)
       /\ UNCHANGED <<trust, profiles, secrets>> /\ Writes
    \/ Fault /\ Goto(p, raised)

SaveProfiles(p, done, raised) ==
    \/ /\ profiles' = jobs[p].known
       /\ Goto(p, done)
       /\ UNCHANGED <<inventory, trust, secrets>> /\ Writes
    \/ Fault /\ Goto(p, raised)

(* KeyringSecretStore.set_secret and delete_secret(missing_ok=True), which *)
(* takes every PasswordDeleteError for a missing entry.                    *)
SetSecret(p, done, raised) ==
    \/ /\ secrets' = secrets \cup {jobs[p].credential}
       /\ Goto(p, done)
       /\ UNCHANGED files /\ Writes
    \/ Fault /\ Goto(p, raised)

DeleteSecret(p, done, raised) ==
    \/ /\ secrets' = secrets \ {jobs[p].credential}
       /\ Goto(p, done)
       /\ UNCHANGED files /\ Writes
    \/ Fault /\ Goto(p, done)
    \/ Fault /\ Goto(p, raised)

Record(job) == [address |-> job.address, key |-> job.pin]

Device(job) == [address |-> job.address, credential |-> job.credential]

(* LocalState.load_inventory resolves every device's profile and trust     *)
(* record, and raises for the whole inventory if one does not.             *)
Resolved(n) ==
    /\ inventory[n].credential \in profiles
    /\ trust[n] # None
    /\ trust[n].address = inventory[n].address

LoadInventory == \A n \in Names : inventory[n] # None => Resolved(n)

(* KeyringCredentialProvider.resolve *)
Resolves(c) == c \in profiles /\ c \in secrets

(* AsyncSSH with the pinned key: no password is sent to another host. *)
Pinned(job) == hostKey[job.address] = job.pin

-----------------------------------------------------------------------------
(* device add: DeviceOnboardingService.add_device. *)

(* The user confirms the key that the address presents. *)
BeginAddDevice(p) ==
    \E n \in Names, a \in Addresses, c \in profiles :
        /\ Start(p, [NoJob EXCEPT !.at = "add", !.name = n, !.address = a,
                                  !.credential = c, !.pin = hostKey[a]])
        /\ reviewed' = reviewed \cup {<<n, a, hostKey[a]>>}

CheckNewDevice(p) ==
    /\ At(p, "add")
    /\ IF jobs[p].credential \in profiles /\ inventory[jobs[p].name] = None
       THEN Goto(p, "add.test")
       ELSE Goto(p, "failed")
    /\ OnlyReads

(* The password is resolved and sent; the device may prove not READY. *)
TestNewDevice(p) ==
    /\ At(p, "add.test")
    /\ IF Resolves(jobs[p].credential) /\ Pinned(jobs[p])
       THEN /\ authenticated' = authenticated
                    \cup {<<jobs[p].name, jobs[p].address, jobs[p].pin>>}
            /\ Goto(p, "add.loadTrust") \/ Goto(p, "failed")
       ELSE Goto(p, "failed") /\ UNCHANGED authenticated
    /\ UNCHANGED <<files, secrets, hostKey, reviewed, before, count>>

LoadTrustForAdd(p) ==
    /\ At(p, "add.loadTrust")
    /\ IF trust[jobs[p].name] = None
       THEN LoadTrust(p, "add.saveTrust", Record(jobs[p]))
       ELSE Goto(p, "failed")
    /\ OnlyReads

SaveTrustForAdd(p) == At(p, "add.saveTrust") /\ SaveTrust(p, "add.loadInventory", "failed")

(* Mutant: no rollback of the trust record. *)
SaveInventoryForAdd_NoRollback(p) ==
    At(p, "add.saveInventory") /\ SaveDevices(p, "ok", "failed")

LoadInventoryForAdd(p) ==
    /\ At(p, "add.loadInventory")
    /\ IF inventory[jobs[p].name] = None
       THEN LoadDevices(p, "add.saveInventory", Device(jobs[p]))
       ELSE Goto(p, "add.loadRollback")
    /\ OnlyReads

SaveInventoryForAdd(p) == At(p, "add.saveInventory") /\ SaveDevices(p, "ok", "add.loadRollback")

(* host_trust.remove(name, missing_ok=True) in the except branch. *)
LoadTrustForRollback(p) ==
    /\ At(p, "add.loadRollback")
    /\ IF trust[jobs[p].name] = None
       THEN Goto(p, "failed")
       ELSE LoadTrust(p, "add.saveRollback", None)
    /\ OnlyReads

SaveTrustForRollback(p) == At(p, "add.saveRollback") /\ SaveTrust(p, "failed", "failed")

AddDevice(p) ==
    \/ BeginAddDevice(p) \/ CheckNewDevice(p) \/ TestNewDevice(p)
    \/ LoadTrustForAdd(p) \/ SaveTrustForAdd(p)
    \/ LoadInventoryForAdd(p) \/ SaveInventoryForAdd(p)
    \/ LoadTrustForRollback(p) \/ SaveTrustForRollback(p)

-----------------------------------------------------------------------------
(* device remove: the device first, then its trust record; if the trust    *)
(* file cannot be saved the device is added again.                         *)

BeginRemoveDevice(p) ==
    \E n \in {m \in Names : inventory[m] # None} :
        /\ Start(p, [NoJob EXCEPT
                       !.at = "remove.save", !.name = n,
                       !.address = inventory[n].address,
                       !.credential = inventory[n].credential,
                       !.devices = [inventory EXCEPT ![n] = None]])
        /\ UNCHANGED reviewed

(* Mutant: the trust record is left alone. *)
LoadTrustForRemove_Kept(p) == At(p, "remove.loadTrust") /\ Goto(p, "ok") /\ OnlyReads

SaveInventoryForRemove(p) == At(p, "remove.save") /\ SaveDevices(p, "remove.loadTrust", "failed")

LoadTrustForRemove(p) ==
    /\ At(p, "remove.loadTrust")
    /\ IF trust[jobs[p].name] = None
       THEN Goto(p, "ok")
       ELSE LoadTrust(p, "remove.saveTrust", None)
    /\ OnlyReads

SaveTrustForRemove(p) == At(p, "remove.saveTrust") /\ SaveTrust(p, "ok", "remove.loadRollback")

LoadInventoryForRollback(p) ==
    /\ At(p, "remove.loadRollback")
    /\ IF inventory[jobs[p].name] = None
       THEN LoadDevices(p, "remove.saveRollback", Device(jobs[p]))
       ELSE Goto(p, "failed")
    /\ OnlyReads

SaveInventoryForRollback(p) == At(p, "remove.saveRollback") /\ SaveDevices(p, "failed", "failed")

RemoveDevice(p) ==
    \/ BeginRemoveDevice(p) \/ SaveInventoryForRemove(p)
    \/ LoadTrustForRemove(p) \/ SaveTrustForRemove(p)
    \/ LoadInventoryForRollback(p) \/ SaveInventoryForRollback(p)

-----------------------------------------------------------------------------
(* device trust-reset: the device is read once; its address is the one     *)
(* discovered, shown to the user and written, however long that takes.     *)

BeginTrustReset(p) ==
    /\ LoadInventory
    /\ \E n \in {m \in Names : inventory[m] # None} :
          Start(p, [NoJob EXCEPT !.at = "reset.review", !.name = n,
                                 !.address = inventory[n].address])
    /\ UNCHANGED reviewed

(* Mutant: the reviewed key is not handed on. *)
ReviewReplacementKey_PinForgotten(p) ==
    /\ At(p, "reset.review")
    /\ reviewed' = reviewed \cup {<<jobs[p].name, jobs[p].address, hostKey[jobs[p].address]>>}
    /\ Goto(p, "reset.load")
    /\ UNCHANGED <<files, secrets, hostKey, authenticated, before, count>>

(* discover, show the stored and the received key, confirm *)
ReviewReplacementKey(p) ==
    /\ At(p, "reset.review")
    /\ LET pin == hostKey[jobs[p].address]
       IN  IF trust[jobs[p].name] # None
           THEN /\ reviewed' = reviewed \cup {<<jobs[p].name, jobs[p].address, pin>>}
                /\ Update(p, [jobs[p] EXCEPT !.at = "reset.load", !.pin = pin])
           ELSE Goto(p, "failed") /\ UNCHANGED reviewed
    /\ UNCHANGED <<files, secrets, hostKey, authenticated, before, count>>

LoadTrustForReset(p) ==
    /\ At(p, "reset.load")
    /\ IF trust[jobs[p].name] # None
       THEN LoadTrust(p, "reset.save", Record(jobs[p]))
       ELSE Goto(p, "failed")
    /\ OnlyReads

SaveTrustForReset(p) == At(p, "reset.save") /\ SaveTrust(p, "ok", "failed")

ResetTrust(p) ==
    \/ BeginTrustReset(p) \/ ReviewReplacementKey(p)
    \/ LoadTrustForReset(p) \/ SaveTrustForReset(p)

-----------------------------------------------------------------------------
(* device test, and every other command that logs in to a stored device:   *)
(* verify_host, then resolve_credential, then the pinned connection.       *)

BeginConnect(p) ==
    /\ LoadInventory
    /\ \E n \in {m \in Names : inventory[m] # None} :
          Start(p, [NoJob EXCEPT !.at = "connect.trust", !.name = n,
                                 !.address = inventory[n].address,
                                 !.credential = inventory[n].credential])
    /\ UNCHANGED reviewed

(* Mutant: the record's address is not compared. *)
ReadTrust_AnyAddress(p) ==
    /\ At(p, "connect.trust")
    /\ trust[jobs[p].name] # None
    /\ Update(p, [jobs[p] EXCEPT !.at = "connect.discover", !.pin = trust[jobs[p].name].key])
    /\ OnlyReads

(* the record must exist and be bound to this address *)
ReadTrust(p) ==
    /\ At(p, "connect.trust")
    /\ LET record == trust[jobs[p].name]
       IN  IF record # None /\ record.address = jobs[p].address
           THEN Update(p, [jobs[p] EXCEPT !.at = "connect.discover", !.pin = record.key])
           ELSE Goto(p, "failed")
    /\ OnlyReads

(* the pin used from here on is the discovered key *)
VerifyHost(p) ==
    /\ At(p, "connect.discover")
    /\ LET discovered == hostKey[jobs[p].address]
       IN  IF discovered = jobs[p].pin
           THEN Update(p, [jobs[p] EXCEPT !.at = "connect.auth", !.pin = discovered])
           ELSE Goto(p, "failed")
    /\ OnlyReads

Authenticate(p) ==
    /\ At(p, "connect.auth")
    /\ IF Resolves(jobs[p].credential) /\ Pinned(jobs[p])
       THEN /\ authenticated' = authenticated
                    \cup {<<jobs[p].name, jobs[p].address, jobs[p].pin>>}
            /\ Goto(p, "ok")
       ELSE Goto(p, "failed") /\ UNCHANGED authenticated
    /\ UNCHANGED <<files, secrets, hostKey, reviewed, before, count>>

Connect(p) == BeginConnect(p) \/ ReadTrust(p) \/ VerifyHost(p) \/ Authenticate(p)

-----------------------------------------------------------------------------
(* credentials add: the secret first, then the metadata. *)

(* Mutant: a keyring that fails goes unnoticed. *)
StoreNewSecret_Swallowed(p) ==
    At(p, "profile.secret") /\ SetSecret(p, "profile.load", "profile.load")

BeginAddProfile(p) ==
    /\ \E c \in Profiles \ profiles :
          Start(p, [NoJob EXCEPT !.at = "profile.secret", !.credential = c])
    /\ UNCHANGED reviewed

StoreNewSecret(p) == At(p, "profile.secret") /\ SetSecret(p, "profile.load", "failed")

LoadProfilesForAdd(p) ==
    /\ At(p, "profile.load")
    /\ IF jobs[p].credential \in profiles
       THEN Goto(p, "profile.rollback")
       ELSE LoadProfiles(p, "profile.save", profiles \cup {jobs[p].credential})
    /\ OnlyReads

SaveProfilesForAdd(p) == At(p, "profile.save") /\ SaveProfiles(p, "ok", "profile.rollback")

RollbackSecret(p) == At(p, "profile.rollback") /\ DeleteSecret(p, "failed", "failed")

AddProfile(p) ==
    \/ BeginAddProfile(p) \/ StoreNewSecret(p) \/ LoadProfilesForAdd(p)
    \/ SaveProfilesForAdd(p) \/ RollbackSecret(p)

-----------------------------------------------------------------------------
(* credentials remove: refused while a device refers to the profile; then  *)
(* the metadata, then the secret.                                          *)

(* Mutant: the inventory is not consulted. *)
BeginRemoveProfile_Unchecked(p) ==
    /\ \E c \in profiles : Start(p, [NoJob EXCEPT !.at = "drop.load", !.credential = c])
    /\ UNCHANGED reviewed

Referenced(c) == \E n \in Names : inventory[n] # None /\ inventory[n].credential = c

BeginRemoveProfile(p) ==
    /\ \E c \in profiles :
          /\ ~Referenced(c)
          /\ Start(p, [NoJob EXCEPT !.at = "drop.load", !.credential = c])
    /\ UNCHANGED reviewed

LoadProfilesForRemove(p) ==
    /\ At(p, "drop.load")
    /\ IF jobs[p].credential \in profiles
       THEN LoadProfiles(p, "drop.save", profiles \ {jobs[p].credential})
       ELSE Goto(p, "failed")
    /\ OnlyReads

SaveProfilesForRemove(p) == At(p, "drop.save") /\ SaveProfiles(p, "drop.secret", "failed")

DeleteOldSecret(p) == At(p, "drop.secret") /\ DeleteSecret(p, "ok", "drop.loadRollback")

LoadProfilesForRollback(p) ==
    /\ At(p, "drop.loadRollback")
    /\ IF jobs[p].credential \in profiles
       THEN Goto(p, "failed")
       ELSE LoadProfiles(p, "drop.saveRollback", profiles \cup {jobs[p].credential})
    /\ OnlyReads

SaveProfilesForRollback(p) == At(p, "drop.saveRollback") /\ SaveProfiles(p, "failed", "failed")

RemoveProfile(p) ==
    \/ BeginRemoveProfile(p) \/ LoadProfilesForRemove(p) \/ SaveProfilesForRemove(p)
    \/ DeleteOldSecret(p) \/ LoadProfilesForRollback(p) \/ SaveProfilesForRollback(p)

-----------------------------------------------------------------------------
(* credentials rotate: only the keyring value changes. *)

BeginRotate(p) ==
    /\ \E c \in profiles :
          Start(p, [NoJob EXCEPT !.at = "rotate.secret", !.credential = c])
    /\ UNCHANGED reviewed

StoreRotatedSecret(p) == At(p, "rotate.secret") /\ SetSecret(p, "ok", "failed")

Rotate(p) == BeginRotate(p) \/ StoreRotatedSecret(p)

-----------------------------------------------------------------------------
(* A process dies half way: what it had loaded is gone, nothing is undone. *)
Crash(p) ==
    /\ jobs[p].at \notin Settled
    /\ count.crashes < MaxCrashes
    /\ count' = [count EXCEPT !.crashes = @ + 1]
    /\ Update(p, NoJob)
    /\ UNCHANGED <<files, secrets, hostKey, reviewed, authenticated, before>>

(* The host behind an address gets another key. *)
HostRekeyed ==
    /\ count.rekeys < MaxRekeys
    /\ count' = [count EXCEPT !.rekeys = @ + 1]
    /\ \E a \in Addresses, k \in Keys :
          k # hostKey[a] /\ hostKey' = [hostKey EXCEPT ![a] = k]
    /\ UNCHANGED <<files, secrets, jobs, reviewed, authenticated, before>>

Next ==
    \/ \E p \in Processes :
          \/ AddDevice(p) \/ RemoveDevice(p) \/ ResetTrust(p) \/ Connect(p)
          \/ AddProfile(p) \/ RemoveProfile(p) \/ Rotate(p) \/ Crash(p)
    \/ HostRekeyed

Spec == Init /\ [][Next]_vars

-----------------------------------------------------------------------------
(* Properties.                                                             *)

(* Every variable has its type; a command that is not running holds no     *)
(* loaded file.                                                            *)
TypeOK ==
    /\ inventory \in Inventories
    /\ trust \in TrustFiles
    /\ profiles \subseteq Profiles
    /\ secrets \subseteq Profiles
    /\ hostKey \in [Addresses -> Keys]
    /\ jobs \in [Processes -> Jobs]
    /\ reviewed \subseteq Names \X Addresses \X Keys
    /\ authenticated \subseteq Names \X Addresses \X Keys
    /\ before \in Inventories \X TrustFiles \X (SUBSET Profiles) \X (SUBSET Profiles)
    /\ count \in [jobs : Nat, faults : Nat, crashes : Nat, rekeys : Nat]
    /\ \A p \in Processes : jobs[p].at \in Settled => jobs[p] = [NoJob EXCEPT !.at = jobs[p].at]

(* A stored fingerprint, and a host a password was sent to, is one that a  *)
(* user confirmed for that very device and address: no interleaving of     *)
(* commands, stale read, rollback or key change makes NetSage trust        *)
(* another (SSHHostTrustManager.verify, add_device, trust-reset).          *)
OnlyReviewedKeys ==
    /\ authenticated \subseteq reviewed
    /\ \A n \in Names : trust[n] # None => <<n, trust[n].address, trust[n].key>> \in reviewed

(* With one command at a time, every device resolves after any fault,      *)
(* rollback or crash: one that does not makes load_inventory fail for all. *)
InventoryResolves == LoadInventory

(* With one command at a time, a profile always has its password: the      *)
(* secret is written before the metadata and deleted after it.             *)
ProfilesHaveSecrets == profiles \subseteq secrets

(* With one command at a time, a command that reports failure has left     *)
(* the files and the keyring as it found them (the except branches of      *)
(* add_device, remove_device, add_password_profile and remove_profile).    *)
FailureUndoes ==
    (count.crashes = 0 /\ \E p \in Processes : At(p, "failed"))
        => before = <<inventory, trust, profiles, secrets>>

(* Only a crash leaves a trust record without its device behind, and only  *)
(* a crash or a failing keyring a password without its profile.            *)
NothingOrphaned ==
    (count.crashes = 0 /\ \A p \in Processes : jobs[p].at \in Settled)
        => /\ \A n \in Names : trust[n] # None => inventory[n] # None
           /\ count.faults = 0 => secrets \subseteq profiles
=============================================================================
