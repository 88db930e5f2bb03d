--------------------------- MODULE LocalState_proofs ---------------------------
(***************************************************************************)
(* The local state: for any number of processes, that only reviewed host   *)
(* keys are stored and used; and with one command at a time, that every    *)
(* device resolves, every profile has its password and a failing command   *)
(* has undone what it did.                                                 *)
(***************************************************************************)
EXTENDS LocalState, TLAPS

-----------------------------------------------------------------------------
(* What a command carries at each of its steps, whatever others do.        *)

AddSteps == {"add", "add.test", "add.loadTrust", "add.saveTrust", "add.loadInventory",
             "add.saveInventory", "add.loadRollback", "add.saveRollback"}

RemoveSteps == {"remove.save", "remove.loadTrust", "remove.saveTrust",
                "remove.loadRollback", "remove.saveRollback"}

ResetSteps == {"reset.review", "reset.load", "reset.save"}

ConnectSteps == {"connect.trust", "connect.discover", "connect.auth"}

DeviceSteps == AddSteps \cup RemoveSteps \cup ResetSteps \cup ConnectSteps

CredentialSteps == Steps \ (Settled \cup ResetSteps)

PinnedSteps == AddSteps \cup {"reset.load", "reset.save", "connect.discover", "connect.auth"}

TrustSaves == {"add.saveTrust", "add.saveRollback", "remove.saveTrust", "reset.save"}

InventorySaves == {"add.saveInventory", "remove.save", "remove.saveRollback"}

ProfileSaves == {"profile.save", "drop.save", "drop.saveRollback"}

(* Every record of the trust file h is in r.                               *)
ReviewedFile(h, r) ==
    \A n \in Names : h[n] # None => <<n, h[n].address, h[n].key>> \in r

(* The key a command works with, and every record of a trust file it has   *)
(* loaded, was reviewed before (r).                                        *)
Carries(job, r) ==
    /\ job.at \in DeviceSteps => job.name \in Names /\ job.address \in Addresses
    /\ job.at \in CredentialSteps => job.credential \in Profiles
    /\ job.at \in PinnedSteps => /\ job.pin \in Keys
                                 /\ <<job.name, job.address, job.pin>> \in r
    /\ job.at \in TrustSaves => job.hosts \in TrustFiles /\ ReviewedFile(job.hosts, r)
    /\ job.at \in InventorySaves => job.devices \in Inventories
    /\ job.at \in ProfileSaves => job.known \in SUBSET Profiles

KeysInvariant ==
    /\ TypeOK
    /\ authenticated \subseteq reviewed
    /\ ReviewedFile(trust, reviewed)
    /\ \A p \in Processes : Carries(jobs[p], reviewed)

SettledShape(job) == job.at \in Settled => job = [NoJob EXCEPT !.at = job.at]

JobsKept ==
    /\ jobs' \in [Processes -> Jobs]
    /\ \A p \in Processes : SettledShape(jobs'[p]) /\ Carries(jobs'[p], reviewed')

LEMMA CarriesStays ==
    ASSUME NEW job, NEW r, NEW s, r \subseteq s, Carries(job, r)
    PROVE  Carries(job, s)
BY DEF Carries, ReviewedFile

(* One job replaced: what it takes for the jobs to be as before.           *)
LEMMA Replaced ==
    ASSUME KeysInvariant, NEW p \in Processes, NEW job \in Jobs, Update(p, job),
           SettledShape(job), Carries(job, reviewed'), reviewed \subseteq reviewed'
    PROVE  JobsKept /\ jobs'[p] = job
<1>1. jobs \in [Processes -> Jobs] /\ jobs' = [jobs EXCEPT ![p] = job]
    BY DEF KeysInvariant, TypeOK, Update
<1>2. \A q \in Processes : SettledShape(jobs[q]) /\ Carries(jobs[q], reviewed')
    BY CarriesStays DEF KeysInvariant, TypeOK, SettledShape
<1>3. QED
    BY <1>1, <1>2 DEF JobsKept

(* A command that moves on without loading anything. *)
Moves(from, to) ==
    \/ to \in Settled
    \/ /\ to \in DeviceSteps => from \in DeviceSteps
       /\ to \in CredentialSteps => from \in CredentialSteps
       /\ to \in PinnedSteps => from \in PinnedSteps
       /\ to \notin TrustSaves \cup InventorySaves \cup ProfileSaves

LEMMA GotoKeeps ==
    ASSUME KeysInvariant, NEW p \in Processes, NEW step \in Steps, Goto(p, step),
           Moves(jobs[p].at, step), reviewed \subseteq reviewed'
    PROVE  JobsKept
<1> DEFINE job == IF step \in Settled
                  THEN [NoJob EXCEPT !.at = step]
                  ELSE [jobs[p] EXCEPT !.at = step, !.devices = None, !.hosts = None,
                                       !.known = None]
<1>1. jobs[p] \in Jobs /\ Carries(jobs[p], reviewed') /\ SettledShape(jobs[p])
    BY CarriesStays DEF KeysInvariant, TypeOK, SettledShape
<1>2. job \in Jobs /\ job.at = step
    BY <1>1 DEF Jobs, NoJob
<1>3. SettledShape(job)
    BY <1>2 DEF SettledShape
<1>4. Carries(job, reviewed')
  <2>1. CASE step \in Settled
      BY <1>2, <2>1 DEF Carries, Settled, DeviceSteps, AddSteps, RemoveSteps, ResetSteps,
                        ConnectSteps, CredentialSteps, PinnedSteps, TrustSaves,
                        InventorySaves, ProfileSaves
  <2>2. CASE step \notin Settled
    <3>1. /\ job.name = jobs[p].name /\ job.address = jobs[p].address
          /\ job.credential = jobs[p].credential /\ job.pin = jobs[p].pin
        BY <1>1, <2>2 DEF Jobs
    <3>2. QED
        BY <1>1, <1>2, <2>2, <3>1 DEF Carries, Moves
  <2>3. QED
      BY <2>1, <2>2
<1>5. Update(p, job)
    BY DEF Goto
<1>6. QED
    BY <1>2, <1>3, <1>4, <1>5, Replaced

(* The three loads. *)
LEMMA LoadTrustKeeps ==
    ASSUME KeysInvariant, NEW p \in Processes, NEW next \in TrustSaves,
           NEW record \in TrustRecords \cup {None},
           record # None => <<jobs[p].name, record.address, record.key>> \in reviewed,
           jobs[p].at \in DeviceSteps,
           next \in CredentialSteps => jobs[p].at \in CredentialSteps,
           next \in PinnedSteps => jobs[p].at \in PinnedSteps,
           LoadTrust(p, next, record), UNCHANGED reviewed
    PROVE  JobsKept
<1> DEFINE hosts == [trust EXCEPT ![jobs[p].name] = record]
           job == [jobs[p] EXCEPT !.at = next, !.hosts = hosts]
<1>1. /\ jobs[p] \in Jobs /\ Carries(jobs[p], reviewed)
      /\ trust \in TrustFiles /\ ReviewedFile(trust, reviewed)
    BY DEF KeysInvariant, TypeOK
<1>2. hosts \in TrustFiles
    BY <1>1 DEF TrustFiles
<1>3. ReviewedFile(hosts, reviewed)
    BY <1>1 DEF TrustFiles, ReviewedFile
<1>4. next \in Steps /\ next \notin Settled \cup InventorySaves \cup ProfileSaves
    BY DEF TrustSaves, Steps, Settled, InventorySaves, ProfileSaves
<1> HIDE DEF hosts
<1>5. /\ job \in Jobs /\ job.at = next /\ job.hosts = hosts
      /\ job.name = jobs[p].name /\ job.address = jobs[p].address
      /\ job.credential = jobs[p].credential /\ job.pin = jobs[p].pin
    BY <1>1, <1>2, <1>4 DEF Jobs
<1>6. SettledShape(job) /\ Carries(job, reviewed)
    BY <1>1, <1>2, <1>3, <1>4, <1>5 DEF SettledShape, Carries
<1>7. Update(p, job)
    BY DEF LoadTrust, hosts
<1>8. QED
    BY <1>5, <1>6, <1>7, Replaced

LEMMA LoadDevicesKeeps ==
    ASSUME KeysInvariant, NEW p \in Processes, NEW next \in InventorySaves,
           NEW device \in DeviceRefs \cup {None},
           jobs[p].at \in DeviceSteps, jobs[p].at \in CredentialSteps,
           next \in PinnedSteps => jobs[p].at \in PinnedSteps,
           LoadDevices(p, next, device), UNCHANGED reviewed
    PROVE  JobsKept
<1> DEFINE devices == [inventory EXCEPT ![jobs[p].name] = device]
           job == [jobs[p] EXCEPT !.at = next, !.devices = devices]
<1>1. jobs[p] \in Jobs /\ Carries(jobs[p], reviewed) /\ inventory \in Inventories
    BY DEF KeysInvariant, TypeOK
<1>2. devices \in Inventories
    BY <1>1 DEF Inventories
<1>3. next \in Steps /\ next \notin Settled \cup TrustSaves \cup ProfileSaves
    BY DEF TrustSaves, Steps, Settled, InventorySaves, ProfileSaves
<1> HIDE DEF devices
<1>4. /\ job \in Jobs /\ job.at = next /\ job.devices = devices
      /\ job.name = jobs[p].name /\ job.address = jobs[p].address
      /\ job.credential = jobs[p].credential /\ job.pin = jobs[p].pin
    BY <1>1, <1>2, <1>3 DEF Jobs
<1>5. SettledShape(job) /\ Carries(job, reviewed)
    BY <1>1, <1>2, <1>3, <1>4 DEF SettledShape, Carries
<1>6. Update(p, job)
    BY DEF LoadDevices, devices
<1>7. QED
    BY <1>4, <1>5, <1>6, Replaced

LEMMA LoadProfilesKeeps ==
    ASSUME KeysInvariant, NEW p \in Processes, NEW next \in ProfileSaves,
           NEW names \in SUBSET Profiles,
           jobs[p].at \in CredentialSteps,
           LoadProfiles(p, next, names), UNCHANGED reviewed
    PROVE  JobsKept
<1> DEFINE job == [jobs[p] EXCEPT !.at = next, !.known = names]
<1>1. jobs[p] \in Jobs /\ Carries(jobs[p], reviewed)
    BY DEF KeysInvariant, TypeOK
<1>2. /\ next \in Steps
      /\ next \notin Settled \cup TrustSaves \cup InventorySaves \cup DeviceSteps \cup PinnedSteps
    BY DEF TrustSaves, Steps, Settled, InventorySaves, ProfileSaves, DeviceSteps,
           PinnedSteps, AddSteps, RemoveSteps, ResetSteps, ConnectSteps
<1>3. /\ job \in Jobs /\ job.at = next /\ job.known = names
      /\ job.credential = jobs[p].credential
    BY <1>1, <1>2 DEF Jobs
<1>4. SettledShape(job) /\ Carries(job, reviewed)
    BY <1>1, <1>2, <1>3 DEF SettledShape, Carries
<1>5. Update(p, job)
    BY DEF LoadProfiles
<1>6. QED
    BY <1>3, <1>4, <1>5, Replaced

-----------------------------------------------------------------------------
(* What a step does beside moving its command.                             *)

LEMMA ReadsKeep ==
    ASSUME KeysInvariant, OnlyReads, JobsKept
    PROVE  KeysInvariant'
BY DEF KeysInvariant, TypeOK, OnlyReads, files, JobsKept, SettledShape, ReviewedFile

LEMMA FaultKeeps ==
    ASSUME KeysInvariant, Fault, JobsKept
    PROVE  KeysInvariant'
BY DEF KeysInvariant, TypeOK, Fault, files, JobsKept, SettledShape, ReviewedFile

LEMMA StartKeeps ==
    ASSUME KeysInvariant, NEW p \in Processes, NEW job \in Jobs, Start(p, job),
           job.at \notin Settled, Carries(job, reviewed'), reviewed \subseteq reviewed',
           reviewed' \subseteq Names \X Addresses \X Keys
    PROVE  KeysInvariant'
<1>1. JobsKept
    BY Replaced DEF Start, SettledShape
<1>2. ReviewedFile(trust, reviewed')
    BY DEF KeysInvariant, ReviewedFile
<1>3. authenticated \subseteq reviewed'
    BY DEF KeysInvariant
<1>4. /\ before' \in Inventories \X TrustFiles \X (SUBSET Profiles) \X (SUBSET Profiles)
      /\ count' \in [jobs : Nat, faults : Nat, crashes : Nat, rekeys : Nat]
    BY DEF KeysInvariant, TypeOK, Start
<1>5. UNCHANGED <<inventory, trust, profiles, secrets, hostKey, authenticated>>
    BY DEF Start, files
<1>6. QED
    BY <1>1, <1>2, <1>3, <1>4, <1>5
    DEF KeysInvariant, TypeOK, JobsKept, SettledShape, ReviewedFile

LEMMA SaveTrustKeeps ==
    ASSUME KeysInvariant, NEW p \in Processes, NEW done \in Steps, NEW raised \in Steps,
           jobs[p].at \in TrustSaves, Moves(jobs[p].at, done), Moves(jobs[p].at, raised),
           SaveTrust(p, done, raised)
    PROVE  KeysInvariant'
<1>1. CASE Fault /\ Goto(p, raised)
    BY <1>1, GotoKeeps, FaultKeeps DEF Fault
<1>2. CASE /\ trust' = jobs[p].hosts /\ Goto(p, done)
           /\ UNCHANGED <<inventory, profiles, secrets>> /\ Writes
  <2>1. JobsKept
      BY <1>2, GotoKeeps DEF Writes
  <2>2. trust' \in TrustFiles /\ ReviewedFile(trust', reviewed)
      BY <1>2 DEF KeysInvariant, Carries
  <2>3. QED
      BY <1>2, <2>1, <2>2 DEF KeysInvariant, TypeOK, Writes, JobsKept, SettledShape, ReviewedFile
<1>3. QED
    BY <1>1, <1>2 DEF SaveTrust

LEMMA SaveDevicesKeeps ==
    ASSUME KeysInvariant, NEW p \in Processes, NEW done \in Steps, NEW raised \in Steps,
           jobs[p].at \in InventorySaves, Moves(jobs[p].at, done), Moves(jobs[p].at, raised),
           SaveDevices(p, done, raised)
    PROVE  KeysInvariant'
<1>1. CASE Fault /\ Goto(p, raised)
    BY <1>1, GotoKeeps, FaultKeeps DEF Fault
<1>2. CASE /\ inventory' = jobs[p].devices /\ Goto(p, done)
           /\ UNCHANGED <<trust, profiles, secrets>> /\ Writes
  <2>1. JobsKept
      BY <1>2, GotoKeeps DEF Writes
  <2>2. inventory' \in Inventories
      BY <1>2 DEF KeysInvariant, Carries
  <2>3. QED
      BY <1>2, <2>1, <2>2 DEF KeysInvariant, TypeOK, Writes, JobsKept, SettledShape, ReviewedFile
<1>3. QED
    BY <1>1, <1>2 DEF SaveDevices

LEMMA SaveProfilesKeeps ==
    ASSUME KeysInvariant, NEW p \in Processes, NEW done \in Steps, NEW raised \in Steps,
           jobs[p].at \in ProfileSaves, Moves(jobs[p].at, done), Moves(jobs[p].at, raised),
           SaveProfiles(p, done, raised)
    PROVE  KeysInvariant'
<1>1. CASE Fault /\ Goto(p, raised)
    BY <1>1, GotoKeeps, FaultKeeps DEF Fault
<1>2. CASE /\ profiles' = jobs[p].known /\ Goto(p, done)
           /\ UNCHANGED <<inventory, trust, secrets>> /\ Writes
  <2>1. JobsKept
      BY <1>2, GotoKeeps DEF Writes
  <2>2. profiles' \subseteq Profiles
      BY <1>2 DEF KeysInvariant, Carries
  <2>3. QED
      BY <1>2, <2>1, <2>2 DEF KeysInvariant, TypeOK, Writes, JobsKept, SettledShape, ReviewedFile
<1>3. QED
    BY <1>1, <1>2 DEF SaveProfiles

(* set_secret and delete_secret. *)
LEMMA SecretKeeps ==
    ASSUME KeysInvariant, NEW p \in Processes, NEW done \in Steps, NEW raised \in Steps,
           jobs[p].at \in CredentialSteps, Moves(jobs[p].at, done), Moves(jobs[p].at, raised),
           SetSecret(p, done, raised) \/ DeleteSecret(p, done, raised)
    PROVE  KeysInvariant'
<1>1. ASSUME NEW step \in {done, raised}, Fault /\ Goto(p, step)
      PROVE  KeysInvariant'
    BY <1>1, GotoKeeps, FaultKeeps DEF Fault
<1>2. CASE /\ secrets' \in {secrets \cup {jobs[p].credential}, secrets \ {jobs[p].credential}}
           /\ Goto(p, done) /\ UNCHANGED files /\ Writes
  <2>1. JobsKept
      BY <1>2, GotoKeeps DEF Writes
  <2>2. secrets' \subseteq Profiles
      BY <1>2 DEF KeysInvariant, TypeOK, Carries
  <2>3. QED
      BY <1>2, <2>1, <2>2
      DEF KeysInvariant, TypeOK, Writes, files, JobsKept, SettledShape, ReviewedFile
<1>3. QED
    BY <1>1, <1>2 DEF SetSecret, DeleteSecret

-----------------------------------------------------------------------------
(* The steps of the commands.                                              *)

LEMMA AddDeviceKeeps ==
    ASSUME KeysInvariant, NEW p \in Processes, AddDevice(p)
    PROVE  KeysInvariant'
<1> USE DEF At, Moves, Steps, Settled, DeviceSteps, AddSteps, RemoveSteps, ResetSteps,
            ConnectSteps, CredentialSteps, PinnedSteps, TrustSaves, InventorySaves, ProfileSaves
<1>1. CASE BeginAddDevice(p)
  <2>1. PICK n \in Names, a \in Addresses, c \in profiles :
            /\ Start(p, [NoJob EXCEPT !.at = "add", !.name = n, !.address = a,
                                      !.credential = c, !.pin = hostKey[a]])
            /\ reviewed' = reviewed \cup {<<n, a, hostKey[a]>>}
      BY <1>1 DEF BeginAddDevice
  <2> DEFINE job == [NoJob EXCEPT !.at = "add", !.name = n, !.address = a,
                                  !.credential = c, !.pin = hostKey[a]]
  <2>2. c \in Profiles /\ hostKey[a] \in Keys
      BY DEF KeysInvariant, TypeOK
  <2>3. /\ job \in Jobs /\ job.at = "add" /\ job.name = n /\ job.address = a
        /\ job.credential = c /\ job.pin = hostKey[a]
      BY <2>2 DEF Jobs, NoJob
  <2>4. reviewed' \subseteq Names \X Addresses \X Keys
      BY <2>1, <2>2 DEF KeysInvariant, TypeOK
  <2> HIDE DEF job
  <2>5. Carries(job, reviewed')
      BY <2>1, <2>2, <2>3 DEF Carries
  <2>6. Start(p, job)
      BY <2>1 DEF job
  <2>7. QED
      BY <2>1, <2>3, <2>4, <2>5, <2>6, StartKeeps
<1>2. CASE CheckNewDevice(p)
  <2>1. JobsKept
      BY <1>2, GotoKeeps DEF CheckNewDevice, OnlyReads
  <2>2. QED
      BY <1>2, <2>1, ReadsKeep DEF CheckNewDevice
<1>3. CASE TestNewDevice(p)
  <2>1. JobsKept
      BY <1>3, GotoKeeps DEF TestNewDevice
  <2>2. <<jobs[p].name, jobs[p].address, jobs[p].pin>> \in reviewed
      BY <1>3 DEF TestNewDevice, KeysInvariant, Carries
  <2>3. authenticated' \subseteq reviewed /\ UNCHANGED <<files, secrets, hostKey, reviewed, before, count>>
      BY <1>3, <2>2 DEF TestNewDevice, KeysInvariant
  <2>4. QED
      BY <2>1, <2>3 DEF KeysInvariant, TypeOK, files, JobsKept, SettledShape, ReviewedFile
<1>4. CASE LoadTrustForAdd(p)
  <2>1. jobs[p].at = "add.loadTrust" /\ UNCHANGED reviewed /\ OnlyReads
      BY <1>4 DEF LoadTrustForAdd, OnlyReads
  <2>2. Carries(jobs[p], reviewed)
      BY DEF KeysInvariant
  <2>3. /\ Record(jobs[p]) \in TrustRecords
        /\ <<jobs[p].name, Record(jobs[p]).address, Record(jobs[p]).key>> \in reviewed
      BY <2>1, <2>2 DEF Carries, Record, TrustRecords
  <2>4. ASSUME LoadTrust(p, "add.saveTrust", Record(jobs[p]))
        PROVE  JobsKept
      BY <2>1, <2>3, <2>4, LoadTrustKeeps
  <2>5. JobsKept
      BY <1>4, <2>1, <2>4, GotoKeeps DEF LoadTrustForAdd
  <2>6. QED
      BY <2>1, <2>5, ReadsKeep
<1>5. CASE SaveTrustForAdd(p)
    BY <1>5, SaveTrustKeeps DEF SaveTrustForAdd
<1>6. CASE LoadInventoryForAdd(p)
  <2>1. jobs[p].at = "add.loadInventory" /\ UNCHANGED reviewed /\ OnlyReads
      BY <1>6 DEF LoadInventoryForAdd, OnlyReads
  <2>2. Device(jobs[p]) \in DeviceRefs
      BY <2>1 DEF KeysInvariant, Carries, Device, DeviceRefs
  <2>3. JobsKept
      BY <1>6, <2>1, <2>2, LoadDevicesKeeps, GotoKeeps DEF LoadInventoryForAdd
  <2>4. QED
      BY <2>1, <2>3, ReadsKeep
<1>7. CASE SaveInventoryForAdd(p)
    BY <1>7, SaveDevicesKeeps DEF SaveInventoryForAdd
<1>8. CASE LoadTrustForRollback(p)
  <2>1. jobs[p].at = "add.loadRollback" /\ UNCHANGED reviewed /\ OnlyReads
      BY <1>8 DEF LoadTrustForRollback, OnlyReads
  <2>2. ASSUME LoadTrust(p, "add.saveRollback", None)
        PROVE  JobsKept
      BY <2>1, <2>2, LoadTrustKeeps
  <2>3. JobsKept
      BY <1>8, <2>1, <2>2, GotoKeeps DEF LoadTrustForRollback
  <2>4. QED
      BY <2>1, <2>3, ReadsKeep
<1>9. CASE SaveTrustForRollback(p)
    BY <1>9, SaveTrustKeeps DEF SaveTrustForRollback
<1>10. QED
    BY <1>1, <1>2, <1>3, <1>4, <1>5, <1>6, <1>7, <1>8, <1>9 DEF AddDevice

LEMMA RemoveDeviceKeeps ==
    ASSUME KeysInvariant, NEW p \in Processes, RemoveDevice(p)
    PROVE  KeysInvariant'
<1> USE DEF At, Moves, Steps, Settled, DeviceSteps, AddSteps, RemoveSteps, ResetSteps,
            ConnectSteps, CredentialSteps, PinnedSteps, TrustSaves, InventorySaves, ProfileSaves
<1>1. CASE BeginRemoveDevice(p)
  <2>1. PICK n \in Names :
            /\ inventory[n] # None /\ UNCHANGED reviewed
            /\ Start(p, [NoJob EXCEPT
                           !.at = "remove.save", !.name = n,
                           !.address = inventory[n].address,
                           !.credential = inventory[n].credential,
                           !.devices = [inventory EXCEPT ![n] = None]])
      BY <1>1 DEF BeginRemoveDevice
  <2> DEFINE devices == [inventory EXCEPT ![n] = None]
             job == [NoJob EXCEPT !.at = "remove.save", !.name = n,
                                  !.address = inventory[n].address,
                                  !.credential = inventory[n].credential,
                                  !.devices = devices]
  <2>2. inventory \in Inventories /\ inventory[n] \in DeviceRefs
      BY <2>1 DEF KeysInvariant, TypeOK, Inventories
  <2>3. devices \in Inventories
      BY <2>2 DEF Inventories
  <2> HIDE DEF devices
  <2>4. /\ job \in Jobs /\ job.at = "remove.save" /\ job.name = n
        /\ job.address \in Addresses /\ job.credential \in Profiles /\ job.devices = devices
      BY <2>2, <2>3 DEF Jobs, NoJob, DeviceRefs
  <2>5. Start(p, job)
      BY <2>1 DEF devices
  <2> HIDE DEF job
  <2>6. Carries(job, reviewed')
      BY <2>3, <2>4 DEF Carries
  <2>7. QED
      BY <2>1, <2>4, <2>5, <2>6, StartKeeps DEF KeysInvariant, TypeOK
<1>2. CASE SaveInventoryForRemove(p)
    BY <1>2, SaveDevicesKeeps DEF SaveInventoryForRemove
<1>3. CASE LoadTrustForRemove(p)
  <2>1. jobs[p].at = "remove.loadTrust" /\ UNCHANGED reviewed /\ OnlyReads
      BY <1>3 DEF LoadTrustForRemove, OnlyReads
  <2>2. ASSUME LoadTrust(p, "remove.saveTrust", None)
        PROVE  JobsKept
      BY <2>1, <2>2, LoadTrustKeeps
  <2>3. JobsKept
      BY <1>3, <2>1, <2>2, GotoKeeps DEF LoadTrustForRemove
  <2>4. QED
      BY <2>1, <2>3, ReadsKeep
<1>4. CASE SaveTrustForRemove(p)
  <2>1. jobs[p].at = "remove.saveTrust" /\ SaveTrust(p, "ok", "remove.loadRollback")
      BY <1>4 DEF SaveTrustForRemove
  <2>2. Moves(jobs[p].at, "ok") /\ Moves(jobs[p].at, "remove.loadRollback")
      BY <2>1
  <2> HIDE DEF Moves
  <2>3. QED
      BY <2>1, <2>2, SaveTrustKeeps
<1>5. CASE LoadInventoryForRollback(p)
  <2>1. jobs[p].at = "remove.loadRollback" /\ UNCHANGED reviewed /\ OnlyReads
      BY <1>5 DEF LoadInventoryForRollback, OnlyReads
  <2>2. Device(jobs[p]) \in DeviceRefs
      BY <2>1 DEF KeysInvariant, Carries, Device, DeviceRefs
  <2>3. JobsKept
      BY <1>5, <2>1, <2>2, LoadDevicesKeeps, GotoKeeps DEF LoadInventoryForRollback
  <2>4. QED
      BY <2>1, <2>3, ReadsKeep
<1>6. CASE SaveInventoryForRollback(p)
    BY <1>6, SaveDevicesKeeps DEF SaveInventoryForRollback
<1>7. QED
    BY <1>1, <1>2, <1>3, <1>4, <1>5, <1>6 DEF RemoveDevice

LEMMA ResetTrustKeeps ==
    ASSUME KeysInvariant, NEW p \in Processes, ResetTrust(p)
    PROVE  KeysInvariant'
<1> USE DEF At, Moves, Steps, Settled, DeviceSteps, AddSteps, RemoveSteps, ResetSteps,
            ConnectSteps, CredentialSteps, PinnedSteps, TrustSaves, InventorySaves, ProfileSaves
<1>1. CASE BeginTrustReset(p)
  <2>1. PICK n \in Names :
            /\ inventory[n] # None /\ UNCHANGED reviewed
            /\ Start(p, [NoJob EXCEPT !.at = "reset.review", !.name = n,
                                      !.address = inventory[n].address])
      BY <1>1 DEF BeginTrustReset
  <2> DEFINE job == [NoJob EXCEPT !.at = "reset.review", !.name = n,
                                  !.address = inventory[n].address]
  <2>2. inventory[n].address \in Addresses
      BY <2>1 DEF KeysInvariant, TypeOK, Inventories, DeviceRefs
  <2>3. /\ job \in Jobs /\ job.at = "reset.review" /\ job.name = n
        /\ job.address \in Addresses
      BY <2>2 DEF Jobs, NoJob
  <2>4. Start(p, job)
      BY <2>1
  <2> HIDE DEF job
  <2>5. Carries(job, reviewed')
      BY <2>3 DEF Carries
  <2>6. QED
      BY <2>1, <2>3, <2>4, <2>5, StartKeeps DEF KeysInvariant, TypeOK
<1>2. CASE ReviewReplacementKey(p)
  <2> DEFINE pin == hostKey[jobs[p].address]
             job == [jobs[p] EXCEPT !.at = "reset.load", !.pin = pin]
  <2>1. jobs[p].at = "reset.review" /\ jobs[p] \in Jobs /\ Carries(jobs[p], reviewed)
      BY <1>2 DEF ReviewReplacementKey, KeysInvariant, TypeOK
  <2>2. jobs[p].name \in Names /\ jobs[p].address \in Addresses /\ pin \in Keys
      BY <2>1 DEF Carries, KeysInvariant, TypeOK
  <2>3. UNCHANGED <<files, secrets, hostKey, authenticated, before, count>>
      BY <1>2 DEF ReviewReplacementKey
  <2>4. CASE /\ reviewed' = reviewed \cup {<<jobs[p].name, jobs[p].address, pin>>}
             /\ Update(p, job)
    <3>1. reviewed \subseteq reviewed' /\ reviewed' \subseteq Names \X Addresses \X Keys
        BY <2>2, <2>4 DEF KeysInvariant, TypeOK
    <3>2. /\ job \in Jobs /\ job.at = "reset.load" /\ job.name = jobs[p].name
          /\ job.address = jobs[p].address /\ job.pin = pin
        BY <2>1, <2>2 DEF Jobs
    <3>3. Carries(job, reviewed') /\ SettledShape(job)
        BY <2>2, <2>4, <3>2 DEF Carries, SettledShape
    <3>4. JobsKept
        BY <2>4, <3>1, <3>2, <3>3, Replaced
    <3>5. QED
        BY <2>3, <3>1, <3>4 DEF KeysInvariant, TypeOK, files, JobsKept, SettledShape, ReviewedFile
  <2>5. CASE Goto(p, "failed") /\ UNCHANGED reviewed
    <3>1. JobsKept
        BY <2>5, GotoKeeps
    <3>2. QED
        BY <2>3, <2>5, <3>1 DEF KeysInvariant, TypeOK, files, JobsKept, SettledShape, ReviewedFile
  <2>6. QED
      BY <1>2, <2>4, <2>5 DEF ReviewReplacementKey
<1>3. CASE LoadTrustForReset(p)
  <2>1. jobs[p].at = "reset.load" /\ UNCHANGED reviewed /\ OnlyReads
      BY <1>3 DEF LoadTrustForReset, OnlyReads
  <2>2. Carries(jobs[p], reviewed)
      BY DEF KeysInvariant
  <2>3. /\ Record(jobs[p]) \in TrustRecords
        /\ <<jobs[p].name, Record(jobs[p]).address, Record(jobs[p]).key>> \in reviewed
      BY <2>1, <2>2 DEF Carries, Record, TrustRecords
  <2>4. ASSUME LoadTrust(p, "reset.save", Record(jobs[p]))
        PROVE  JobsKept
      BY <2>1, <2>3, <2>4, LoadTrustKeeps
  <2>5. JobsKept
      BY <1>3, <2>1, <2>4, GotoKeeps DEF LoadTrustForReset
  <2>6. QED
      BY <2>1, <2>5, ReadsKeep
<1>4. CASE SaveTrustForReset(p)
    BY <1>4, SaveTrustKeeps DEF SaveTrustForReset
<1>5. QED
    BY <1>1, <1>2, <1>3, <1>4 DEF ResetTrust

LEMMA ConnectKeeps ==
    ASSUME KeysInvariant, NEW p \in Processes, Connect(p)
    PROVE  KeysInvariant'
<1> USE DEF At, Moves, Steps, Settled, DeviceSteps, AddSteps, RemoveSteps, ResetSteps,
            ConnectSteps, CredentialSteps, PinnedSteps, TrustSaves, InventorySaves, ProfileSaves
<1>1. CASE BeginConnect(p)
  <2>1. PICK n \in Names :
            /\ inventory[n] # None /\ UNCHANGED reviewed
            /\ Start(p, [NoJob EXCEPT !.at = "connect.trust", !.name = n,
                                      !.address = inventory[n].address,
                                      !.credential = inventory[n].credential])
      BY <1>1 DEF BeginConnect
  <2> DEFINE job == [NoJob EXCEPT !.at = "connect.trust", !.name = n,
                                  !.address = inventory[n].address,
                                  !.credential = inventory[n].credential]
  <2>2. inventory[n] \in DeviceRefs
      BY <2>1 DEF KeysInvariant, TypeOK, Inventories
  <2>3. /\ job \in Jobs /\ job.at = "connect.trust" /\ job.name = n
        /\ job.address \in Addresses /\ job.credential \in Profiles
      BY <2>2 DEF Jobs, NoJob, DeviceRefs
  <2>4. Start(p, job)
      BY <2>1
  <2> HIDE DEF job
  <2>5. Carries(job, reviewed')
      BY <2>3 DEF Carries
  <2>6. QED
      BY <2>1, <2>3, <2>4, <2>5, StartKeeps DEF KeysInvariant, TypeOK
<1>2. CASE ReadTrust(p)
  <2> DEFINE record == trust[jobs[p].name]
             job == [jobs[p] EXCEPT !.at = "connect.discover", !.pin = record.key]
  <2>1. /\ jobs[p].at = "connect.trust" /\ jobs[p] \in Jobs /\ Carries(jobs[p], reviewed)
        /\ OnlyReads /\ UNCHANGED reviewed
      BY <1>2 DEF ReadTrust, KeysInvariant, TypeOK, OnlyReads
  <2>2. /\ jobs[p].name \in Names /\ jobs[p].address \in Addresses
        /\ jobs[p].credential \in Profiles
      BY <2>1 DEF Carries
  <2>3. CASE record # None /\ record.address = jobs[p].address /\ Update(p, job)
    <3>1. /\ record \in TrustRecords
          /\ <<jobs[p].name, record.address, record.key>> \in reviewed
        BY <2>2, <2>3 DEF KeysInvariant, TypeOK, TrustFiles, ReviewedFile
    <3>2. record.key \in Keys
        BY <3>1 DEF TrustRecords
    <3> HIDE DEF record
    <3>3. /\ job \in Jobs /\ job.at = "connect.discover" /\ job.name = jobs[p].name
          /\ job.address = jobs[p].address /\ job.credential = jobs[p].credential
          /\ job.pin = record.key
        BY <2>1, <3>2 DEF Jobs
    <3>4. Carries(job, reviewed') /\ SettledShape(job)
        BY <2>1, <2>2, <2>3, <3>1, <3>2, <3>3 DEF Carries, SettledShape
    <3>5. JobsKept
        BY <2>1, <2>3, <3>3, <3>4, Replaced
    <3>6. QED
        BY <2>1, <3>5, ReadsKeep
  <2>4. CASE Goto(p, "failed")
      BY <2>1, <2>4, GotoKeeps, ReadsKeep
  <2>5. QED
      BY <1>2, <2>3, <2>4 DEF ReadTrust
<1>3. CASE VerifyHost(p)
  <2> DEFINE job == [jobs[p] EXCEPT !.at = "connect.auth", !.pin = hostKey[jobs[p].address]]
  <2>1. /\ jobs[p].at = "connect.discover" /\ jobs[p] \in Jobs /\ Carries(jobs[p], reviewed)
        /\ OnlyReads /\ UNCHANGED reviewed
      BY <1>3 DEF VerifyHost, KeysInvariant, TypeOK, OnlyReads
  <2>2. CASE hostKey[jobs[p].address] = jobs[p].pin /\ Update(p, job)
    <3>1. /\ job \in Jobs /\ job.at = "connect.auth" /\ job.name = jobs[p].name
          /\ job.address = jobs[p].address /\ job.credential = jobs[p].credential
          /\ job.pin = jobs[p].pin
        BY <2>1, <2>2 DEF Jobs
    <3>2. Carries(job, reviewed') /\ SettledShape(job)
        BY <2>1, <3>1 DEF Carries, SettledShape
    <3>3. JobsKept
        BY <2>1, <2>2, <3>1, <3>2, Replaced
    <3>4. QED
        BY <2>1, <3>3, ReadsKeep
  <2>3. CASE Goto(p, "failed")
      BY <2>1, <2>3, GotoKeeps, ReadsKeep
  <2>4. QED
      BY <1>3, <2>2, <2>3 DEF VerifyHost
<1>4. CASE Authenticate(p)
  <2>1. JobsKept
      BY <1>4, GotoKeeps DEF Authenticate
  <2>2. <<jobs[p].name, jobs[p].address, jobs[p].pin>> \in reviewed
      BY <1>4 DEF Authenticate, KeysInvariant, Carries
  <2>3. authenticated' \subseteq reviewed /\ UNCHANGED <<files, secrets, hostKey, reviewed, before, count>>
      BY <1>4, <2>2 DEF Authenticate, KeysInvariant
  <2>4. QED
      BY <2>1, <2>3 DEF KeysInvariant, TypeOK, files, JobsKept, SettledShape, ReviewedFile
<1>5. QED
    BY <1>1, <1>2, <1>3, <1>4 DEF Connect

(* The commands on a profile and its password. *)
LEMMA ProfileCommandStarts ==
    ASSUME KeysInvariant, NEW p \in Processes, NEW c \in Profiles,
           NEW at \in {"profile.secret", "drop.load", "rotate.secret"},
           Start(p, [NoJob EXCEPT !.at = at, !.credential = c]), UNCHANGED reviewed
    PROVE  KeysInvariant'
<1> DEFINE job == [NoJob EXCEPT !.at = at, !.credential = c]
<1>1. job \in Jobs /\ job.at = at /\ job.credential = c
    BY DEF Jobs, NoJob, Steps
<1>2. Carries(job, reviewed') /\ job.at \notin Settled
    BY <1>1 DEF Carries, Settled, DeviceSteps, AddSteps, RemoveSteps, ResetSteps,
                ConnectSteps, CredentialSteps, PinnedSteps, TrustSaves, InventorySaves,
                ProfileSaves
<1>3. Start(p, job)
    OBVIOUS
<1> HIDE DEF job
<1>4. QED
    BY <1>1, <1>2, <1>3, StartKeeps DEF KeysInvariant, TypeOK

LEMMA ProfileCommandsKeep ==
    ASSUME KeysInvariant, NEW p \in Processes,
           AddProfile(p) \/ RemoveProfile(p) \/ Rotate(p)
    PROVE  KeysInvariant'
<1> USE DEF At, Moves, Steps, Settled, DeviceSteps, AddSteps, RemoveSteps, ResetSteps,
            ConnectSteps, CredentialSteps, PinnedSteps, TrustSaves, InventorySaves, ProfileSaves
<1>1. CASE BeginAddProfile(p) \/ BeginRemoveProfile(p) \/ BeginRotate(p)
    BY <1>1, ProfileCommandStarts
    DEF BeginAddProfile, BeginRemoveProfile, BeginRotate, KeysInvariant, TypeOK
<1>2. CASE StoreNewSecret(p)
  <2>1. jobs[p].at = "profile.secret" /\ SetSecret(p, "profile.load", "failed")
      BY <1>2 DEF StoreNewSecret
  <2>2. Moves(jobs[p].at, "profile.load") /\ Moves(jobs[p].at, "failed")
      BY <2>1
  <2> HIDE DEF Moves
  <2>3. QED
      BY <2>1, <2>2, SecretKeeps
<1>3. CASE RollbackSecret(p)
  <2>1. jobs[p].at = "profile.rollback" /\ DeleteSecret(p, "failed", "failed")
      BY <1>3 DEF RollbackSecret
  <2>2. Moves(jobs[p].at, "failed") /\ Moves(jobs[p].at, "failed")
      BY <2>1
  <2> HIDE DEF Moves
  <2>3. QED
      BY <2>1, <2>2, SecretKeeps
<1>4. CASE DeleteOldSecret(p)
  <2>1. jobs[p].at = "drop.secret" /\ DeleteSecret(p, "ok", "drop.loadRollback")
      BY <1>4 DEF DeleteOldSecret
  <2>2. Moves(jobs[p].at, "ok") /\ Moves(jobs[p].at, "drop.loadRollback")
      BY <2>1
  <2> HIDE DEF Moves
  <2>3. QED
      BY <2>1, <2>2, SecretKeeps
<1>5. CASE StoreRotatedSecret(p)
  <2>1. jobs[p].at = "rotate.secret" /\ SetSecret(p, "ok", "failed")
      BY <1>5 DEF StoreRotatedSecret
  <2>2. Moves(jobs[p].at, "ok") /\ Moves(jobs[p].at, "failed")
      BY <2>1
  <2> HIDE DEF Moves
  <2>3. QED
      BY <2>1, <2>2, SecretKeeps
<1>6. CASE SaveProfilesForAdd(p)
  <2>1. jobs[p].at = "profile.save" /\ SaveProfiles(p, "ok", "profile.rollback")
      BY <1>6 DEF SaveProfilesForAdd
  <2>2. Moves(jobs[p].at, "ok") /\ Moves(jobs[p].at, "profile.rollback")
      BY <2>1
  <2> HIDE DEF Moves
  <2>3. QED
      BY <2>1, <2>2, SaveProfilesKeeps
<1>7. CASE SaveProfilesForRemove(p)
  <2>1. jobs[p].at = "drop.save" /\ SaveProfiles(p, "drop.secret", "failed")
      BY <1>7 DEF SaveProfilesForRemove
  <2>2. Moves(jobs[p].at, "drop.secret") /\ Moves(jobs[p].at, "failed")
      BY <2>1
  <2> HIDE DEF Moves
  <2>3. QED
      BY <2>1, <2>2, SaveProfilesKeeps
<1>8. CASE SaveProfilesForRollback(p)
  <2>1. jobs[p].at = "drop.saveRollback" /\ SaveProfiles(p, "failed", "failed")
      BY <1>8 DEF SaveProfilesForRollback
  <2>2. Moves(jobs[p].at, "failed") /\ Moves(jobs[p].at, "failed")
      BY <2>1
  <2> HIDE DEF Moves
  <2>3. QED
      BY <2>1, <2>2, SaveProfilesKeeps
<1>9. CASE \/ LoadProfilesForAdd(p) \/ LoadProfilesForRemove(p)
           \/ LoadProfilesForRollback(p)
  <2>1. OnlyReads /\ UNCHANGED reviewed /\ jobs[p].at \in CredentialSteps
      BY <1>9 DEF LoadProfilesForAdd, LoadProfilesForRemove, LoadProfilesForRollback, OnlyReads
  <2>2. jobs[p].credential \in Profiles /\ profiles \subseteq Profiles
      BY <2>1 DEF KeysInvariant, TypeOK, Carries
  <2>3. ASSUME NEW next \in ProfileSaves, NEW names \in SUBSET Profiles,
               LoadProfiles(p, next, names)
        PROVE  JobsKept
      BY <2>1, <2>3, LoadProfilesKeeps
  <2>4. ASSUME NEW step \in {"profile.rollback", "failed"}, Goto(p, step)
        PROVE  JobsKept
      BY <2>1, <2>4, GotoKeeps
  <2>5. /\ profiles \cup {jobs[p].credential} \in SUBSET Profiles
        /\ profiles \ {jobs[p].credential} \in SUBSET Profiles
      BY <2>2
  <2>6. JobsKept
      BY <1>9, <2>3, <2>4, <2>5
      DEF LoadProfilesForAdd, LoadProfilesForRemove, LoadProfilesForRollback
  <2>7. QED
      BY <2>1, <2>6, ReadsKeep
<1>10. QED
    BY <1>1, <1>2, <1>3, <1>4, <1>5, <1>6, <1>7, <1>8, <1>9 DEF AddProfile, RemoveProfile, Rotate

LEMMA KeysInvariantHolds == Spec => []KeysInvariant
<1>1. Init => KeysInvariant
  <2> SUFFICES ASSUME Init PROVE KeysInvariant
      OBVIOUS
  <2>1. NoJob \in Jobs /\ NoJob.at = "idle" /\ NoJob = [NoJob EXCEPT !.at = "idle"]
      BY DEF NoJob, Jobs, Steps
  <2>2. TypeOK
    <3>1. inventory \in Inventories /\ trust \in TrustFiles /\ jobs \in [Processes -> Jobs]
        BY <2>1 DEF Init, Inventories, TrustFiles
    <3>2. before \in Inventories \X TrustFiles \X (SUBSET Profiles) \X (SUBSET Profiles)
        BY <3>1 DEF Init
    <3>3. QED
        BY <2>1, <3>1, <3>2 DEF Init, TypeOK
  <2>3. \A p \in Processes : Carries(jobs[p], reviewed)
      BY <2>1 DEF Init, Carries, Steps, Settled, DeviceSteps, AddSteps, RemoveSteps, ResetSteps,
                  ConnectSteps, CredentialSteps, PinnedSteps, TrustSaves, InventorySaves,
                  ProfileSaves
  <2>4. QED
      BY <2>2, <2>3 DEF Init, KeysInvariant, ReviewedFile
<1>2. KeysInvariant /\ [Next]_vars => KeysInvariant'
  <2> SUFFICES ASSUME KeysInvariant, [Next]_vars PROVE KeysInvariant'
      OBVIOUS
  <2>1. ASSUME NEW p \in Processes, Crash(p)
        PROVE  KeysInvariant'
    <3>1. NoJob \in Jobs /\ NoJob.at = "idle" /\ NoJob = [NoJob EXCEPT !.at = NoJob.at]
        BY DEF NoJob, Jobs, Steps
    <3>2. Carries(NoJob, reviewed') /\ SettledShape(NoJob)
        BY <3>1 DEF Carries, SettledShape, Steps, Settled, DeviceSteps, AddSteps, RemoveSteps,
                    ResetSteps, ConnectSteps, CredentialSteps, PinnedSteps, TrustSaves,
                    InventorySaves, ProfileSaves
    <3>3. JobsKept
        BY <2>1, <3>1, <3>2, Replaced DEF Crash
    <3>4. QED
        BY <2>1, <3>3
        DEF Crash, KeysInvariant, TypeOK, files, JobsKept, SettledShape, ReviewedFile
  <2>2. CASE HostRekeyed
      BY <2>2 DEF HostRekeyed, KeysInvariant, TypeOK, files, ReviewedFile, Carries
  <2>3. CASE UNCHANGED vars
      BY <2>3 DEF vars, files, KeysInvariant, TypeOK, ReviewedFile, Carries
  <2>4. QED
      BY <2>1, <2>2, <2>3, AddDeviceKeeps, RemoveDeviceKeeps, ResetTrustKeeps, ConnectKeeps,
         ProfileCommandsKeep DEF Next
<1>3. QED
    BY <1>1, <1>2, PTL DEF Spec

(* Every variable has its type, and a command that is not running holds no *)
(* loaded file, for any number of processes, faults and crashes.           *)
THEOREM TypeCorrect == Spec => []TypeOK
<1>1. KeysInvariant => TypeOK
    BY DEF KeysInvariant
<1>2. QED
    BY <1>1, KeysInvariantHolds, PTL

(* However many commands run at once, on files they read long ago, through *)
(* rollbacks, crashes and key changes: a stored fingerprint, and a host a  *)
(* password was sent to, was confirmed by a user for that device and       *)
(* address (SSHHostTrustManager.verify, add_device, trust-reset).          *)
THEOREM OnlyReviewedKeysTrusted == Spec => []OnlyReviewedKeys
<1>1. KeysInvariant => OnlyReviewedKeys
    BY DEF KeysInvariant, OnlyReviewedKeys, ReviewedFile
<1>2. QED
    BY <1>1, KeysInvariantHolds, PTL

-----------------------------------------------------------------------------
(* One command at a time: nothing a command has read changes until it      *)
(* writes it, whatever fails and wherever it dies.                         *)

OneAtATime == \A p, q \in Processes : p = q

AddedTrust == {"add.loadInventory", "add.saveInventory", "add.loadRollback", "add.saveRollback"}

RemovedDevice == RemoveSteps \ {"remove.save"}

DroppedProfile == {"drop.secret", "drop.loadRollback", "drop.saveRollback"}

(* What the files and the keyring hold at each step of the command.        *)
AddStage(job) ==
    /\ job.at \in AddSteps \ {"add"} => inventory[job.name] = None
    /\ job.at \in AddSteps \ {"add", "add.loadRollback", "add.saveRollback"}
        => job.credential \in profiles
    /\ job.at = "add.saveTrust" => /\ trust[job.name] = None
                                   /\ job.hosts = [trust EXCEPT ![job.name] = Record(job)]
    /\ job.at \in AddedTrust => trust[job.name] = Record(job)
    /\ job.at = "add.saveInventory" => job.devices = [inventory EXCEPT ![job.name] = Device(job)]
    /\ job.at = "add.saveRollback" => job.hosts = [trust EXCEPT ![job.name] = None]

RemoveStage(job) ==
    /\ job.at = "remove.save" => /\ inventory[job.name] = Device(job)
                                 /\ job.devices = [inventory EXCEPT ![job.name] = None]
    /\ job.at \in RemovedDevice => /\ inventory[job.name] = None
                                   /\ job.credential \in profiles
                                   /\ trust[job.name] # None
                                   /\ trust[job.name].address = job.address
    /\ job.at = "remove.saveTrust" => job.hosts = [trust EXCEPT ![job.name] = None]
    /\ job.at = "remove.saveRollback"
        => job.devices = [inventory EXCEPT ![job.name] = Device(job)]

ResetStage(job) ==
    /\ job.at \in ResetSteps => /\ inventory[job.name] # None
                                /\ inventory[job.name].address = job.address
    /\ job.at = "reset.save" => job.hosts = [trust EXCEPT ![job.name] = Record(job)]

ProfileStage(job) ==
    /\ job.at \in {"profile.secret", "profile.load", "profile.save", "profile.rollback"}
        => job.credential \notin profiles
    /\ job.at \in {"profile.load", "profile.save"} => job.credential \in secrets
    /\ job.at = "profile.save" => job.known = profiles \cup {job.credential}
    /\ job.at = "rotate.secret" => job.credential \in profiles

DropStage(job) ==
    /\ job.at \in {"drop.load", "drop.save"} \cup DroppedProfile => ~Referenced(job.credential)
    /\ job.at \in {"drop.load", "drop.save"} => job.credential \in profiles
    /\ job.at = "drop.save" => job.known = profiles \ {job.credential}
    /\ job.at \in DroppedProfile => job.credential \in secrets \ profiles
    /\ job.at = "drop.saveRollback" => job.known = profiles \cup {job.credential}

Stage(job) ==
    AddStage(job) /\ RemoveStage(job) /\ ResetStage(job) /\ ProfileStage(job) /\ DropStage(job)

SoundInvariant ==
    /\ LoadInventory
    /\ profiles \subseteq secrets
    /\ \A p \in Processes : Stage(jobs[p])

LEMMA StageOf ==
    ASSUME NEW p \in Processes,
           \/ jobs'[p].at \in Settled \cup ConnectSteps
           \/ jobs'[p].at \in AddSteps /\ AddStage(jobs[p])'
           \/ jobs'[p].at \in RemoveSteps /\ RemoveStage(jobs[p])'
           \/ jobs'[p].at \in ResetSteps /\ ResetStage(jobs[p])'
           \/ /\ jobs'[p].at \in {"profile.secret", "profile.load", "profile.save",
                                 "profile.rollback", "rotate.secret"}
              /\ ProfileStage(jobs[p])'
           \/ /\ jobs'[p].at \in {"drop.load", "drop.save"} \cup DroppedProfile
              /\ DropStage(jobs[p])'
    PROVE  Stage(jobs[p])'
BY DEF Stage, AddStage, RemoveStage, ResetStage, ProfileStage, DropStage, Settled, AddSteps,
       RemoveSteps, ResetSteps, ConnectSteps, AddedTrust, RemovedDevice, DroppedProfile

(* The one command that runs, after it has moved. *)
LEMMA Moved ==
    ASSUME KeysInvariant, OneAtATime, NEW p \in Processes, NEW job, Update(p, job)
    PROVE  /\ jobs'[p] = job
           /\ Stage(jobs[p])' => \A q \in Processes : Stage(jobs[q])'
BY DEF KeysInvariant, TypeOK, OneAtATime, Update

LEMMA WentTo ==
    ASSUME KeysInvariant, OneAtATime, NEW p \in Processes, NEW step \in Steps, Goto(p, step)
    PROVE  /\ jobs'[p].at = step
           /\ step \notin Settled => /\ jobs'[p].name = jobs[p].name
                                     /\ jobs'[p].address = jobs[p].address
                                     /\ jobs'[p].credential = jobs[p].credential
                                     /\ jobs'[p].pin = jobs[p].pin
           /\ Stage(jobs[p])' => \A q \in Processes : Stage(jobs[q])'
<1>1. jobs[p] \in Jobs
    BY DEF KeysInvariant, TypeOK
<1>2. [NoJob EXCEPT !.at = step].at = step
    BY DEF NoJob
<1> DEFINE job == IF step \in Settled
                  THEN [NoJob EXCEPT !.at = step]
                  ELSE [jobs[p] EXCEPT !.at = step, !.devices = None, !.hosts = None,
                                       !.known = None]
<1>3. /\ job.at = step
      /\ step \notin Settled => /\ job.name = jobs[p].name
                                /\ job.address = jobs[p].address
                                /\ job.credential = jobs[p].credential
                                /\ job.pin = jobs[p].pin
    BY <1>1, <1>2 DEF Jobs
<1>4. Update(p, job)
    BY DEF Goto
<1> HIDE DEF job
<1>5. QED
    BY <1>3, <1>4, Moved

(* A command that settles without having written. *)
LEMMA SettlesSound ==
    ASSUME KeysInvariant, SoundInvariant, OneAtATime, NEW p \in Processes,
           NEW step \in Settled, Goto(p, step), UNCHANGED <<files, secrets>>
    PROVE  SoundInvariant'
<1>1. step \in Steps /\ UNCHANGED <<inventory, trust, profiles, secrets>>
    BY DEF Settled, Steps, files
<1>2. Stage(jobs[p])'
    BY <1>1, WentTo, StageOf
<1>3. QED
    BY <1>1, <1>2, WentTo DEF SoundInvariant, LoadInventory, Resolved

(* A command that settles after a save, with every device resolving. *)
LEMMA SavedSound ==
    ASSUME KeysInvariant, OneAtATime, NEW p \in Processes, NEW step \in Steps, Goto(p, step),
           LoadInventory', profiles' \subseteq secrets',
           step \in Settled \/ Stage(jobs[p])'
    PROVE  SoundInvariant'
<1>1. Stage(jobs[p])'
    BY WentTo, StageOf
<1>2. QED
    BY <1>1, WentTo DEF SoundInvariant

(* A command that only loads. *)
LEMMA LoadedSound ==
    ASSUME KeysInvariant, SoundInvariant, OneAtATime, NEW p \in Processes, NEW job, Update(p, job),
           UNCHANGED <<files, secrets>>, Stage(jobs[p])'
    PROVE  SoundInvariant'
<1>1. \A q \in Processes : Stage(jobs[q])'
    BY Moved
<1>2. QED
    BY <1>1 DEF files, SoundInvariant, LoadInventory, Resolved

LEMMA AddDeviceSound ==
    ASSUME KeysInvariant, SoundInvariant, OneAtATime, NEW p \in Processes, AddDevice(p)
    PROVE  SoundInvariant'
<1>1. /\ jobs[p] \in Jobs /\ Carries(jobs[p], reviewed) /\ AddStage(jobs[p])
      /\ inventory \in Inventories /\ trust \in TrustFiles
    BY DEF KeysInvariant, TypeOK, SoundInvariant, Stage
<1>2. CASE BeginAddDevice(p)
  <2>1. PICK n \in Names, a \in Addresses, c \in profiles :
            Start(p, [NoJob EXCEPT !.at = "add", !.name = n, !.address = a,
                                   !.credential = c, !.pin = hostKey[a]])
      BY <1>2 DEF BeginAddDevice
  <2> DEFINE job == [NoJob EXCEPT !.at = "add", !.name = n, !.address = a,
                                  !.credential = c, !.pin = hostKey[a]]
  <2>2. Start(p, job) /\ job.at = "add"
      BY <2>1 DEF NoJob
  <2> HIDE DEF job
  <2>3. jobs'[p] = job /\ UNCHANGED <<files, secrets>> /\ Update(p, job)
      BY <2>2, Moved DEF Start
  <2>4. Stage(jobs[p])'
      BY <2>2, <2>3, StageOf DEF AddStage, AddSteps, AddedTrust
  <2>5. QED
      BY <2>3, <2>4, LoadedSound
<1>3. CASE CheckNewDevice(p)
  <2>1. jobs[p].at = "add" /\ UNCHANGED <<files, secrets>>
      BY <1>3 DEF CheckNewDevice, At, OnlyReads
  <2>2. CASE /\ jobs[p].credential \in profiles /\ inventory[jobs[p].name] = None
             /\ Goto(p, "add.test")
    <3>1. AddStage(jobs[p])' /\ jobs'[p].at \in AddSteps
        BY <2>1, <2>2, WentTo DEF AddStage, AddSteps, AddedTrust, files, Settled, Steps
    <3>2. QED
        BY <2>1, <2>2, <3>1, StageOf, LoadedSound DEF Goto
  <2>3. CASE Goto(p, "failed")
      BY <2>1, <2>3, SettlesSound DEF Settled
  <2>4. QED
      BY <1>3, <2>2, <2>3 DEF CheckNewDevice
<1>4. CASE TestNewDevice(p)
  <2>1. jobs[p].at = "add.test" /\ UNCHANGED <<files, secrets>>
      BY <1>4 DEF TestNewDevice, At
  <2>2. CASE Goto(p, "add.loadTrust")
    <3>1. AddStage(jobs[p])' /\ jobs'[p].at \in AddSteps
        BY <1>1, <2>1, <2>2, WentTo DEF AddStage, AddSteps, AddedTrust, files, Settled, Steps
    <3>2. QED
        BY <2>1, <2>2, <3>1, StageOf, LoadedSound DEF Goto
  <2>3. CASE Goto(p, "failed")
      BY <2>1, <2>3, SettlesSound DEF Settled
  <2>4. QED
      BY <1>4, <2>2, <2>3 DEF TestNewDevice
<1>5. CASE LoadTrustForAdd(p)
  <2>1. jobs[p].at = "add.loadTrust" /\ UNCHANGED <<files, secrets>>
      BY <1>5 DEF LoadTrustForAdd, At, OnlyReads
  <2>2. CASE trust[jobs[p].name] = None /\ LoadTrust(p, "add.saveTrust", Record(jobs[p]))
    <3> DEFINE job == [jobs[p] EXCEPT !.at = "add.saveTrust",
                                      !.hosts = [trust EXCEPT ![jobs[p].name] = Record(jobs[p])]]
    <3>1. Update(p, job) /\ jobs'[p] = job
        BY <2>2, Moved DEF LoadTrust
    <3>2. AddStage(jobs[p])' /\ jobs'[p].at \in AddSteps
        BY <1>1, <2>1, <2>2, <3>1 DEF AddStage, AddSteps, AddedTrust, files, Jobs, Record
    <3>3. QED
        BY <2>1, <3>1, <3>2, StageOf, LoadedSound
  <2>3. CASE Goto(p, "failed")
      BY <2>1, <2>3, SettlesSound DEF Settled
  <2>4. QED
      BY <1>5, <2>2, <2>3 DEF LoadTrustForAdd
<1>6. CASE SaveTrustForAdd(p)
  <2>1. jobs[p].at = "add.saveTrust"
      BY <1>6 DEF SaveTrustForAdd, At
  <2>2. CASE Fault /\ Goto(p, "failed")
      BY <2>2, SettlesSound DEF Fault, Settled
  <2>3. CASE /\ trust' = jobs[p].hosts /\ Goto(p, "add.loadInventory")
             /\ UNCHANGED <<inventory, profiles, secrets>>
    <3>1. jobs[p].name \in Names /\ inventory[jobs[p].name] = None
        BY <1>1, <2>1 DEF AddStage, Carries, DeviceSteps, AddSteps
    <3>2. trust' = [trust EXCEPT ![jobs[p].name] = Record(jobs[p])]
        BY <1>1, <2>1, <2>3 DEF AddStage
    <3>3. AddStage(jobs[p])' /\ jobs'[p].at \in AddSteps
        BY <1>1, <2>1, <2>3, <3>1, <3>2, WentTo
        DEF AddStage, AddSteps, AddedTrust, Settled, Steps, TrustFiles, Record
    <3>4. LoadInventory' /\ (profiles \subseteq secrets)'
        BY <1>1, <2>3, <3>1, <3>2 DEF SoundInvariant, LoadInventory, Resolved, TrustFiles
    <3>5. QED
        BY <2>3, <3>3, <3>4, StageOf, SavedSound DEF Steps
  <2>4. QED
      BY <1>6, <2>2, <2>3 DEF SaveTrustForAdd, SaveTrust
<1>7. CASE LoadInventoryForAdd(p)
  <2>1. jobs[p].at = "add.loadInventory" /\ UNCHANGED <<files, secrets>>
      BY <1>7 DEF LoadInventoryForAdd, At, OnlyReads
  <2>2. LoadDevices(p, "add.saveInventory", Device(jobs[p]))
      BY <1>1, <1>7, <2>1 DEF LoadInventoryForAdd, AddStage, AddSteps
  <2> DEFINE job == [jobs[p] EXCEPT !.at = "add.saveInventory",
                                    !.devices = [inventory EXCEPT ![jobs[p].name] = Device(jobs[p])]]
  <2>3. Update(p, job) /\ jobs'[p] = job
      BY <2>2, Moved DEF LoadDevices
  <2>4. AddStage(jobs[p])' /\ jobs'[p].at \in AddSteps
      BY <1>1, <2>1, <2>2, <2>3
      DEF AddStage, AddSteps, AddedTrust, files, Jobs, Record, Device
  <2>5. QED
      BY <2>1, <2>3, <2>4, StageOf, LoadedSound
<1>8. CASE SaveInventoryForAdd(p)
  <2>1. /\ jobs[p].at = "add.saveInventory" /\ inventory[jobs[p].name] = None
        /\ jobs[p].name \in Names /\ jobs[p].credential \in profiles
        /\ trust[jobs[p].name] = Record(jobs[p])
        /\ jobs[p].devices = [inventory EXCEPT ![jobs[p].name] = Device(jobs[p])]
        /\ jobs[p].address \in Addresses /\ jobs[p].pin \in Keys
      BY <1>1, <1>8 DEF SaveInventoryForAdd, At, AddStage, Carries, DeviceSteps, AddSteps,
                        PinnedSteps, AddedTrust
  <2>2. CASE Fault /\ Goto(p, "add.loadRollback")
    <3>1. AddStage(jobs[p])' /\ jobs'[p].at \in AddSteps
        BY <2>1, <2>2, WentTo
        DEF AddStage, AddSteps, AddedTrust, Settled, Steps, Fault, files, Record
    <3>2. QED
        BY <2>2, <3>1, StageOf, LoadedSound DEF Goto, Fault
  <2>3. CASE /\ inventory' = jobs[p].devices /\ Goto(p, "ok")
             /\ UNCHANGED <<trust, profiles, secrets>>
    <3>1. Record(jobs[p]) \in TrustRecords /\ Record(jobs[p]) # None
        BY <2>1, StateAssumption DEF Record, TrustRecords
    <3>2. LoadInventory' /\ (profiles \subseteq secrets)'
        BY <1>1, <2>1, <2>3, <3>1
        DEF SoundInvariant, LoadInventory, Resolved, Inventories, Device, Record
    <3>3. QED
        BY <2>3, <3>2, SavedSound DEF Steps, Settled
  <2>4. QED
      BY <1>8, <2>2, <2>3 DEF SaveInventoryForAdd, SaveDevices
<1>9. CASE LoadTrustForRollback(p)
  <2>1. jobs[p].at = "add.loadRollback" /\ UNCHANGED <<files, secrets>>
      BY <1>9 DEF LoadTrustForRollback, At, OnlyReads
  <2>2. CASE LoadTrust(p, "add.saveRollback", None)
    <3> DEFINE job == [jobs[p] EXCEPT !.at = "add.saveRollback",
                                      !.hosts = [trust EXCEPT ![jobs[p].name] = None]]
    <3>1. Update(p, job) /\ jobs'[p] = job
        BY <2>2, Moved DEF LoadTrust
    <3>2. AddStage(jobs[p])' /\ jobs'[p].at \in AddSteps
        BY <1>1, <2>1, <2>2, <3>1 DEF AddStage, AddSteps, AddedTrust, files, Jobs, Record
    <3>3. QED
        BY <2>1, <3>1, <3>2, StageOf, LoadedSound
  <2>3. CASE Goto(p, "failed")
      BY <2>1, <2>3, SettlesSound DEF Settled
  <2>4. QED
      BY <1>9, <2>2, <2>3 DEF LoadTrustForRollback
<1>10. CASE SaveTrustForRollback(p)
  <2>1. /\ jobs[p].at = "add.saveRollback" /\ jobs[p].name \in Names
        /\ inventory[jobs[p].name] = None
        /\ jobs[p].hosts = [trust EXCEPT ![jobs[p].name] = None]
      BY <1>1, <1>10 DEF SaveTrustForRollback, At, AddStage, Carries, DeviceSteps, AddSteps
  <2>2. CASE Fault /\ Goto(p, "failed")
      BY <2>2, SettlesSound DEF Fault, Settled
  <2>3. CASE /\ trust' = jobs[p].hosts /\ Goto(p, "failed")
             /\ UNCHANGED <<inventory, profiles, secrets>>
    <3>1. LoadInventory' /\ (profiles \subseteq secrets)'
        BY <1>1, <2>1, <2>3 DEF SoundInvariant, LoadInventory, Resolved, TrustFiles
    <3>2. QED
        BY <2>3, <3>1, SavedSound DEF Steps, Settled
  <2>4. QED
      BY <1>10, <2>2, <2>3 DEF SaveTrustForRollback, SaveTrust
<1>11. QED
    BY <1>2, <1>3, <1>4, <1>5, <1>6, <1>7, <1>8, <1>9, <1>10 DEF AddDevice

LEMMA RemoveDeviceSound ==
    ASSUME KeysInvariant, SoundInvariant, OneAtATime, NEW p \in Processes, RemoveDevice(p)
    PROVE  SoundInvariant'
<1>1. /\ jobs[p] \in Jobs /\ Carries(jobs[p], reviewed) /\ RemoveStage(jobs[p])
      /\ inventory \in Inventories /\ trust \in TrustFiles
    BY DEF KeysInvariant, TypeOK, SoundInvariant, Stage
<1>2. CASE BeginRemoveDevice(p)
  <2>1. PICK n \in Names :
            /\ inventory[n] # None
            /\ Start(p, [NoJob EXCEPT
                           !.at = "remove.save", !.name = n,
                           !.address = inventory[n].address,
                           !.credential = inventory[n].credential,
                           !.devices = [inventory EXCEPT ![n] = None]])
      BY <1>2 DEF BeginRemoveDevice
  <2> DEFINE job == [NoJob EXCEPT !.at = "remove.save", !.name = n,
                                  !.address = inventory[n].address,
                                  !.credential = inventory[n].credential,
                                  !.devices = [inventory EXCEPT ![n] = None]]
  <2>2. /\ Start(p, job) /\ job.at = "remove.save" /\ job.name = n
        /\ job.address = inventory[n].address /\ job.credential = inventory[n].credential
        /\ job.devices = [inventory EXCEPT ![n] = None]
      BY <2>1 DEF NoJob
  <2>3. inventory[n] = [address |-> inventory[n].address, credential |-> inventory[n].credential]
      BY <1>1, <2>1 DEF Inventories, DeviceRefs
  <2> HIDE DEF job
  <2>4. jobs'[p] = job /\ UNCHANGED <<files, secrets>> /\ Update(p, job)
      BY <2>2, Moved DEF Start
  <2>5. RemoveStage(jobs[p])' /\ jobs'[p].at \in RemoveSteps
      BY <2>2, <2>3, <2>4 DEF RemoveStage, RemoveSteps, RemovedDevice, files, Device
  <2>6. QED
      BY <2>4, <2>5, StageOf, LoadedSound
<1>3. CASE SaveInventoryForRemove(p)
  <2>1. /\ jobs[p].at = "remove.save" /\ jobs[p].name \in Names
        /\ inventory[jobs[p].name] = Device(jobs[p])
        /\ jobs[p].devices = [inventory EXCEPT ![jobs[p].name] = None]
        /\ jobs[p].address \in Addresses /\ jobs[p].credential \in Profiles
      BY <1>1, <1>3 DEF SaveInventoryForRemove, At, RemoveStage, Carries, DeviceSteps, RemoveSteps,
                        CredentialSteps, Steps, Settled, ResetSteps
  <2>2. CASE Fault /\ Goto(p, "failed")
      BY <2>2, SettlesSound DEF Fault, Settled
  <2>3. CASE /\ inventory' = jobs[p].devices /\ Goto(p, "remove.loadTrust")
             /\ UNCHANGED <<trust, profiles, secrets>>
    <3>1. Device(jobs[p]) \in DeviceRefs /\ Device(jobs[p]) # None
        BY <2>1, StateAssumption DEF Device, DeviceRefs
    <3>2. Resolved(jobs[p].name)
        BY <2>1, <3>1 DEF SoundInvariant, LoadInventory
    <3>3. /\ jobs[p].credential \in profiles /\ trust[jobs[p].name] # None
          /\ trust[jobs[p].name].address = jobs[p].address
        BY <2>1, <3>2 DEF Resolved, Device
    <3>4. RemoveStage(jobs[p])' /\ jobs'[p].at \in RemoveSteps
        BY <1>1, <2>1, <2>3, <3>3, WentTo
        DEF RemoveStage, RemoveSteps, RemovedDevice, Settled, Steps, Inventories
    <3>5. LoadInventory' /\ (profiles \subseteq secrets)'
        BY <1>1, <2>1, <2>3 DEF SoundInvariant, LoadInventory, Resolved, Inventories
    <3>6. QED
        BY <2>3, <3>4, <3>5, StageOf, SavedSound DEF Steps
  <2>4. QED
      BY <1>3, <2>2, <2>3 DEF SaveInventoryForRemove, SaveDevices
<1>4. CASE LoadTrustForRemove(p)
  <2>1. jobs[p].at = "remove.loadTrust" /\ UNCHANGED <<files, secrets>>
      BY <1>4 DEF LoadTrustForRemove, At, OnlyReads
  <2>2. CASE LoadTrust(p, "remove.saveTrust", None)
    <3> DEFINE job == [jobs[p] EXCEPT !.at = "remove.saveTrust",
                                      !.hosts = [trust EXCEPT ![jobs[p].name] = None]]
    <3>1. Update(p, job) /\ jobs'[p] = job
        BY <2>2, Moved DEF LoadTrust
    <3>2. RemoveStage(jobs[p])' /\ jobs'[p].at \in RemoveSteps
        BY <1>1, <2>1, <2>2, <3>1 DEF RemoveStage, RemoveSteps, RemovedDevice, files, Jobs
    <3>3. QED
        BY <2>1, <3>1, <3>2, StageOf, LoadedSound
  <2>3. CASE Goto(p, "ok")
      BY <2>1, <2>3, SettlesSound DEF Settled
  <2>4. QED
      BY <1>4, <2>2, <2>3 DEF LoadTrustForRemove
<1>5. CASE SaveTrustForRemove(p)
  <2>1. /\ jobs[p].at = "remove.saveTrust" /\ jobs[p].name \in Names
        /\ inventory[jobs[p].name] = None
        /\ jobs[p].hosts = [trust EXCEPT ![jobs[p].name] = None]
      BY <1>1, <1>5 DEF SaveTrustForRemove, At, RemoveStage, Carries, DeviceSteps, RemoveSteps,
                        RemovedDevice
  <2>2. CASE Fault /\ Goto(p, "remove.loadRollback")
    <3>1. RemoveStage(jobs[p])' /\ jobs'[p].at \in RemoveSteps
        BY <1>1, <2>1, <2>2, WentTo
        DEF RemoveStage, RemoveSteps, RemovedDevice, Settled, Steps, Fault, files
    <3>2. QED
        BY <2>2, <3>1, StageOf, LoadedSound DEF Goto, Fault
  <2>3. CASE /\ trust' = jobs[p].hosts /\ Goto(p, "ok")
             /\ UNCHANGED <<inventory, profiles, secrets>>
    <3>1. LoadInventory' /\ (profiles \subseteq secrets)'
        BY <1>1, <2>1, <2>3 DEF SoundInvariant, LoadInventory, Resolved, TrustFiles
    <3>2. QED
        BY <2>3, <3>1, SavedSound DEF Steps, Settled
  <2>4. QED
      BY <1>5, <2>2, <2>3 DEF SaveTrustForRemove, SaveTrust
<1>6. CASE LoadInventoryForRollback(p)
  <2>1. jobs[p].at = "remove.loadRollback" /\ UNCHANGED <<files, secrets>>
      BY <1>6 DEF LoadInventoryForRollback, At, OnlyReads
  <2>2. LoadDevices(p, "remove.saveRollback", Device(jobs[p]))
      BY <1>1, <1>6, <2>1 DEF LoadInventoryForRollback, RemoveStage, RemoveSteps, RemovedDevice
  <2> DEFINE job == [jobs[p] EXCEPT !.at = "remove.saveRollback",
                                    !.devices = [inventory EXCEPT ![jobs[p].name] = Device(jobs[p])]]
  <2>3. Update(p, job) /\ jobs'[p] = job
      BY <2>2, Moved DEF LoadDevices
  <2>4. RemoveStage(jobs[p])' /\ jobs'[p].at \in RemoveSteps
      BY <1>1, <2>1, <2>2, <2>3 DEF RemoveStage, RemoveSteps, RemovedDevice, files, Jobs, Device
  <2>5. QED
      BY <2>1, <2>3, <2>4, StageOf, LoadedSound
<1>7. CASE SaveInventoryForRollback(p)
  <2>1. /\ jobs[p].at = "remove.saveRollback" /\ jobs[p].name \in Names
        /\ jobs[p].credential \in profiles
        /\ trust[jobs[p].name] # None /\ trust[jobs[p].name].address = jobs[p].address
        /\ jobs[p].devices = [inventory EXCEPT ![jobs[p].name] = Device(jobs[p])]
      BY <1>1, <1>7 DEF SaveInventoryForRollback, At, RemoveStage, Carries, DeviceSteps,
                        RemoveSteps, RemovedDevice
  <2>2. CASE Fault /\ Goto(p, "failed")
      BY <2>2, SettlesSound DEF Fault, Settled
  <2>3. CASE /\ inventory' = jobs[p].devices /\ Goto(p, "failed")
             /\ UNCHANGED <<trust, profiles, secrets>>
    <3>1. LoadInventory' /\ (profiles \subseteq secrets)'
        BY <1>1, <2>1, <2>3 DEF SoundInvariant, LoadInventory, Resolved, Inventories, Device
    <3>2. QED
        BY <2>3, <3>1, SavedSound DEF Steps, Settled
  <2>4. QED
      BY <1>7, <2>2, <2>3 DEF SaveInventoryForRollback, SaveDevices
<1>8. QED
    BY <1>2, <1>3, <1>4, <1>5, <1>6, <1>7 DEF RemoveDevice

LEMMA ResetTrustSound ==
    ASSUME KeysInvariant, SoundInvariant, OneAtATime, NEW p \in Processes, ResetTrust(p)
    PROVE  SoundInvariant'
<1>1. /\ jobs[p] \in Jobs /\ Carries(jobs[p], reviewed) /\ ResetStage(jobs[p])
      /\ inventory \in Inventories /\ trust \in TrustFiles
    BY DEF KeysInvariant, TypeOK, SoundInvariant, Stage
<1>2. CASE BeginTrustReset(p)
  <2>1. PICK n \in Names :
            /\ inventory[n] # None
            /\ Start(p, [NoJob EXCEPT !.at = "reset.review", !.name = n,
                                      !.address = inventory[n].address])
      BY <1>2 DEF BeginTrustReset
  <2> DEFINE job == [NoJob EXCEPT !.at = "reset.review", !.name = n,
                                  !.address = inventory[n].address]
  <2>2. /\ Start(p, job) /\ job.at = "reset.review" /\ job.name = n
        /\ job.address = inventory[n].address
      BY <2>1 DEF NoJob
  <2> HIDE DEF job
  <2>3. jobs'[p] = job /\ UNCHANGED <<files, secrets>> /\ Update(p, job)
      BY <2>2, Moved DEF Start
  <2>4. ResetStage(jobs[p])' /\ jobs'[p].at \in ResetSteps
      BY <2>1, <2>2, <2>3 DEF ResetStage, ResetSteps, files
  <2>5. QED
      BY <2>3, <2>4, StageOf, LoadedSound
<1>3. CASE ReviewReplacementKey(p)
  <2> DEFINE job == [jobs[p] EXCEPT !.at = "reset.load", !.pin = hostKey[jobs[p].address]]
  <2>1. jobs[p].at = "reset.review" /\ UNCHANGED <<files, secrets>>
      BY <1>3 DEF ReviewReplacementKey, At
  <2>2. CASE Update(p, job)
    <3>1. jobs'[p] = job
        BY <2>2, Moved
    <3>2. ResetStage(jobs[p])' /\ jobs'[p].at \in ResetSteps
        BY <1>1, <2>1, <3>1 DEF ResetStage, ResetSteps, files, Jobs
    <3>3. QED
        BY <2>1, <2>2, <3>2, StageOf, LoadedSound
  <2>3. CASE Goto(p, "failed")
      BY <2>1, <2>3, SettlesSound DEF Settled
  <2>4. QED
      BY <1>3, <2>2, <2>3 DEF ReviewReplacementKey
<1>4. CASE LoadTrustForReset(p)
  <2>1. jobs[p].at = "reset.load" /\ UNCHANGED <<files, secrets>>
      BY <1>4 DEF LoadTrustForReset, At, OnlyReads
  <2>2. CASE LoadTrust(p, "reset.save", Record(jobs[p]))
    <3> DEFINE job == [jobs[p] EXCEPT !.at = "reset.save",
                                      !.hosts = [trust EXCEPT ![jobs[p].name] = Record(jobs[p])]]
    <3>1. Update(p, job) /\ jobs'[p] = job
        BY <2>2, Moved DEF LoadTrust
    <3>2. ResetStage(jobs[p])' /\ jobs'[p].at \in ResetSteps
        BY <1>1, <2>1, <2>2, <3>1 DEF ResetStage, ResetSteps, files, Jobs, Record
    <3>3. QED
        BY <2>1, <3>1, <3>2, StageOf, LoadedSound
  <2>3. CASE Goto(p, "failed")
      BY <2>1, <2>3, SettlesSound DEF Settled
  <2>4. QED
      BY <1>4, <2>2, <2>3 DEF LoadTrustForReset
<1>5. CASE SaveTrustForReset(p)
  <2>1. /\ jobs[p].at = "reset.save" /\ jobs[p].name \in Names
        /\ inventory[jobs[p].name] # None
        /\ inventory[jobs[p].name].address = jobs[p].address
        /\ jobs[p].hosts = [trust EXCEPT ![jobs[p].name] = Record(jobs[p])]
        /\ jobs[p].address \in Addresses /\ jobs[p].pin \in Keys
      BY <1>1, <1>5 DEF SaveTrustForReset, At, ResetStage, Carries, DeviceSteps, ResetSteps,
                        PinnedSteps
  <2>2. CASE Fault /\ Goto(p, "failed")
      BY <2>2, SettlesSound DEF Fault, Settled
  <2>3. CASE /\ trust' = jobs[p].hosts /\ Goto(p, "ok")
             /\ UNCHANGED <<inventory, profiles, secrets>>
    <3>1. Record(jobs[p]) # None
        BY <2>1, StateAssumption DEF Record, TrustRecords
    <3>2. LoadInventory' /\ (profiles \subseteq secrets)'
        BY <1>1, <2>1, <2>3, <3>1 DEF SoundInvariant, LoadInventory, Resolved, TrustFiles, Record
    <3>3. QED
        BY <2>3, <3>2, SavedSound DEF Steps, Settled
  <2>4. QED
      BY <1>5, <2>2, <2>3 DEF SaveTrustForReset, SaveTrust
<1>6. QED
    BY <1>2, <1>3, <1>4, <1>5 DEF ResetTrust

(* A command that neither writes nor relies on what it reads. *)
LEMMA ConnectSound ==
    ASSUME KeysInvariant, SoundInvariant, OneAtATime, NEW p \in Processes, Connect(p)
    PROVE  SoundInvariant'
<1>1. jobs[p] \in Jobs
    BY DEF KeysInvariant, TypeOK
<1>2. UNCHANGED <<files, secrets>>
    BY DEF Connect, BeginConnect, ReadTrust, VerifyHost, Authenticate, Start, OnlyReads
<1>3. PICK job : Update(p, job) /\ job.at \in Settled \cup ConnectSteps
  <2>1. CASE BeginConnect(p)
    <3>1. PICK n \in Names :
              Start(p, [NoJob EXCEPT !.at = "connect.trust", !.name = n,
                                     !.address = inventory[n].address,
                                     !.credential = inventory[n].credential])
        BY <2>1 DEF BeginConnect
    <3> DEFINE job == [NoJob EXCEPT !.at = "connect.trust", !.name = n,
                                    !.address = inventory[n].address,
                                    !.credential = inventory[n].credential]
    <3>2. Start(p, job) /\ job.at = "connect.trust"
        BY <3>1 DEF NoJob
    <3> HIDE DEF job
    <3>3. QED
        BY <3>2 DEF Start, ConnectSteps
  <2>2. CASE ReadTrust(p) \/ VerifyHost(p) \/ Authenticate(p)
    <3>1. ASSUME NEW step \in Settled, Goto(p, step)
          PROVE  \E job : Update(p, job) /\ job.at \in Settled
      <4>1. [NoJob EXCEPT !.at = step].at = step /\ Update(p, [NoJob EXCEPT !.at = step])
          BY <3>1 DEF Goto, NoJob
      <4>2. QED
          BY <4>1
    <3>2. ASSUME NEW step \in ConnectSteps, NEW pin,
                 Update(p, [jobs[p] EXCEPT !.at = step, !.pin = pin])
          PROVE  \E job : Update(p, job) /\ job.at \in ConnectSteps
      <4>1. [jobs[p] EXCEPT !.at = step, !.pin = pin].at = step
          BY <1>1 DEF Jobs
      <4>2. QED
          BY <3>2, <4>1
    <3>3. QED
        BY <2>2, <3>1, <3>2
        DEF ReadTrust, VerifyHost, Authenticate, Settled, ConnectSteps
  <2>3. QED
      BY <2>1, <2>2 DEF Connect
<1>4. Stage(jobs[p])'
    BY <1>3, Moved, StageOf
<1>5. QED
    BY <1>2, <1>3, <1>4, LoadedSound

LEMMA ProfileStarts ==
    ASSUME KeysInvariant, SoundInvariant, OneAtATime, NEW p \in Processes, NEW c \in Profiles,
           NEW at \in {"profile.secret", "drop.load", "rotate.secret"},
           Start(p, [NoJob EXCEPT !.at = at, !.credential = c]),
           at = "profile.secret" => c \notin profiles,
           at = "drop.load" => c \in profiles /\ ~Referenced(c),
           at = "rotate.secret" => c \in profiles
    PROVE  SoundInvariant'
<1> DEFINE job == [NoJob EXCEPT !.at = at, !.credential = c]
<1>1. Start(p, job) /\ job.at = at /\ job.credential = c
    BY DEF NoJob
<1> HIDE DEF job
<1>2. jobs'[p] = job /\ UNCHANGED <<files, secrets>> /\ Update(p, job)
    BY <1>1, Moved DEF Start
<1>3. Stage(jobs[p])'
    BY <1>1, <1>2, StageOf DEF ProfileStage, DropStage, DroppedProfile, files, Referenced
<1>4. QED
    BY <1>2, <1>3, LoadedSound

LEMMA AddProfileSound ==
    ASSUME KeysInvariant, SoundInvariant, OneAtATime, NEW p \in Processes, AddProfile(p)
    PROVE  SoundInvariant'
<1> DEFINE adding == {"profile.secret", "profile.load", "profile.save", "profile.rollback"}
<1>1. /\ jobs[p] \in Jobs /\ ProfileStage(jobs[p]) /\ profiles \subseteq secrets
      /\ LoadInventory
    BY DEF KeysInvariant, TypeOK, SoundInvariant, Stage
<1>2. CASE BeginAddProfile(p)
    BY <1>2, ProfileStarts DEF BeginAddProfile
<1>3. CASE StoreNewSecret(p)
  <2>1. jobs[p].at = "profile.secret"
      BY <1>3 DEF StoreNewSecret, At
  <2>2. CASE Fault /\ Goto(p, "failed")
      BY <2>2, SettlesSound DEF Fault, Settled
  <2>3. CASE /\ secrets' = secrets \cup {jobs[p].credential} /\ Goto(p, "profile.load")
             /\ UNCHANGED files
    <3>1. ProfileStage(jobs[p])' /\ jobs'[p].at \in adding
        BY <1>1, <2>1, <2>3, WentTo DEF ProfileStage, Settled, Steps, files
    <3>2. LoadInventory' /\ (profiles \subseteq secrets)'
        BY <1>1, <2>3 DEF LoadInventory, Resolved, files
    <3>3. QED
        BY <2>3, <3>1, <3>2, StageOf, SavedSound DEF Steps
  <2>4. QED
      BY <1>3, <2>2, <2>3 DEF StoreNewSecret, SetSecret
<1>4. CASE LoadProfilesForAdd(p)
  <2>1. jobs[p].at = "profile.load" /\ UNCHANGED <<files, secrets>>
      BY <1>4 DEF LoadProfilesForAdd, At, OnlyReads
  <2>2. LoadProfiles(p, "profile.save", profiles \cup {jobs[p].credential})
      BY <1>1, <1>4, <2>1 DEF LoadProfilesForAdd, ProfileStage
  <2> DEFINE job == [jobs[p] EXCEPT !.at = "profile.save",
                                    !.known = profiles \cup {jobs[p].credential}]
  <2>3. Update(p, job) /\ jobs'[p] = job
      BY <2>2, Moved DEF LoadProfiles
  <2>4. ProfileStage(jobs[p])' /\ jobs'[p].at \in adding
      BY <1>1, <2>1, <2>2, <2>3 DEF ProfileStage, files, Jobs
  <2>5. QED
      BY <2>1, <2>3, <2>4, StageOf, LoadedSound
<1>5. CASE SaveProfilesForAdd(p)
  <2>1. /\ jobs[p].at = "profile.save" /\ jobs[p].credential \notin profiles
        /\ jobs[p].credential \in secrets /\ jobs[p].known = profiles \cup {jobs[p].credential}
      BY <1>1, <1>5 DEF SaveProfilesForAdd, At, ProfileStage
  <2>2. CASE Fault /\ Goto(p, "profile.rollback")
    <3>1. ProfileStage(jobs[p])' /\ jobs'[p].at \in adding
        BY <2>1, <2>2, WentTo DEF ProfileStage, Settled, Steps, Fault, files
    <3>2. QED
        BY <2>2, <3>1, StageOf, LoadedSound DEF Goto, Fault
  <2>3. CASE /\ profiles' = jobs[p].known /\ Goto(p, "ok")
             /\ UNCHANGED <<inventory, trust, secrets>>
    <3>1. LoadInventory' /\ (profiles \subseteq secrets)'
        BY <1>1, <2>1, <2>3 DEF LoadInventory, Resolved
    <3>2. QED
        BY <2>3, <3>1, SavedSound DEF Steps, Settled
  <2>4. QED
      BY <1>5, <2>2, <2>3 DEF SaveProfilesForAdd, SaveProfiles
<1>6. CASE RollbackSecret(p)
  <2>1. jobs[p].credential \notin profiles
      BY <1>1, <1>6 DEF RollbackSecret, At, ProfileStage
  <2>2. CASE Fault /\ Goto(p, "failed")
      BY <2>2, SettlesSound DEF Fault, Settled
  <2>3. CASE /\ secrets' = secrets \ {jobs[p].credential} /\ Goto(p, "failed")
             /\ UNCHANGED files
    <3>1. LoadInventory' /\ (profiles \subseteq secrets)'
        BY <1>1, <2>1, <2>3 DEF LoadInventory, Resolved, files
    <3>2. QED
        BY <2>3, <3>1, SavedSound DEF Steps, Settled
  <2>4. QED
      BY <1>6, <2>2, <2>3 DEF RollbackSecret, DeleteSecret
<1>7. QED
    BY <1>2, <1>3, <1>4, <1>5, <1>6 DEF AddProfile

LEMMA RemoveProfileSound ==
    ASSUME KeysInvariant, SoundInvariant, OneAtATime, NEW p \in Processes, RemoveProfile(p)
    PROVE  SoundInvariant'
<1> DEFINE dropping == {"drop.load", "drop.save"} \cup DroppedProfile
<1>1. /\ jobs[p] \in Jobs /\ DropStage(jobs[p]) /\ profiles \subseteq secrets
      /\ LoadInventory
    BY DEF KeysInvariant, TypeOK, SoundInvariant, Stage
<1>2. CASE BeginRemoveProfile(p)
    BY <1>2, ProfileStarts DEF BeginRemoveProfile, KeysInvariant, TypeOK
<1>3. CASE LoadProfilesForRemove(p)
  <2>1. jobs[p].at = "drop.load" /\ UNCHANGED <<files, secrets>>
      BY <1>3 DEF LoadProfilesForRemove, At, OnlyReads
  <2>2. LoadProfiles(p, "drop.save", profiles \ {jobs[p].credential})
      BY <1>1, <1>3, <2>1 DEF LoadProfilesForRemove, DropStage
  <2> DEFINE job == [jobs[p] EXCEPT !.at = "drop.save",
                                    !.known = profiles \ {jobs[p].credential}]
  <2>3. Update(p, job) /\ jobs'[p] = job
      BY <2>2, Moved DEF LoadProfiles
  <2>4. DropStage(jobs[p])' /\ jobs'[p].at \in dropping
      BY <1>1, <2>1, <2>2, <2>3 DEF DropStage, DroppedProfile, Referenced, files, Jobs
  <2>5. QED
      BY <2>1, <2>3, <2>4, StageOf, LoadedSound
<1>4. CASE SaveProfilesForRemove(p)
  <2>1. /\ jobs[p].at = "drop.save" /\ jobs[p].credential \in profiles
        /\ ~Referenced(jobs[p].credential)
        /\ jobs[p].known = profiles \ {jobs[p].credential}
      BY <1>1, <1>4 DEF SaveProfilesForRemove, At, DropStage
  <2>2. CASE Fault /\ Goto(p, "failed")
      BY <2>2, SettlesSound DEF Fault, Settled
  <2>3. CASE /\ profiles' = jobs[p].known /\ Goto(p, "drop.secret")
             /\ UNCHANGED <<inventory, trust, secrets>>
    <3>1. DropStage(jobs[p])' /\ jobs'[p].at \in dropping
        BY <1>1, <2>1, <2>3, WentTo DEF DropStage, DroppedProfile, Referenced, Settled, Steps
    <3>2. LoadInventory' /\ (profiles \subseteq secrets)'
        BY <1>1, <2>1, <2>3 DEF LoadInventory, Resolved, Referenced
    <3>3. QED
        BY <2>3, <3>1, <3>2, StageOf, SavedSound DEF Steps
  <2>4. QED
      BY <1>4, <2>2, <2>3 DEF SaveProfilesForRemove, SaveProfiles
<1>5. CASE DeleteOldSecret(p)
  <2>1. jobs[p].at = "drop.secret" /\ jobs[p].credential \notin profiles
      BY <1>1, <1>5 DEF DeleteOldSecret, At, DropStage, DroppedProfile
  <2>2. CASE Fault /\ Goto(p, "ok")
      BY <2>2, SettlesSound DEF Fault, Settled
  <2>3. CASE Fault /\ Goto(p, "drop.loadRollback")
    <3>1. DropStage(jobs[p])' /\ jobs'[p].at \in dropping
        BY <1>1, <2>1, <2>3, WentTo
        DEF DropStage, DroppedProfile, Referenced, Settled, Steps, Fault, files
    <3>2. QED
        BY <2>3, <3>1, StageOf, LoadedSound DEF Goto, Fault
  <2>4. CASE /\ secrets' = secrets \ {jobs[p].credential} /\ Goto(p, "ok")
             /\ UNCHANGED files
    <3>1. LoadInventory' /\ (profiles \subseteq secrets)'
        BY <1>1, <2>1, <2>4 DEF LoadInventory, Resolved, files
    <3>2. QED
        BY <2>4, <3>1, SavedSound DEF Steps, Settled
  <2>5. QED
      BY <1>5, <2>2, <2>3, <2>4 DEF DeleteOldSecret, DeleteSecret
<1>6. CASE LoadProfilesForRollback(p)
  <2>1. jobs[p].at = "drop.loadRollback" /\ UNCHANGED <<files, secrets>>
      BY <1>6 DEF LoadProfilesForRollback, At, OnlyReads
  <2>2. LoadProfiles(p, "drop.saveRollback", profiles \cup {jobs[p].credential})
      BY <1>1, <1>6, <2>1 DEF LoadProfilesForRollback, DropStage, DroppedProfile
  <2> DEFINE job == [jobs[p] EXCEPT !.at = "drop.saveRollback",
                                    !.known = profiles \cup {jobs[p].credential}]
  <2>3. Update(p, job) /\ jobs'[p] = job
      BY <2>2, Moved DEF LoadProfiles
  <2>4. DropStage(jobs[p])' /\ jobs'[p].at \in dropping
      BY <1>1, <2>1, <2>2, <2>3 DEF DropStage, DroppedProfile, Referenced, files, Jobs
  <2>5. QED
      BY <2>1, <2>3, <2>4, StageOf, LoadedSound
<1>7. CASE SaveProfilesForRollback(p)
  <2>1. /\ jobs[p].credential \in secrets
        /\ jobs[p].known = profiles \cup {jobs[p].credential}
      BY <1>1, <1>7 DEF SaveProfilesForRollback, At, DropStage, DroppedProfile
  <2>2. CASE Fault /\ Goto(p, "failed")
      BY <2>2, SettlesSound DEF Fault, Settled
  <2>3. CASE /\ profiles' = jobs[p].known /\ Goto(p, "failed")
             /\ UNCHANGED <<inventory, trust, secrets>>
    <3>1. LoadInventory' /\ (profiles \subseteq secrets)'
        BY <1>1, <2>1, <2>3 DEF LoadInventory, Resolved
    <3>2. QED
        BY <2>3, <3>1, SavedSound DEF Steps, Settled
  <2>4. QED
      BY <1>7, <2>2, <2>3 DEF SaveProfilesForRollback, SaveProfiles
<1>8. QED
    BY <1>2, <1>3, <1>4, <1>5, <1>6, <1>7 DEF RemoveProfile

LEMMA RotateSound ==
    ASSUME KeysInvariant, SoundInvariant, OneAtATime, NEW p \in Processes, Rotate(p)
    PROVE  SoundInvariant'
<1>1. CASE BeginRotate(p)
    BY <1>1, ProfileStarts DEF BeginRotate, KeysInvariant, TypeOK
<1>2. CASE StoreRotatedSecret(p)
  <2>1. CASE Fault /\ Goto(p, "failed")
      BY <2>1, SettlesSound DEF Fault, Settled
  <2>2. CASE /\ secrets' = secrets \cup {jobs[p].credential} /\ Goto(p, "ok")
             /\ UNCHANGED files
    <3>1. LoadInventory' /\ (profiles \subseteq secrets)'
        BY <2>2 DEF SoundInvariant, LoadInventory, Resolved, files
    <3>2. QED
        BY <2>2, <3>1, SavedSound DEF Steps, Settled
  <2>3. QED
      BY <1>2, <2>1, <2>2 DEF StoreRotatedSecret, SetSecret
<1>3. QED
    BY <1>1, <1>2 DEF Rotate

LEMMA SoundInvariantHolds ==
    ASSUME OneAtATime
    PROVE  Spec => []SoundInvariant
<1>1. Init => SoundInvariant
  <2> SUFFICES ASSUME Init PROVE SoundInvariant
      OBVIOUS
  <2>1. \A p \in Processes : jobs[p].at = "idle"
      BY DEF Init, NoJob
  <2>2. \A p \in Processes : Stage(jobs[p])
      BY <2>1 DEF Stage, AddStage, RemoveStage, ResetStage, ProfileStage, DropStage, AddSteps,
                  RemoveSteps, ResetSteps, AddedTrust, RemovedDevice, DroppedProfile
  <2>3. QED
      BY <2>2 DEF Init, SoundInvariant, LoadInventory
<1>2. KeysInvariant /\ SoundInvariant /\ [Next]_vars => SoundInvariant'
  <2> SUFFICES ASSUME KeysInvariant, SoundInvariant, [Next]_vars PROVE SoundInvariant'
      OBVIOUS
  <2>1. ASSUME NEW p \in Processes, Crash(p)
        PROVE  SoundInvariant'
    <3>1. Update(p, NoJob) /\ UNCHANGED <<files, secrets>> /\ NoJob.at \in Settled
        BY <2>1 DEF Crash, NoJob, Settled
    <3>2. QED
        BY <3>1, Moved, StageOf, LoadedSound
  <2>2. CASE HostRekeyed \/ UNCHANGED vars
    <3>1. UNCHANGED <<inventory, trust, profiles, secrets, jobs>>
        BY <2>2 DEF HostRekeyed, vars, files
    <3>2. QED
        BY <3>1 DEF SoundInvariant, LoadInventory, Resolved, Stage, AddStage, RemoveStage,
                    ResetStage, ProfileStage, DropStage, Referenced
  <2>3. QED
      BY <2>1, <2>2, AddDeviceSound, RemoveDeviceSound, ResetTrustSound, ConnectSound,
         AddProfileSound, RemoveProfileSound, RotateSound DEF Next
<1>3. QED
    BY <1>1, <1>2, KeysInvariantHolds, PTL DEF Spec

(* With one command at a time, after any number of faults, rollbacks and   *)
(* crashes, every device of the inventory has its credential profile and a *)
(* trust record for its address: load_inventory never fails for all of     *)
(* them because one does not resolve.                                      *)
THEOREM EveryDeviceResolves ==
    ASSUME OneAtATime
    PROVE  Spec => []InventoryResolves
<1>1. SoundInvariant => InventoryResolves
    BY DEF SoundInvariant, InventoryResolves
<1>2. QED
    BY <1>1, SoundInvariantHolds, PTL

(* With one command at a time, a profile always has its password, whatever *)
(* fails and wherever a command dies: add_password_profile writes the      *)
(* secret before the metadata and remove_profile deletes it after.         *)
THEOREM EveryProfileHasSecret ==
    ASSUME OneAtATime
    PROVE  Spec => []ProfilesHaveSecrets
<1>1. SoundInvariant => ProfilesHaveSecrets
    BY DEF SoundInvariant, ProfilesHaveSecrets
<1>2. QED
    BY <1>1, SoundInvariantHolds, PTL

-----------------------------------------------------------------------------
(* What a command has done since it started, until a process dies; and     *)
(* that a command undoes something only after a fault, the only one.       *)

Current == <<inventory, trust, profiles, secrets>>

Untouched == {"failed", "add", "add.test", "add.loadTrust", "add.saveTrust", "remove.save",
              "profile.secret", "drop.load", "drop.save", "rotate.secret"}
                 \cup ResetSteps \cup ConnectSteps

StoredSecret == {"profile.load", "profile.save"}

Undoing == {"add.loadRollback", "add.saveRollback", "remove.loadRollback",
            "remove.saveRollback", "profile.rollback", "drop.loadRollback",
            "drop.saveRollback"}

(* What the files and the keyring held when the command started.           *)
Undone(job) ==
    /\ job.at \in Untouched => before = Current
    /\ job.at \in AddedTrust
        => before = <<inventory, [trust EXCEPT ![job.name] = None], profiles, secrets>>
    /\ job.at \in RemovedDevice
        => before = <<[inventory EXCEPT ![job.name] = Device(job)], trust, profiles, secrets>>
    /\ job.at \in DroppedProfile
        => before = <<inventory, trust, profiles \cup {job.credential}, secrets>>
    /\ (job.at = "profile.rollback" \/ (job.at \in StoredSecret /\ count.faults = 0))
        => before = <<inventory, trust, profiles, secrets \ {job.credential}>>
    /\ job.at \in Undoing => count.faults > 0

(* Only the command that runs keeps a trust record without its device or,  *)
(* until a fault, a password without its profile.                          *)
NotOrphaned(job) ==
    /\ \A n \in Names : trust[n] # None /\ inventory[n] = None
        => job.at \in AddedTrust \cup RemovedDevice /\ n = job.name
    /\ count.faults = 0
        => secrets = profiles \cup (IF job.at \in StoredSecret \cup {"drop.secret"}
                                    THEN {job.credential} ELSE {})

UndoInvariant ==
    count.crashes = 0 => \A p \in Processes : Undone(jobs[p]) /\ NotOrphaned(jobs[p])

(* One fault, and one command at a time: the promise of the except         *)
(* branches, which nothing but a second fault or a crash can break.        *)
OneFault == OneAtATime /\ MaxFaults \in {0, 1}

LEMMA UndoneFor ==
    ASSUME KeysInvariant, OneAtATime, NEW p \in Processes, NEW job, Update(p, job),
           count'.crashes = count.crashes,
           count.crashes = 0 => Undone(jobs[p])' /\ NotOrphaned(jobs[p])'
    PROVE  UndoInvariant'
BY DEF UndoInvariant, OneAtATime

(* A step that leaves the files, the keyring and the counts alone. *)
LEMMA QuietUndone ==
    ASSUME KeysInvariant, UndoInvariant, OneAtATime, NEW p \in Processes, NEW job, Update(p, job),
           UNCHANGED <<files, secrets, before, count>>,
           \/ jobs[p].at \in Untouched /\ job.at \in Untouched \cup {"ok"}
           \/ jobs[p].at \in AddedTrust /\ job.at \in AddedTrust
           \/ jobs[p].at \in RemovedDevice /\ job.at \in RemovedDevice
           \/ jobs[p].at \in StoredSecret /\ job.at \in StoredSecret
           \/ /\ jobs[p].at \in DroppedProfile \ {"drop.secret"}
              /\ job.at \in DroppedProfile \ {"drop.secret"},
           job.at \in Undoing => jobs[p].at \in Undoing,
           job.at \notin Untouched \cup {"ok"}
             => /\ job.name = jobs[p].name /\ job.address = jobs[p].address
                /\ job.credential = jobs[p].credential
    PROVE  UndoInvariant'
<1>1. jobs'[p] = job /\ UNCHANGED <<inventory, trust, profiles, secrets, before, count>>
    BY Moved DEF files
<1>2. ASSUME count.crashes = 0
      PROVE  Undone(jobs[p])' /\ NotOrphaned(jobs[p])'
  <2>1. Undone(jobs[p]) /\ NotOrphaned(jobs[p])
      BY <1>2 DEF UndoInvariant
  <2> USE DEF Undone, NotOrphaned, Untouched, AddedTrust, RemovedDevice, RemoveSteps, ResetSteps,
              ConnectSteps, StoredSecret, DroppedProfile, Undoing
  <2>2. Undone(jobs[p])'
      BY <1>1, <2>1 DEF Current, Device
  <2>3. NotOrphaned(jobs[p])'
      BY <1>1, <2>1
  <2>4. QED
      BY <2>2, <2>3
<1>3. QED
    BY <1>1, <1>2, UndoneFor

(* A save or a keyring call that fails: the first fault. *)
LEMMA FaultUndone ==
    ASSUME KeysInvariant, SoundInvariant, UndoInvariant, OneFault, NEW p \in Processes,
           NEW step \in Steps, Fault, Goto(p, step),
           \/ jobs[p].at \in Untouched \cup Undoing /\ step = "failed"
           \/ jobs[p].at \in AddedTrust /\ step \in AddedTrust
           \/ jobs[p].at \in RemovedDevice /\ step \in RemovedDevice
           \/ jobs[p].at = "profile.save" /\ step = "profile.rollback"
           \/ jobs[p].at \in DroppedProfile /\ step \in DroppedProfile \cup {"ok"}
    PROVE  UndoInvariant'
<1>1. count.faults = 0 /\ count'.faults = 1 /\ count'.crashes = count.crashes
    BY DEF Fault, OneFault, KeysInvariant, TypeOK
<1>2. UNCHANGED <<inventory, trust, profiles, secrets, before>>
    BY DEF Fault, files
<1>3. ASSUME count.crashes = 0
      PROVE  Undone(jobs[p])' /\ NotOrphaned(jobs[p])'
  <2>1. Undone(jobs[p]) /\ NotOrphaned(jobs[p])
      BY <1>3 DEF UndoInvariant
  <2>2. /\ jobs'[p].at = step
        /\ step \notin Settled => /\ jobs'[p].name = jobs[p].name
                                  /\ jobs'[p].address = jobs[p].address
                                  /\ jobs'[p].credential = jobs[p].credential
      BY WentTo DEF OneFault
  <2> USE DEF Untouched, AddedTrust, RemovedDevice, RemoveSteps, ResetSteps,
              ConnectSteps, StoredSecret, DroppedProfile, Undoing
  <2>3. jobs[p].at \notin Undoing
      BY <1>1, <2>1 DEF Undone
  <2>4. Undone(jobs[p])'
      BY <1>1, <1>2, <2>1, <2>2, <2>3 DEF Undone, Current, Device, Settled
  <2>5. NotOrphaned(jobs[p])'
      BY <1>1, <1>2, <2>1, <2>2, <2>3 DEF NotOrphaned, Settled
  <2>6. QED
      BY <2>4, <2>5
<1>4. QED
    BY <1>1, <1>3, UndoneFor DEF Goto, OneFault

LEMMA StartUndone ==
    ASSUME KeysInvariant, UndoInvariant, OneAtATime, NEW p \in Processes, NEW job,
           Start(p, job), job.at \in Untouched \ {"failed"}
    PROVE  UndoInvariant'
<1>1. /\ jobs'[p] = job /\ before' = Current /\ Update(p, job)
      /\ UNCHANGED <<inventory, trust, profiles, secrets>>
      /\ count'.crashes = count.crashes /\ count'.faults = count.faults
    BY Moved DEF Start, files, Current, KeysInvariant, TypeOK
<1>2. ASSUME count.crashes = 0
      PROVE  Undone(jobs[p])' /\ NotOrphaned(jobs[p])'
  <2>1. NotOrphaned(jobs[p]) /\ jobs[p].at \in Settled
      BY <1>2 DEF UndoInvariant, Start
  <2> USE DEF Untouched, AddedTrust, RemovedDevice, RemoveSteps, ResetSteps,
              ConnectSteps, StoredSecret, DroppedProfile, Undoing
  <2>2. Undone(jobs[p])'
      BY <1>1 DEF Undone, Current
  <2>3. NotOrphaned(jobs[p])'
      BY <1>1, <2>1 DEF NotOrphaned, Settled
  <2>4. QED
      BY <2>2, <2>3
<1>3. QED
    BY <1>1, <1>2, UndoneFor

(* Goto among the steps of QuietUndone. *)
LEMMA QuietGoto ==
    ASSUME KeysInvariant, UndoInvariant, OneAtATime, NEW p \in Processes, NEW step \in Steps,
           Goto(p, step), UNCHANGED <<files, secrets, before, count>>,
           jobs[p].at \in Untouched, step \in Untouched \cup {"ok"}
    PROVE  UndoInvariant'
<1> DEFINE job == IF step \in Settled
                  THEN [NoJob EXCEPT !.at = step]
                  ELSE [jobs[p] EXCEPT !.at = step, !.devices = None, !.hosts = None,
                                       !.known = None]
<1>1. Update(p, job)
    BY DEF Goto
<1>2. job.at = step
    BY WentTo, <1>1, Moved
<1>3. step \notin Undoing
    BY DEF Untouched, Undoing, ResetSteps, ConnectSteps
<1> HIDE DEF job
<1>4. QED
    BY <1>1, <1>2, <1>3, QuietUndone

(* A save or a keyring call that succeeds. *)
LEMMA SavedUndone ==
    ASSUME KeysInvariant, UndoInvariant, OneAtATime, NEW p \in Processes, NEW step \in Steps,
           Goto(p, step), Writes,
           count.crashes = 0 /\ Undone(jobs[p]) /\ NotOrphaned(jobs[p])
             => Undone(jobs[p])' /\ NotOrphaned(jobs[p])'
    PROVE  UndoInvariant'
<1>1. UNCHANGED count
    BY DEF Writes
<1>2. count.crashes = 0 => Undone(jobs[p]) /\ NotOrphaned(jobs[p])
    BY DEF UndoInvariant
<1>3. QED
    BY <1>1, <1>2, UndoneFor DEF Goto

LEMMA AddDeviceUndone ==
    ASSUME KeysInvariant, SoundInvariant, UndoInvariant, OneFault, NEW p \in Processes,
           AddDevice(p)
    PROVE  UndoInvariant'
<1>1. /\ jobs[p] \in Jobs /\ Carries(jobs[p], reviewed) /\ AddStage(jobs[p])
      /\ inventory \in Inventories /\ trust \in TrustFiles /\ OneAtATime
    BY DEF KeysInvariant, TypeOK, SoundInvariant, Stage, OneFault
<1> USE DEF Untouched, AddedTrust, RemovedDevice, RemoveSteps, AddSteps, ResetSteps,
            ConnectSteps, StoredSecret, DroppedProfile, Undoing, Settled, Steps
<1>2. CASE BeginAddDevice(p)
  <2>1. PICK n \in Names, a \in Addresses, c \in profiles :
            Start(p, [NoJob EXCEPT !.at = "add", !.name = n, !.address = a,
                                   !.credential = c, !.pin = hostKey[a]])
      BY <1>2 DEF BeginAddDevice
  <2> DEFINE job == [NoJob EXCEPT !.at = "add", !.name = n, !.address = a,
                                  !.credential = c, !.pin = hostKey[a]]
  <2>2. Start(p, job) /\ job.at = "add"
      BY <2>1 DEF NoJob
  <2> HIDE DEF job
  <2>3. QED
      BY <1>1, <2>2, StartUndone
<1>3. CASE CheckNewDevice(p)
    BY <1>1, <1>3, QuietGoto DEF CheckNewDevice, At, OnlyReads
<1>4. CASE TestNewDevice(p)
    BY <1>1, <1>4, QuietGoto DEF TestNewDevice, At
<1>5. CASE LoadTrustForAdd(p)
  <2>1. jobs[p].at = "add.loadTrust" /\ UNCHANGED <<files, secrets, before, count>>
      BY <1>5 DEF LoadTrustForAdd, At, OnlyReads
  <2>2. CASE LoadTrust(p, "add.saveTrust", Record(jobs[p]))
    <3> DEFINE job == [jobs[p] EXCEPT !.at = "add.saveTrust",
                                      !.hosts = [trust EXCEPT ![jobs[p].name] = Record(jobs[p])]]
    <3>1. Update(p, job) /\ job.at = "add.saveTrust"
        BY <1>1, <2>2 DEF LoadTrust, Jobs
    <3> HIDE DEF job
    <3>2. QED
        BY <1>1, <2>1, <3>1, QuietUndone
  <2>3. CASE Goto(p, "failed")
      BY <1>1, <2>1, <2>3, QuietGoto
  <2>4. QED
      BY <1>5, <2>2, <2>3 DEF LoadTrustForAdd
<1>6. CASE SaveTrustForAdd(p)
  <2>1. /\ jobs[p].at = "add.saveTrust" /\ jobs[p].name \in Names
        /\ trust[jobs[p].name] = None
        /\ jobs[p].hosts = [trust EXCEPT ![jobs[p].name] = Record(jobs[p])]
      BY <1>1, <1>6 DEF SaveTrustForAdd, At, AddStage, Carries, DeviceSteps
  <2>2. CASE Fault /\ Goto(p, "failed")
      BY <2>1, <2>2, FaultUndone
  <2>3. CASE /\ trust' = jobs[p].hosts /\ Goto(p, "add.loadInventory")
             /\ UNCHANGED <<inventory, profiles, secrets>> /\ Writes
    <3>1. jobs'[p].at = "add.loadInventory" /\ jobs'[p].name = jobs[p].name
        BY <1>1, <2>3, WentTo
    <3>2. trust = [trust' EXCEPT ![jobs[p].name] = None]
        BY <1>1, <2>1, <2>3 DEF TrustFiles
    <3>3. Undone(jobs[p]) => Undone(jobs[p])'
        BY <2>1, <2>3, <3>1, <3>2 DEF Undone, Current, Writes
    <3>4. NotOrphaned(jobs[p]) => NotOrphaned(jobs[p])'
        BY <1>1, <2>1, <2>3, <3>1 DEF NotOrphaned, Writes, TrustFiles
    <3>5. QED
        BY <1>1, <2>3, <3>3, <3>4, SavedUndone
  <2>4. QED
      BY <1>6, <2>2, <2>3 DEF SaveTrustForAdd, SaveTrust
<1>7. CASE LoadInventoryForAdd(p)
  <2>1. jobs[p].at = "add.loadInventory" /\ UNCHANGED <<files, secrets, before, count>>
      BY <1>7 DEF LoadInventoryForAdd, At, OnlyReads
  <2>2. LoadDevices(p, "add.saveInventory", Device(jobs[p]))
      BY <1>1, <1>7, <2>1 DEF LoadInventoryForAdd, AddStage
  <2> DEFINE job == [jobs[p] EXCEPT !.at = "add.saveInventory",
                                    !.devices = [inventory EXCEPT ![jobs[p].name] = Device(jobs[p])]]
  <2>3. /\ Update(p, job) /\ job.at = "add.saveInventory" /\ job.name = jobs[p].name
        /\ job.address = jobs[p].address /\ job.credential = jobs[p].credential
      BY <1>1, <2>2 DEF LoadDevices, Jobs
  <2> HIDE DEF job
  <2>4. QED
      BY <1>1, <2>1, <2>3, QuietUndone
<1>8. CASE SaveInventoryForAdd(p)
  <2>1. /\ jobs[p].at = "add.saveInventory" /\ inventory[jobs[p].name] = None
        /\ jobs[p].name \in Names
        /\ jobs[p].devices = [inventory EXCEPT ![jobs[p].name] = Device(jobs[p])]
        /\ jobs[p].address \in Addresses /\ jobs[p].credential \in Profiles
      BY <1>1, <1>8 DEF SaveInventoryForAdd, At, AddStage, Carries, DeviceSteps, CredentialSteps
  <2>2. CASE Fault /\ Goto(p, "add.loadRollback")
      BY <2>1, <2>2, FaultUndone
  <2>3. CASE /\ inventory' = jobs[p].devices /\ Goto(p, "ok")
             /\ UNCHANGED <<trust, profiles, secrets>> /\ Writes
    <3>1. jobs'[p].at = "ok"
        BY <1>1, <2>3, WentTo
    <3>2. Device(jobs[p]) # None
        BY <2>1, StateAssumption DEF Device, DeviceRefs
    <3>3. Undone(jobs[p])'
        BY <3>1 DEF Undone
    <3>4. NotOrphaned(jobs[p]) => NotOrphaned(jobs[p])'
        BY <1>1, <2>1, <2>3, <3>1, <3>2 DEF NotOrphaned, Writes, Inventories
    <3>5. QED
        BY <1>1, <2>3, <3>3, <3>4, SavedUndone
  <2>4. QED
      BY <1>8, <2>2, <2>3 DEF SaveInventoryForAdd, SaveDevices
<1>9. CASE LoadTrustForRollback(p)
  <2>1. /\ jobs[p].at = "add.loadRollback" /\ UNCHANGED <<files, secrets, before, count>>
        /\ trust[jobs[p].name] = Record(jobs[p])
        /\ jobs[p].address \in Addresses /\ jobs[p].pin \in Keys
      BY <1>1, <1>9 DEF LoadTrustForRollback, At, OnlyReads, AddStage, Carries, DeviceSteps,
                        PinnedSteps
  <2>2. trust[jobs[p].name] # None
      BY <2>1, StateAssumption DEF Record, TrustRecords
  <2>3. LoadTrust(p, "add.saveRollback", None)
      BY <1>9, <2>2 DEF LoadTrustForRollback
  <2> DEFINE job == [jobs[p] EXCEPT !.at = "add.saveRollback",
                                    !.hosts = [trust EXCEPT ![jobs[p].name] = None]]
  <2>4. /\ Update(p, job) /\ job.at = "add.saveRollback" /\ job.name = jobs[p].name
        /\ job.address = jobs[p].address /\ job.credential = jobs[p].credential
      BY <1>1, <2>3 DEF LoadTrust, Jobs
  <2> HIDE DEF job
  <2>5. QED
      BY <1>1, <2>1, <2>4, QuietUndone
<1>10. CASE SaveTrustForRollback(p)
  <2>1. /\ jobs[p].at = "add.saveRollback" /\ jobs[p].name \in Names
        /\ inventory[jobs[p].name] = None
        /\ jobs[p].hosts = [trust EXCEPT ![jobs[p].name] = None]
      BY <1>1, <1>10 DEF SaveTrustForRollback, At, AddStage, Carries, DeviceSteps
  <2>2. CASE Fault /\ Goto(p, "failed")
      BY <2>1, <2>2, FaultUndone
  <2>3. CASE /\ trust' = jobs[p].hosts /\ Goto(p, "failed")
             /\ UNCHANGED <<inventory, profiles, secrets>> /\ Writes
    <3>1. jobs'[p].at = "failed"
        BY <1>1, <2>3, WentTo
    <3>2. Undone(jobs[p]) => Undone(jobs[p])'
        BY <2>1, <2>3, <3>1 DEF Undone, Current, Writes
    <3>3. NotOrphaned(jobs[p]) => NotOrphaned(jobs[p])'
        BY <1>1, <2>1, <2>3, <3>1 DEF NotOrphaned, Writes, TrustFiles
    <3>4. QED
        BY <1>1, <2>3, <3>2, <3>3, SavedUndone
  <2>4. QED
      BY <1>10, <2>2, <2>3 DEF SaveTrustForRollback, SaveTrust
<1>11. QED
    BY <1>2, <1>3, <1>4, <1>5, <1>6, <1>7, <1>8, <1>9, <1>10 DEF AddDevice

LEMMA RemoveDeviceUndone ==
    ASSUME KeysInvariant, SoundInvariant, UndoInvariant, OneFault, NEW p \in Processes,
           RemoveDevice(p)
    PROVE  UndoInvariant'
<1>1. /\ jobs[p] \in Jobs /\ Carries(jobs[p], reviewed) /\ RemoveStage(jobs[p])
      /\ inventory \in Inventories /\ trust \in TrustFiles /\ OneAtATime
    BY DEF KeysInvariant, TypeOK, SoundInvariant, Stage, OneFault
<1> USE DEF Untouched, AddedTrust, RemovedDevice, RemoveSteps, AddSteps, ResetSteps,
            ConnectSteps, StoredSecret, DroppedProfile, Undoing, Settled, Steps
<1>2. CASE BeginRemoveDevice(p)
  <2>1. PICK n \in Names :
            Start(p, [NoJob EXCEPT
                        !.at = "remove.save", !.name = n,
                        !.address = inventory[n].address,
                        !.credential = inventory[n].credential,
                        !.devices = [inventory EXCEPT ![n] = None]])
      BY <1>2 DEF BeginRemoveDevice
  <2> DEFINE job == [NoJob EXCEPT !.at = "remove.save", !.name = n,
                                  !.address = inventory[n].address,
                                  !.credential = inventory[n].credential,
                                  !.devices = [inventory EXCEPT ![n] = None]]
  <2>2. Start(p, job) /\ job.at = "remove.save"
      BY <2>1 DEF NoJob
  <2> HIDE DEF job
  <2>3. QED
      BY <1>1, <2>2, StartUndone
<1>3. CASE SaveInventoryForRemove(p)
  <2>1. /\ jobs[p].at = "remove.save" /\ jobs[p].name \in Names
        /\ inventory[jobs[p].name] = Device(jobs[p])
        /\ jobs[p].devices = [inventory EXCEPT ![jobs[p].name] = None]
      BY <1>1, <1>3 DEF SaveInventoryForRemove, At, RemoveStage, Carries, DeviceSteps
  <2>2. CASE Fault /\ Goto(p, "failed")
      BY <2>1, <2>2, FaultUndone
  <2>3. CASE /\ inventory' = jobs[p].devices /\ Goto(p, "remove.loadTrust")
             /\ UNCHANGED <<trust, profiles, secrets>> /\ Writes
    <3>1. /\ jobs'[p].at = "remove.loadTrust" /\ jobs'[p].name = jobs[p].name
          /\ Device(jobs'[p]) = Device(jobs[p])
        BY <1>1, <2>3, WentTo DEF Device
    <3>2. inventory = [inventory' EXCEPT ![jobs[p].name] = Device(jobs[p])]
        BY <1>1, <2>1, <2>3 DEF Inventories
    <3>3. Undone(jobs[p]) => Undone(jobs[p])'
        BY <2>1, <2>3, <3>1, <3>2 DEF Undone, Current, Writes, Device
    <3>4. NotOrphaned(jobs[p]) => NotOrphaned(jobs[p])'
        BY <1>1, <2>1, <2>3, <3>1 DEF NotOrphaned, Writes, Inventories
    <3>5. QED
        BY <1>1, <2>3, <3>3, <3>4, SavedUndone
  <2>4. QED
      BY <1>3, <2>2, <2>3 DEF SaveInventoryForRemove, SaveDevices
<1>4. CASE LoadTrustForRemove(p)
  <2>1. /\ jobs[p].at = "remove.loadTrust" /\ UNCHANGED <<files, secrets, before, count>>
        /\ trust[jobs[p].name] # None
      BY <1>1, <1>4 DEF LoadTrustForRemove, At, OnlyReads, RemoveStage
  <2>2. LoadTrust(p, "remove.saveTrust", None)
      BY <1>4, <2>1 DEF LoadTrustForRemove
  <2> DEFINE job == [jobs[p] EXCEPT !.at = "remove.saveTrust",
                                    !.hosts = [trust EXCEPT ![jobs[p].name] = None]]
  <2>3. /\ Update(p, job) /\ job.at = "remove.saveTrust" /\ job.name = jobs[p].name
        /\ job.address = jobs[p].address /\ job.credential = jobs[p].credential
      BY <1>1, <2>2 DEF LoadTrust, Jobs
  <2> HIDE DEF job
  <2>4. QED
      BY <1>1, <2>1, <2>3, QuietUndone
<1>5. CASE SaveTrustForRemove(p)
  <2>1. /\ jobs[p].at = "remove.saveTrust" /\ jobs[p].name \in Names
        /\ jobs[p].hosts = [trust EXCEPT ![jobs[p].name] = None]
      BY <1>1, <1>5 DEF SaveTrustForRemove, At, RemoveStage, Carries, DeviceSteps
  <2>2. CASE Fault /\ Goto(p, "remove.loadRollback")
      BY <2>1, <2>2, FaultUndone
  <2>3. CASE /\ trust' = jobs[p].hosts /\ Goto(p, "ok")
             /\ UNCHANGED <<inventory, profiles, secrets>> /\ Writes
    <3>1. jobs'[p].at = "ok"
        BY <1>1, <2>3, WentTo
    <3>2. Undone(jobs[p])'
        BY <3>1 DEF Undone
    <3>3. NotOrphaned(jobs[p]) => NotOrphaned(jobs[p])'
        BY <1>1, <2>1, <2>3, <3>1 DEF NotOrphaned, Writes, TrustFiles
    <3>4. QED
        BY <1>1, <2>3, <3>2, <3>3, SavedUndone
  <2>4. QED
      BY <1>5, <2>2, <2>3 DEF SaveTrustForRemove, SaveTrust
<1>6. CASE LoadInventoryForRollback(p)
  <2>1. /\ jobs[p].at = "remove.loadRollback" /\ UNCHANGED <<files, secrets, before, count>>
        /\ inventory[jobs[p].name] = None
      BY <1>1, <1>6 DEF LoadInventoryForRollback, At, OnlyReads, RemoveStage
  <2>2. LoadDevices(p, "remove.saveRollback", Device(jobs[p]))
      BY <1>6, <2>1 DEF LoadInventoryForRollback
  <2> DEFINE job == [jobs[p] EXCEPT !.at = "remove.saveRollback",
                                    !.devices = [inventory EXCEPT ![jobs[p].name] = Device(jobs[p])]]
  <2>3. /\ Update(p, job) /\ job.at = "remove.saveRollback" /\ job.name = jobs[p].name
        /\ job.address = jobs[p].address /\ job.credential = jobs[p].credential
      BY <1>1, <2>2 DEF LoadDevices, Jobs
  <2> HIDE DEF job
  <2>4. QED
      BY <1>1, <2>1, <2>3, QuietUndone
<1>7. CASE SaveInventoryForRollback(p)
  <2>1. /\ jobs[p].at = "remove.saveRollback" /\ jobs[p].name \in Names
        /\ jobs[p].devices = [inventory EXCEPT ![jobs[p].name] = Device(jobs[p])]
        /\ jobs[p].address \in Addresses /\ jobs[p].credential \in Profiles
      BY <1>1, <1>7 DEF SaveInventoryForRollback, At, RemoveStage, Carries, DeviceSteps,
                        CredentialSteps
  <2>2. CASE Fault /\ Goto(p, "failed")
      BY <2>1, <2>2, FaultUndone
  <2>3. CASE /\ inventory' = jobs[p].devices /\ Goto(p, "failed")
             /\ UNCHANGED <<trust, profiles, secrets>> /\ Writes
    <3>1. jobs'[p].at = "failed"
        BY <1>1, <2>3, WentTo
    <3>2. Device(jobs[p]) # None
        BY <2>1, StateAssumption DEF Device, DeviceRefs
    <3>3. Undone(jobs[p]) => Undone(jobs[p])'
        BY <2>1, <2>3, <3>1 DEF Undone, Current, Writes
    <3>4. NotOrphaned(jobs[p]) => NotOrphaned(jobs[p])'
        BY <1>1, <2>1, <2>3, <3>1, <3>2 DEF NotOrphaned, Writes, Inventories
    <3>5. QED
        BY <1>1, <2>3, <3>3, <3>4, SavedUndone
  <2>4. QED
      BY <1>7, <2>2, <2>3 DEF SaveInventoryForRollback, SaveDevices
<1>8. QED
    BY <1>2, <1>3, <1>4, <1>5, <1>6, <1>7 DEF RemoveDevice

LEMMA ResetTrustUndone ==
    ASSUME KeysInvariant, SoundInvariant, UndoInvariant, OneFault, NEW p \in Processes,
           ResetTrust(p)
    PROVE  UndoInvariant'
<1>1. /\ jobs[p] \in Jobs /\ Carries(jobs[p], reviewed) /\ ResetStage(jobs[p])
      /\ inventory \in Inventories /\ trust \in TrustFiles /\ OneAtATime
    BY DEF KeysInvariant, TypeOK, SoundInvariant, Stage, OneFault
<1> USE DEF Untouched, AddedTrust, RemovedDevice, RemoveSteps, AddSteps, ResetSteps,
            ConnectSteps, StoredSecret, DroppedProfile, Undoing, Settled, Steps
<1>2. CASE BeginTrustReset(p)
  <2>1. PICK n \in Names :
            Start(p, [NoJob EXCEPT !.at = "reset.review", !.name = n,
                                   !.address = inventory[n].address])
      BY <1>2 DEF BeginTrustReset
  <2> DEFINE job == [NoJob EXCEPT !.at = "reset.review", !.name = n,
                                  !.address = inventory[n].address]
  <2>2. Start(p, job) /\ job.at = "reset.review"
      BY <2>1 DEF NoJob
  <2> HIDE DEF job
  <2>3. QED
      BY <1>1, <2>2, StartUndone
<1>3. CASE ReviewReplacementKey(p)
  <2>1. jobs[p].at = "reset.review" /\ UNCHANGED <<files, secrets, before, count>>
      BY <1>3 DEF ReviewReplacementKey, At
  <2> DEFINE job == [jobs[p] EXCEPT !.at = "reset.load", !.pin = hostKey[jobs[p].address]]
  <2>2. CASE Update(p, job)
    <3>1. Update(p, job) /\ job.at = "reset.load"
        BY <1>1, <2>2 DEF Jobs
    <3> HIDE DEF job
    <3>2. QED
        BY <1>1, <2>1, <3>1, QuietUndone
  <2>3. CASE Goto(p, "failed")
      BY <1>1, <2>1, <2>3, QuietGoto
  <2>4. QED
      BY <1>3, <2>2, <2>3 DEF ReviewReplacementKey
<1>4. CASE LoadTrustForReset(p)
  <2>1. jobs[p].at = "reset.load" /\ UNCHANGED <<files, secrets, before, count>>
      BY <1>4 DEF LoadTrustForReset, At, OnlyReads
  <2>2. CASE LoadTrust(p, "reset.save", Record(jobs[p]))
    <3> DEFINE job == [jobs[p] EXCEPT !.at = "reset.save",
                                      !.hosts = [trust EXCEPT ![jobs[p].name] = Record(jobs[p])]]
    <3>1. Update(p, job) /\ job.at = "reset.save"
        BY <1>1, <2>2 DEF LoadTrust, Jobs
    <3> HIDE DEF job
    <3>2. QED
        BY <1>1, <2>1, <3>1, QuietUndone
  <2>3. CASE Goto(p, "failed")
      BY <1>1, <2>1, <2>3, QuietGoto
  <2>4. QED
      BY <1>4, <2>2, <2>3 DEF LoadTrustForReset
<1>5. CASE SaveTrustForReset(p)
  <2>1. /\ jobs[p].at = "reset.save" /\ jobs[p].name \in Names
        /\ inventory[jobs[p].name] # None
        /\ jobs[p].hosts = [trust EXCEPT ![jobs[p].name] = Record(jobs[p])]
      BY <1>1, <1>5 DEF SaveTrustForReset, At, ResetStage, Carries, DeviceSteps
  <2>2. CASE Fault /\ Goto(p, "failed")
      BY <2>1, <2>2, FaultUndone
  <2>3. CASE /\ trust' = jobs[p].hosts /\ Goto(p, "ok")
             /\ UNCHANGED <<inventory, profiles, secrets>> /\ Writes
    <3>1. jobs'[p].at = "ok"
        BY <1>1, <2>3, WentTo
    <3>2. Undone(jobs[p])'
        BY <3>1 DEF Undone
    <3>3. NotOrphaned(jobs[p]) => NotOrphaned(jobs[p])'
        BY <1>1, <2>1, <2>3, <3>1 DEF NotOrphaned, Writes, TrustFiles
    <3>4. QED
        BY <1>1, <2>3, <3>2, <3>3, SavedUndone
  <2>4. QED
      BY <1>5, <2>2, <2>3 DEF SaveTrustForReset, SaveTrust
<1>6. QED
    BY <1>2, <1>3, <1>4, <1>5 DEF ResetTrust

LEMMA ConnectUndone ==
    ASSUME KeysInvariant, UndoInvariant, OneAtATime, NEW p \in Processes, Connect(p)
    PROVE  UndoInvariant'
<1>1. jobs[p] \in Jobs
    BY DEF KeysInvariant, TypeOK
<1> USE DEF Untouched, ResetSteps, ConnectSteps, Undoing, Settled, Steps
<1>2. CASE BeginConnect(p)
  <2>1. PICK n \in Names :
            Start(p, [NoJob EXCEPT !.at = "connect.trust", !.name = n,
                                   !.address = inventory[n].address,
                                   !.credential = inventory[n].credential])
      BY <1>2 DEF BeginConnect
  <2> DEFINE job == [NoJob EXCEPT !.at = "connect.trust", !.name = n,
                                  !.address = inventory[n].address,
                                  !.credential = inventory[n].credential]
  <2>2. Start(p, job) /\ job.at = "connect.trust"
      BY <2>1 DEF NoJob
  <2> HIDE DEF job
  <2>3. QED
      BY <2>2, StartUndone
<1>3. ASSUME UNCHANGED <<files, secrets, before, count>>, jobs[p].at \in ConnectSteps,
             NEW step \in ConnectSteps, NEW pin,
             Update(p, [jobs[p] EXCEPT !.at = step, !.pin = pin])
      PROVE  UndoInvariant'
  <2> DEFINE job == [jobs[p] EXCEPT !.at = step, !.pin = pin]
  <2>1. Update(p, job) /\ job.at = step
      BY <1>1, <1>3 DEF Jobs
  <2> HIDE DEF job
  <2>2. QED
      BY <1>3, <2>1, QuietUndone
<1>4. CASE ReadTrust(p)
  <2>1. jobs[p].at = "connect.trust" /\ UNCHANGED <<files, secrets, before, count>>
      BY <1>4 DEF ReadTrust, At, OnlyReads
  <2>2. \/ Goto(p, "failed")
        \/ \E pin : Update(p, [jobs[p] EXCEPT !.at = "connect.discover", !.pin = pin])
      BY <1>4 DEF ReadTrust
  <2>3. QED
      BY <1>3, <2>1, <2>2, QuietGoto
<1>5. CASE VerifyHost(p)
  <2>1. jobs[p].at = "connect.discover" /\ UNCHANGED <<files, secrets, before, count>>
      BY <1>5 DEF VerifyHost, At, OnlyReads
  <2>2. \/ Goto(p, "failed")
        \/ \E pin : Update(p, [jobs[p] EXCEPT !.at = "connect.auth", !.pin = pin])
      BY <1>5 DEF VerifyHost
  <2>3. QED
      BY <1>3, <2>1, <2>2, QuietGoto
<1>6. CASE Authenticate(p)
    BY <1>6, QuietGoto DEF Authenticate, At
<1>7. QED
    BY <1>2, <1>4, <1>5, <1>6 DEF Connect

LEMMA ProfileStartUndone ==
    ASSUME KeysInvariant, UndoInvariant, OneAtATime, NEW p \in Processes, NEW c,
           NEW at \in {"profile.secret", "drop.load", "rotate.secret"},
           Start(p, [NoJob EXCEPT !.at = at, !.credential = c])
    PROVE  UndoInvariant'
<1> DEFINE job == [NoJob EXCEPT !.at = at, !.credential = c]
<1>1. Start(p, job) /\ job.at = at
    BY DEF NoJob
<1> HIDE DEF job
<1>2. QED
    BY <1>1, StartUndone DEF Untouched

LEMMA AddProfileUndone ==
    ASSUME KeysInvariant, SoundInvariant, UndoInvariant, OneFault, NEW p \in Processes,
           AddProfile(p)
    PROVE  UndoInvariant'
<1>1. jobs[p] \in Jobs /\ ProfileStage(jobs[p]) /\ OneAtATime
    BY DEF KeysInvariant, TypeOK, SoundInvariant, Stage, OneFault
<1> USE DEF Untouched, AddedTrust, RemovedDevice, RemoveSteps, AddSteps, ResetSteps,
            ConnectSteps, StoredSecret, DroppedProfile, Undoing, Settled, Steps
<1>2. CASE BeginAddProfile(p)
    BY <1>1, <1>2, ProfileStartUndone DEF BeginAddProfile
<1>3. CASE StoreNewSecret(p)
  <2>1. jobs[p].at = "profile.secret" /\ jobs[p].credential \notin profiles
      BY <1>1, <1>3 DEF StoreNewSecret, At, ProfileStage
  <2>2. CASE Fault /\ Goto(p, "failed")
      BY <2>1, <2>2, FaultUndone
  <2>3. CASE /\ secrets' = secrets \cup {jobs[p].credential} /\ Goto(p, "profile.load")
             /\ UNCHANGED files /\ Writes
    <3>1. /\ jobs'[p].at = "profile.load" /\ jobs'[p].credential = jobs[p].credential
          /\ UNCHANGED <<inventory, trust, profiles, before, count>>
        BY <1>1, <2>3, WentTo DEF Writes, files
    <3>2. ASSUME Undone(jobs[p]), NotOrphaned(jobs[p])
          PROVE  Undone(jobs[p])' /\ NotOrphaned(jobs[p])'
      <4>1. count.faults = 0 => secrets = profiles
          BY <2>1, <3>2 DEF NotOrphaned
      <4>2. count.faults = 0 => secrets' \ {jobs[p].credential} = secrets
          BY <2>1, <2>3, <4>1
      <4>3. before = <<inventory, trust, profiles, secrets>>
          BY <2>1, <3>2 DEF Undone, Current
      <4>4. Undone(jobs[p])'
          BY <3>1, <4>2, <4>3 DEF Undone
      <4>5. NotOrphaned(jobs[p])'
          BY <2>1, <2>3, <3>1, <3>2, <4>1 DEF NotOrphaned
      <4>6. QED
          BY <4>4, <4>5
    <3>3. QED
        BY <1>1, <2>3, <3>2, SavedUndone
  <2>4. QED
      BY <1>3, <2>2, <2>3 DEF StoreNewSecret, SetSecret
<1>4. CASE LoadProfilesForAdd(p)
  <2>1. jobs[p].at = "profile.load" /\ UNCHANGED <<files, secrets, before, count>>
      BY <1>4 DEF LoadProfilesForAdd, At, OnlyReads
  <2>2. LoadProfiles(p, "profile.save", profiles \cup {jobs[p].credential})
      BY <1>1, <1>4, <2>1 DEF LoadProfilesForAdd, ProfileStage
  <2> DEFINE job == [jobs[p] EXCEPT !.at = "profile.save",
                                    !.known = profiles \cup {jobs[p].credential}]
  <2>3. /\ Update(p, job) /\ job.at = "profile.save" /\ job.name = jobs[p].name
        /\ job.address = jobs[p].address /\ job.credential = jobs[p].credential
      BY <1>1, <2>2 DEF LoadProfiles, Jobs
  <2> HIDE DEF job
  <2>4. QED
      BY <1>1, <2>1, <2>3, QuietUndone
<1>5. CASE SaveProfilesForAdd(p)
  <2>1. jobs[p].at = "profile.save" /\ jobs[p].known = profiles \cup {jobs[p].credential}
      BY <1>1, <1>5 DEF SaveProfilesForAdd, At, ProfileStage
  <2>2. CASE Fault /\ Goto(p, "profile.rollback")
      BY <2>1, <2>2, FaultUndone
  <2>3. CASE /\ profiles' = jobs[p].known /\ Goto(p, "ok")
             /\ UNCHANGED <<inventory, trust, secrets>> /\ Writes
    <3>1. jobs'[p].at = "ok"
        BY <1>1, <2>3, WentTo
    <3>2. Undone(jobs[p])'
        BY <3>1 DEF Undone
    <3>3. NotOrphaned(jobs[p]) => NotOrphaned(jobs[p])'
        BY <2>1, <2>3, <3>1 DEF NotOrphaned, Writes
    <3>4. QED
        BY <1>1, <2>3, <3>2, <3>3, SavedUndone
  <2>4. QED
      BY <1>5, <2>2, <2>3 DEF SaveProfilesForAdd, SaveProfiles
<1>6. CASE RollbackSecret(p)
  <2>1. jobs[p].at = "profile.rollback"
      BY <1>6 DEF RollbackSecret, At
  <2>2. CASE Fault /\ Goto(p, "failed")
      BY <2>1, <2>2, FaultUndone
  <2>3. CASE /\ secrets' = secrets \ {jobs[p].credential} /\ Goto(p, "failed")
             /\ UNCHANGED files /\ Writes
    <3>1. jobs'[p].at = "failed" /\ UNCHANGED <<inventory, trust, profiles, before, count>>
        BY <1>1, <2>3, WentTo DEF Writes, files
    <3>2. Undone(jobs[p]) => Undone(jobs[p])'
        BY <2>1, <2>3, <3>1 DEF Undone, Current
    <3>3. Undone(jobs[p]) /\ NotOrphaned(jobs[p]) => NotOrphaned(jobs[p])'
        BY <2>1, <2>3, <3>1 DEF Undone, NotOrphaned
    <3>4. QED
        BY <1>1, <2>3, <3>2, <3>3, SavedUndone
  <2>4. QED
      BY <1>6, <2>2, <2>3 DEF RollbackSecret, DeleteSecret
<1>7. QED
    BY <1>2, <1>3, <1>4, <1>5, <1>6 DEF AddProfile

LEMMA RemoveProfileUndone ==
    ASSUME KeysInvariant, SoundInvariant, UndoInvariant, OneFault, NEW p \in Processes,
           RemoveProfile(p)
    PROVE  UndoInvariant'
<1>1. jobs[p] \in Jobs /\ DropStage(jobs[p]) /\ OneAtATime /\ profiles \subseteq secrets
    BY DEF KeysInvariant, TypeOK, SoundInvariant, Stage, OneFault
<1> USE DEF Untouched, AddedTrust, RemovedDevice, RemoveSteps, AddSteps, ResetSteps,
            ConnectSteps, StoredSecret, DroppedProfile, Undoing, Settled, Steps
<1>2. CASE BeginRemoveProfile(p)
    BY <1>1, <1>2, ProfileStartUndone DEF BeginRemoveProfile
<1>3. CASE LoadProfilesForRemove(p)
  <2>1. jobs[p].at = "drop.load" /\ UNCHANGED <<files, secrets, before, count>>
      BY <1>3 DEF LoadProfilesForRemove, At, OnlyReads
  <2>2. LoadProfiles(p, "drop.save", profiles \ {jobs[p].credential})
      BY <1>1, <1>3, <2>1 DEF LoadProfilesForRemove, DropStage
  <2> DEFINE job == [jobs[p] EXCEPT !.at = "drop.save",
                                    !.known = profiles \ {jobs[p].credential}]
  <2>3. Update(p, job) /\ job.at = "drop.save"
      BY <1>1, <2>2 DEF LoadProfiles, Jobs
  <2> HIDE DEF job
  <2>4. QED
      BY <1>1, <2>1, <2>3, QuietUndone
<1>4. CASE SaveProfilesForRemove(p)
  <2>1. /\ jobs[p].at = "drop.save" /\ jobs[p].credential \in profiles
        /\ jobs[p].known = profiles \ {jobs[p].credential}
      BY <1>1, <1>4 DEF SaveProfilesForRemove, At, DropStage
  <2>2. CASE Fault /\ Goto(p, "failed")
      BY <2>1, <2>2, FaultUndone
  <2>3. CASE /\ profiles' = jobs[p].known /\ Goto(p, "drop.secret")
             /\ UNCHANGED <<inventory, trust, secrets>> /\ Writes
    <3>1. /\ jobs'[p].at = "drop.secret" /\ jobs'[p].credential = jobs[p].credential
          /\ UNCHANGED <<before, count>>
        BY <1>1, <2>3, WentTo DEF Writes
    <3>2. profiles = profiles' \cup {jobs[p].credential}
        BY <2>1, <2>3
    <3>3. Undone(jobs[p]) => Undone(jobs[p])'
        BY <2>1, <2>3, <3>1, <3>2 DEF Undone, Current
    <3>4. NotOrphaned(jobs[p]) => NotOrphaned(jobs[p])'
        BY <2>1, <2>3, <3>1, <3>2 DEF NotOrphaned
    <3>5. QED
        BY <1>1, <2>3, <3>3, <3>4, SavedUndone
  <2>4. QED
      BY <1>4, <2>2, <2>3 DEF SaveProfilesForRemove, SaveProfiles
<1>5. CASE DeleteOldSecret(p)
  <2>1. jobs[p].at = "drop.secret" /\ jobs[p].credential \notin profiles
      BY <1>1, <1>5 DEF DeleteOldSecret, At, DropStage
  <2>2. CASE Fault /\ (Goto(p, "ok") \/ Goto(p, "drop.loadRollback"))
      BY <2>1, <2>2, FaultUndone
  <2>3. CASE /\ secrets' = secrets \ {jobs[p].credential} /\ Goto(p, "ok")
             /\ UNCHANGED files /\ Writes
    <3>1. jobs'[p].at = "ok" /\ UNCHANGED <<inventory, trust, profiles, before, count>>
        BY <1>1, <2>3, WentTo DEF Writes, files
    <3>2. Undone(jobs[p])'
        BY <3>1 DEF Undone
    <3>3. NotOrphaned(jobs[p]) => NotOrphaned(jobs[p])'
        BY <2>1, <2>3, <3>1 DEF NotOrphaned
    <3>4. QED
        BY <1>1, <2>3, <3>2, <3>3, SavedUndone
  <2>4. QED
      BY <1>5, <2>2, <2>3 DEF DeleteOldSecret, DeleteSecret
<1>6. CASE LoadProfilesForRollback(p)
  <2>1. jobs[p].at = "drop.loadRollback" /\ UNCHANGED <<files, secrets, before, count>>
      BY <1>6 DEF LoadProfilesForRollback, At, OnlyReads
  <2>2. LoadProfiles(p, "drop.saveRollback", profiles \cup {jobs[p].credential})
      BY <1>1, <1>6, <2>1 DEF LoadProfilesForRollback, DropStage
  <2> DEFINE job == [jobs[p] EXCEPT !.at = "drop.saveRollback",
                                    !.known = profiles \cup {jobs[p].credential}]
  <2>3. /\ Update(p, job) /\ job.at = "drop.saveRollback" /\ job.name = jobs[p].name
        /\ job.address = jobs[p].address /\ job.credential = jobs[p].credential
      BY <1>1, <2>2 DEF LoadProfiles, Jobs
  <2> HIDE DEF job
  <2>4. QED
      BY <1>1, <2>1, <2>3, QuietUndone
<1>7. CASE SaveProfilesForRollback(p)
  <2>1. /\ jobs[p].at = "drop.saveRollback"
        /\ jobs[p].known = profiles \cup {jobs[p].credential}
      BY <1>1, <1>7 DEF SaveProfilesForRollback, At, DropStage
  <2>2. CASE Fault /\ Goto(p, "failed")
      BY <2>1, <2>2, FaultUndone
  <2>3. CASE /\ profiles' = jobs[p].known /\ Goto(p, "failed")
             /\ UNCHANGED <<inventory, trust, secrets>> /\ Writes
    <3>1. jobs'[p].at = "failed" /\ UNCHANGED <<before, count>>
        BY <1>1, <2>3, WentTo DEF Writes
    <3>2. Undone(jobs[p]) => Undone(jobs[p])' /\ count.faults > 0
        BY <2>1, <2>3, <3>1 DEF Undone, Current
    <3>3. Undone(jobs[p]) /\ NotOrphaned(jobs[p]) => NotOrphaned(jobs[p])'
        BY <2>1, <2>3, <3>1, <3>2 DEF NotOrphaned
    <3>4. QED
        BY <1>1, <2>3, <3>2, <3>3, SavedUndone
  <2>4. QED
      BY <1>7, <2>2, <2>3 DEF SaveProfilesForRollback, SaveProfiles
<1>8. QED
    BY <1>2, <1>3, <1>4, <1>5, <1>6, <1>7 DEF RemoveProfile

LEMMA RotateUndone ==
    ASSUME KeysInvariant, SoundInvariant, UndoInvariant, OneFault, NEW p \in Processes,
           Rotate(p)
    PROVE  UndoInvariant'
<1>1. OneAtATime /\ ProfileStage(jobs[p]) /\ profiles \subseteq secrets
    BY DEF OneFault, SoundInvariant, Stage
<1>2. CASE BeginRotate(p)
    BY <1>1, <1>2, ProfileStartUndone DEF BeginRotate
<1>3. CASE StoreRotatedSecret(p)
  <2>1. jobs[p].at = "rotate.secret" /\ jobs[p].credential \in secrets
      BY <1>1, <1>3 DEF StoreRotatedSecret, At, ProfileStage
  <2>2. CASE Fault /\ Goto(p, "failed")
      BY <2>1, <2>2, FaultUndone DEF Untouched, Steps
  <2>3. CASE /\ secrets' = secrets \cup {jobs[p].credential} /\ Goto(p, "ok")
             /\ UNCHANGED files /\ Writes
    <3>1. jobs'[p].at = "ok" /\ "ok" \in Steps
          /\ UNCHANGED <<inventory, trust, profiles, secrets, before, count>>
        BY <1>1, <2>1, <2>3, WentTo DEF Writes, files, Steps
    <3>2. Undone(jobs[p])' /\ (NotOrphaned(jobs[p]) => NotOrphaned(jobs[p])')
        BY <2>1, <3>1
        DEF Undone, NotOrphaned, Untouched, AddedTrust, RemovedDevice, RemoveSteps, ResetSteps,
            ConnectSteps, StoredSecret, DroppedProfile, Undoing
    <3>3. QED
        BY <1>1, <2>3, <3>1, <3>2, SavedUndone
  <2>4. QED
      BY <1>3, <2>2, <2>3 DEF StoreRotatedSecret, SetSecret
<1>4. QED
    BY <1>2, <1>3 DEF Rotate

LEMMA UndoInvariantHolds ==
    ASSUME OneFault
    PROVE  Spec => []UndoInvariant
<1>1. OneAtATime
    BY DEF OneFault
<1>2. Init => UndoInvariant
  <2> SUFFICES ASSUME Init PROVE UndoInvariant
      OBVIOUS
  <2>1. \A p \in Processes : jobs[p].at = "idle"
      BY DEF Init, NoJob
  <2>2. QED
      BY <2>1 DEF Init, UndoInvariant, Undone, NotOrphaned, Untouched, AddedTrust,
                  RemovedDevice, RemoveSteps, ResetSteps, ConnectSteps, StoredSecret,
                  DroppedProfile, Undoing
<1>3. KeysInvariant /\ SoundInvariant /\ UndoInvariant /\ [Next]_vars => UndoInvariant'
  <2> SUFFICES ASSUME KeysInvariant, SoundInvariant, UndoInvariant, [Next]_vars
               PROVE  UndoInvariant'
      OBVIOUS
  <2>1. ASSUME NEW p \in Processes, Crash(p)
        PROVE  UndoInvariant'
      BY <2>1 DEF Crash, UndoInvariant, KeysInvariant, TypeOK
  <2>2. CASE HostRekeyed \/ UNCHANGED vars
    <3>1. /\ UNCHANGED <<inventory, trust, profiles, secrets, jobs, before>>
          /\ count'.crashes = count.crashes /\ count'.faults = count.faults
        BY <2>2 DEF HostRekeyed, vars, files, KeysInvariant, TypeOK
    <3>2. QED
        BY <3>1 DEF UndoInvariant, Undone, NotOrphaned, Current, Device
  <2>3. QED
      BY <1>1, <2>1, <2>2, AddDeviceUndone, RemoveDeviceUndone, ResetTrustUndone, ConnectUndone,
         AddProfileUndone, RemoveProfileUndone, RotateUndone DEF Next
<1>4. QED
    BY <1>1, <1>2, <1>3, KeysInvariantHolds, SoundInvariantHolds, PTL DEF Spec

(* With one command at a time, and before a second save or keyring call    *)
(* fails or a process dies, a command that reports failure has left the    *)
(* files and the keyring as it found them: the except branches of          *)
(* add_device, remove_device, add_password_profile and remove_profile undo *)
(* every write that came before the one that failed.                       *)
THEOREM FailingCommandUndoes ==
    ASSUME OneFault
    PROVE  Spec => []FailureUndoes
<1>1. UndoInvariant => FailureUndoes
    BY DEF UndoInvariant, FailureUndoes, Undone, Untouched, Current, At
<1>2. QED
    BY <1>1, UndoInvariantHolds, PTL

(* Under the same hypotheses no finished command leaves a trust record     *)
(* without its device behind, and only a failing keyring a password        *)
(* without its profile.                                                    *)
THEOREM NothingLeftBehind ==
    ASSUME OneFault
    PROVE  Spec => []NothingOrphaned
<1>1. ASSUME Processes = {}
      PROVE  Spec => []NothingOrphaned
  <2>1. Init => NothingOrphaned
      BY DEF Init, NothingOrphaned
  <2>2. KeysInvariant /\ NothingOrphaned /\ [Next]_vars => NothingOrphaned'
    <3> SUFFICES ASSUME KeysInvariant, NothingOrphaned, [Next]_vars PROVE NothingOrphaned'
        OBVIOUS
    <3>1. /\ UNCHANGED <<inventory, trust, profiles, secrets>>
          /\ count'.crashes = count.crashes /\ count'.faults = count.faults
        BY <1>1 DEF Next, HostRekeyed, vars, files, KeysInvariant, TypeOK
    <3>2. QED
        BY <1>1, <3>1 DEF NothingOrphaned
  <2>3. QED
      BY <2>1, <2>2, KeysInvariantHolds, PTL DEF Spec
<1>2. ASSUME NEW p \in Processes
      PROVE  UndoInvariant => NothingOrphaned
    BY DEF UndoInvariant, NothingOrphaned, NotOrphaned, Settled, AddedTrust, RemovedDevice,
           RemoveSteps, StoredSecret
<1>3. CASE Processes # {}
  <2>1. UndoInvariant => NothingOrphaned
      BY <1>2, <1>3
  <2>2. QED
      BY <2>1, UndoInvariantHolds, PTL
<1>4. QED
    BY <1>1, <1>3
=============================================================================
