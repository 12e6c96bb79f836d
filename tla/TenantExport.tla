---------------------------- MODULE TenantExport ----------------------------
(***************************************************************************)
(* The export of an account's data (api/src/admin/tenant-export.service.ts) *)
(* Replicas claim queued exports under a lease, write the data to a partial *)
(* file in shared storage, rename it, and announce it in the row.  Failed   *)
(* and expired exports are cleaned up under a lease of their own, and a     *)
(* sweep removes old files that no row names.  The storage is reserved in   *)
(* the rows: a claim books the largest artifact, a finished export its size.*)
(*                                                                          *)
(* Every transaction of a claim, a settlement or a cleanup holds the quota  *)
(* lock; a writer and a cleanup hold the lock of the export.  The writer's  *)
(* transaction reads a snapshot that is older than its lock.                *)
(***************************************************************************)
EXTENDS Integers, FiniteSets

CONSTANTS
    Procs,        \* replicas of the API, one activity each
    NumJobs,      \* exports that are ever requested (bound)
    Tenants,
    TenantOf,     \* the tenant of each export
    None,
    MaxArtifact,  \* maxArtifactBytes, what a claim reserves
    Sizes,        \* sizes of finished artifacts
    GlobalQuota, TenantQuota,
    MaxAttempts,  \* claims of one export (bound)
    MaxFaults     \* crashes, failed calls and stalls (bound)

Jobs == 1 .. NumJobs

ExportAssumption ==
    /\ {NumJobs, MaxAttempts, MaxFaults, GlobalQuota, TenantQuota} \subseteq Nat
    /\ TenantOf \in [Jobs -> Tenants]
    /\ None \notin Procs
    /\ Sizes \subseteq 1 .. MaxArtifact
    /\ MaxArtifact \in Nat \ {0} /\ MaxArtifact =< GlobalQuota /\ MaxArtifact =< TenantQuota

VARIABLES
    job,      \* the TenantExportJob rows
    expired,  \* exports whose expiresAt has passed
    files,    \* what is in the artifact directory
    whole,    \* claims whose file was written to its end and synced
    aged,     \* claims whose file was last written longer ago than any lease or expiry
    proc,     \* what each replica is doing
    purged,   \* tenants whose records were purged
    faults

exportVars == <<job, expired, files, whole, aged, proc, purged, faults>>

NoJob == [state |-> "none", token |-> 0, lease |-> FALSE, attempts |-> 0, key |-> 0, bytes |-> 0,
          cleanup |-> "NONE", owner |-> None, ownerLease |-> FALSE]
Idle == [phase |-> "idle", job |-> 0, token |-> 0, owns |-> FALSE, size |-> 0,
         todo |-> {}, ok |-> TRUE, spared |-> {}, old |-> {}]

File(j, t, name) == [job |-> j, token |-> t, name |-> name]
FilesOf(j, t) == {File(j, t, "final"), File(j, t, "part")}

\* The locks.  A cleanup that is between its two deletions holds both.
QuotaFree == \A p \in Procs : proc[p].phase # "half"
JobFree(j) == \A p \in Procs : proc[p].phase \in {"writing", "closing", "half"} => proc[p].job # j
RowFree(j) == \A p \in Procs : proc[p].phase = "half" => proc[p].job # j

Fault == faults < MaxFaults /\ faults' = faults + 1
Go(p, phase) == proc' = [proc EXCEPT ![p].phase = phase]

-----------------------------------------------------------------------------
(* Requests and claims. *)

Active(j) == job[j].state \in {"QUEUED", "RUNNING"}

Start(j) ==
    /\ job[j].state = "none" /\ \A k \in Jobs : k < j => job[k].state # "none"
    /\ TenantOf[j] \notin purged
    /\ \A k \in Jobs : TenantOf[k] = TenantOf[j] => ~Active(k)
    /\ job' = [job EXCEPT ![j].state = "QUEUED"]
    /\ UNCHANGED <<expired, files, whole, aged, proc, purged, faults>>

Claimable(j) ==
    /\ ~expired[j] /\ job[j].cleanup = "NONE"
    /\ job[j].state = "QUEUED" \/ (job[j].state = "RUNNING" /\ ~job[j].lease)

\* The bytes that the rows of S have booked, and their sum
Booked(S) == {b \in S \X (1 .. MaxArtifact) : b[2] =< job[b[1]].bytes}
Used(S) == Cardinality(Booked(S))

\* Mutant: what waits for its cleanup is not counted.
UsedByOthersUnsettled(j, S) == Used({k \in S \ {j} : job[k].cleanup = "NONE"})
UsedByOthers(j, S) == Used({k \in S \ {j} : job[k].cleanup # "COMPLETE"})

QuotaAvailable(j) ==
    /\ UsedByOthers(j, Jobs) + MaxArtifact =< GlobalQuota
    /\ UsedByOthers(j, {k \in Jobs : TenantOf[k] = TenantOf[j]}) + MaxArtifact =< TenantQuota

Claim(p, j) ==
    /\ proc[p].phase = "idle" /\ QuotaFree
    /\ Claimable(j) /\ \A k \in Jobs : Claimable(k) => j =< k
    /\ job[j].attempts < MaxAttempts
    /\ IF QuotaAvailable(j)
       THEN /\ job' = [job EXCEPT ![j].state = "RUNNING", ![j].bytes = MaxArtifact,
                                  ![j].token = job[j].attempts + 1, ![j].lease = TRUE,
                                  ![j].attempts = @ + 1]
            /\ proc' = [proc EXCEPT ![p] = [Idle EXCEPT !.phase = "claimed", !.job = j,
                                                        !.token = job[j].attempts + 1]]
       ELSE /\ job' = [job EXCEPT ![j].state = "FAILED", ![j].bytes = 0, ![j].token = 0,
                                  ![j].lease = FALSE, ![j].attempts = @ + 1]
            /\ UNCHANGED proc
    /\ UNCHANGED <<expired, files, whole, aged, purged, faults>>

-----------------------------------------------------------------------------
(* Generation. *)

Mine(p) == job[proc[p].job].state = "RUNNING" /\ job[proc[p].job].token = proc[p].token

Begin(p) ==
    /\ proc[p].phase = "claimed"
    /\ proc' = [proc EXCEPT ![p].phase = "locking",
                            ![p].owns = /\ Mine(p) /\ ~expired[proc[p].job]
                                        /\ job[proc[p].job].cleanup = "NONE"]
    /\ UNCHANGED <<job, expired, files, whole, aged, purged, faults>>

\* assertArtifactWriterOwnsJob reads the snapshot of Begin.
Lock(p) ==
    /\ proc[p].phase = "locking" /\ JobFree(proc[p].job)
    /\ \/ /\ proc[p].owns
          /\ files' = files \cup {File(proc[p].job, proc[p].token, "part")}
          /\ Go(p, "writing")
       \/ ~proc[p].owns /\ Go(p, "failing") /\ UNCHANGED files
    /\ UNCHANGED <<job, expired, whole, aged, purged, faults>>

Renewable(p) == Mine(p) /\ ~expired[proc[p].job]

Heartbeat(p) ==
    /\ proc[p].phase \in {"claimed", "locking", "writing", "closing"}
    /\ RowFree(proc[p].job) /\ Renewable(p) /\ ~job[proc[p].job].lease
    /\ job' = [job EXCEPT ![proc[p].job].lease = TRUE]
    /\ UNCHANGED <<expired, files, whole, aged, proc, purged, faults>>

UpdateProgress(p) ==
    /\ proc[p].phase = "writing" /\ RowFree(proc[p].job)
    /\ Go(p, IF Mine(p) THEN "closing" ELSE "failing")
    /\ UNCHANGED <<job, expired, files, whole, aged, purged, faults>>

CloseWriter(p, n) ==
    /\ proc[p].phase = "closing"
    /\ proc' = [proc EXCEPT ![p].phase = "written", ![p].size = n]
    /\ whole' = whole \cup {<<proc[p].job, proc[p].token>>}
    /\ UNCHANGED <<job, expired, files, aged, purged, faults>>

\* Too many bytes, a broken disk, a timeout of the transaction
GenerationFails(p) ==
    /\ Fault
    /\ proc[p].phase \in {"claimed", "locking", "writing", "closing", "written", "renewed", "renamed"}
    /\ Go(p, "failing")
    /\ UNCHANGED <<job, expired, files, whole, aged, purged>>

RenewLease(p) ==
    /\ proc[p].phase = "written" /\ RowFree(proc[p].job)
    /\ job' = [job EXCEPT ![proc[p].job].lease = IF Renewable(p) THEN TRUE ELSE @]
    /\ Go(p, IF Renewable(p) THEN "renewed" ELSE "failing")
    /\ UNCHANGED <<expired, files, whole, aged, purged, faults>>

Rename(p) ==
    LET part == File(proc[p].job, proc[p].token, "part") IN
    /\ proc[p].phase = "renewed"
    /\ \/ /\ part \in files
          /\ files' = (files \ {part}) \cup {File(proc[p].job, proc[p].token, "final")}
          /\ Go(p, "renamed")
       \/ part \notin files /\ Go(p, "failing") /\ UNCHANGED files
    /\ UNCHANGED <<job, expired, whole, aged, purged, faults>>

Finalizable(p) ==
    /\ Mine(p) /\ job[proc[p].job].lease
    /\ ~expired[proc[p].job] /\ job[proc[p].job].cleanup = "NONE"

Finalized(p) ==
    [job EXCEPT ![proc[p].job].state = "READY", ![proc[p].job].key = proc[p].token,
                ![proc[p].job].bytes = proc[p].size, ![proc[p].job].token = 0,
                ![proc[p].job].lease = FALSE]

Finalize(p) ==
    /\ proc[p].phase = "renamed" /\ QuotaFree
    /\ \/ /\ Finalizable(p) /\ job' = Finalized(p)
          /\ \/ proc' = [proc EXCEPT ![p] = Idle] /\ UNCHANGED faults
             \/ Fault /\ Go(p, "failing")
       \/ ~Finalizable(p) /\ Go(p, "failing") /\ UNCHANGED <<job, faults>>
    /\ UNCHANGED <<expired, files, whole, aged, purged>>

MarkForCleanup(p) ==
    LET mine == Mine(p) /\ job[proc[p].job].cleanup = "NONE" IN
    /\ proc[p].phase = "failing" /\ QuotaFree
    /\ \/ /\ mine
          /\ job' = [job EXCEPT ![proc[p].job].state = "FAILED", ![proc[p].job].cleanup = "PENDING",
                                ![proc[p].job].owner = None]
          /\ Go(p, "own") /\ UNCHANGED faults
       \/ ~mine /\ proc' = [proc EXCEPT ![p] = Idle] /\ UNCHANGED <<job, faults>>
       \/ Fault /\ proc' = [proc EXCEPT ![p] = Idle] /\ UNCHANGED job
    /\ UNCHANGED <<expired, files, whole, aged, purged>>

-----------------------------------------------------------------------------
(* Cleanup. *)

CleanupDue(j) ==
    \/ job[j].cleanup = "PENDING" /\ (job[j].owner = None \/ ~job[j].ownerLease)
    \/ /\ expired[j] /\ job[j].cleanup = "NONE"
       /\ job[j].state \in {"QUEUED", "RUNNING", "READY", "FAILED"}

Empty(j) == job[j].bytes = 0 /\ job[j].key = 0 /\ job[j].token = 0

CleanupClaimed(p, S) ==
    [j \in Jobs |->
        IF j \notin S THEN job[j]
        ELSE [job[j] EXCEPT !.state = IF expired[j] THEN "EXPIRED" ELSE @,
                            !.cleanup = IF Empty(j) THEN "COMPLETE" ELSE "PENDING",
                            !.owner = IF Empty(j) THEN None ELSE p,
                            !.ownerLease = ~Empty(j)]]

\* All exports that are due and not locked, or the one that just failed here
ClaimCleanup(p) ==
    LET due == {j \in Jobs : CleanupDue(j) /\ JobFree(j)}
        S == IF proc[p].phase = "own" THEN due \cap {proc[p].job} ELSE due IN
    /\ proc[p].phase \in {"idle", "own"} /\ QuotaFree
    /\ job' = CleanupClaimed(p, S)
    /\ proc' = [proc EXCEPT ![p] = [Idle EXCEPT !.phase = "cleaning",
                                                !.todo = {j \in S : ~Empty(j)},
                                                !.ok = proc[p].phase = "idle"]]
    /\ UNCHANGED <<expired, files, whole, aged, purged, faults>>

CleanupOwned(p, j) == job[j].cleanup = "PENDING" /\ job[j].owner = p

CleanFinal(p, j) ==
    /\ proc[p].phase = "cleaning" /\ j \in proc[p].todo
    /\ QuotaFree /\ JobFree(j)
    /\ \/ /\ CleanupOwned(p, j)
          /\ files' = files \ ({File(j, job[j].token, "final"), File(j, job[j].key, "final")})
          /\ proc' = [proc EXCEPT ![p].phase = "half", ![p].job = j]
       \/ ~CleanupOwned(p, j) /\ proc' = [proc EXCEPT ![p].todo = @ \ {j}] /\ UNCHANGED files
    /\ UNCHANGED <<job, expired, whole, aged, purged, faults>>

CleanPart(p) ==
    LET j == proc[p].job IN
    /\ proc[p].phase = "half"
    /\ files' = files \ {File(j, job[j].token, "part")}
    /\ job' = [job EXCEPT ![j].cleanup = "COMPLETE", ![j].owner = None, ![j].ownerLease = FALSE,
                          ![j].key = 0, ![j].bytes = 0, ![j].token = 0, ![j].lease = FALSE]
    /\ proc' = [proc EXCEPT ![p].phase = "cleaning", ![p].todo = @ \ {j}]
    /\ UNCHANGED <<expired, whole, aged, purged, faults>>

\* A deletion fails: the claim is released (or that fails too), and the sweep
\* waits for another time.
CleanFails(p, j) ==
    /\ Fault
    /\ proc[p].phase \in {"cleaning", "half"} /\ j \in proc[p].todo
    /\ proc[p].phase = "half" => proc[p].job = j
    /\ proc' = [proc EXCEPT ![p].phase = "cleaning", ![p].todo = @ \ {j}, ![p].ok = FALSE]
    /\ job' \in {job, IF CleanupOwned(p, j)
                      THEN [job EXCEPT ![j].owner = None, ![j].ownerLease = FALSE] ELSE job}
    /\ UNCHANGED <<expired, files, whole, aged, purged>>

\* What the sweep spares: finished artifacts, and all that a claim may write
ProtectedKeys == {File(j, job[j].key, "final") : j \in {k \in Jobs : job[k].key # 0}}
ProtectedEntries ==
    ProtectedKeys \cup UNION {FilesOf(j, job[j].token) : j \in {k \in Jobs : job[k].token # 0}}

SweepRead(p) ==
    /\ proc[p].phase = "cleaning" /\ proc[p].todo = {}
    /\ IF proc[p].ok
       THEN proc' = [proc EXCEPT ![p] = [Idle EXCEPT !.phase = "sweeping", !.old = aged,
                                                     !.spared = ProtectedEntries]]
       ELSE proc' = [proc EXCEPT ![p] = Idle]
    /\ UNCHANGED <<job, expired, files, whole, aged, purged, faults>>

SweepOrphans(p) ==
    /\ proc[p].phase = "sweeping"
    /\ files' = {f \in files : <<f.job, f.token>> \notin proc[p].old \/ f \in proc[p].spared}
    /\ proc' = [proc EXCEPT ![p] = Idle]
    /\ UNCHANGED <<job, expired, whole, aged, purged, faults>>

-----------------------------------------------------------------------------
(* Time, crashes, and the purge of a tenant. *)

\* A stopped process, or one whose shutdown deadline passed
Crash(p) ==
    /\ Fault
    /\ proc[p].phase # "idle"
    /\ proc' = [proc EXCEPT ![p] = Idle]
    /\ UNCHANGED <<job, expired, files, whole, aged, purged>>

Expire(j) ==
    /\ job[j].state # "none" /\ ~expired[j]
    /\ expired' = [expired EXCEPT ![j] = TRUE]
    /\ UNCHANGED <<job, files, whole, aged, proc, purged, faults>>

Busy(j) == \E p \in Procs : /\ proc[p].phase \notin {"idle", "cleaning", "half", "sweeping"}
                            /\ proc[p].job = j /\ proc[p].token = job[j].token

\* A lease runs out when nobody renews it, or under a process that stalls.
LeaseLapses(j) ==
    /\ job[j].lease
    /\ IF Busy(j) THEN Fault ELSE UNCHANGED faults
    /\ job' = [job EXCEPT ![j].lease = FALSE]
    /\ UNCHANGED <<expired, files, whole, aged, proc, purged>>

CleanupLeaseLapses(j) ==
    /\ job[j].ownerLease
    /\ IF j \in proc[job[j].owner].todo THEN Fault ELSE UNCHANGED faults
    /\ job' = [job EXCEPT ![j].ownerLease = FALSE]
    /\ UNCHANGED <<expired, files, whole, aged, proc, purged>>

\* A file is old when it was not written for the time of a lease and of an
\* expiry: by then its export has expired.
Age(f) ==
    /\ f \in files /\ expired[f.job] /\ <<f.job, f.token>> \notin aged
    /\ \A p \in Procs : proc[p].phase \in {"writing", "closing"} =>
           proc[p].job # f.job \/ proc[p].token # f.token
    /\ aged' = aged \cup {<<f.job, f.token>>}
    /\ UNCHANGED <<job, expired, files, whole, proc, purged, faults>>

\* A trigger refuses the deletion of rows that may still name a file.
Purge(t) ==
    /\ t \notin purged /\ QuotaFree
    /\ \A j \in Jobs : TenantOf[j] = t => Empty(j) /\ job[j].cleanup # "PENDING"
    /\ \E j \in Jobs : TenantOf[j] = t /\ job[j].state # "none"
    /\ purged' = purged \cup {t}
    /\ job' = [j \in Jobs |-> IF TenantOf[j] = t /\ job[j].state # "none"
                              THEN [NoJob EXCEPT !.state = "purged"] ELSE job[j]]
    /\ UNCHANGED <<expired, files, whole, aged, proc, faults>>

-----------------------------------------------------------------------------
Init ==
    /\ job = [j \in Jobs |-> NoJob]
    /\ expired = [j \in Jobs |-> FALSE]
    /\ files = {} /\ whole = {} /\ aged = {}
    /\ proc = [p \in Procs |-> Idle]
    /\ purged = {} /\ faults = 0

Work(p) ==
    \/ Begin(p) \/ Lock(p) \/ Heartbeat(p) \/ UpdateProgress(p)
    \/ \E n \in Sizes : CloseWriter(p, n)
    \/ RenewLease(p) \/ Rename(p) \/ Finalize(p) \/ MarkForCleanup(p)
    \/ \E j \in Jobs : CleanFinal(p, j)
    \/ CleanPart(p) \/ SweepRead(p) \/ SweepOrphans(p)

Next ==
    \/ \E j \in Jobs : \/ Start(j) \/ Expire(j) \/ LeaseLapses(j) \/ CleanupLeaseLapses(j)
                       \/ \E p \in Procs : Claim(p, j) \/ CleanFails(p, j)
    \/ \E p \in Procs : Work(p) \/ ClaimCleanup(p) \/ GenerationFails(p) \/ Crash(p)
    \/ \E f \in files : Age(f)
    \/ \E t \in Tenants : Purge(t)

Spec == Init /\ [][Next]_exportVars

SomethingToClean == files # {} \/ \E j \in Jobs : CleanupDue(j)

\* Replicas run their steps, their timers fire, and time passes.
Fairness ==
    /\ \A p \in Procs : /\ WF_exportVars(Work(p))
                        /\ WF_exportVars(ClaimCleanup(p) /\ SomethingToClean)
    /\ \A j \in Jobs : /\ WF_exportVars(Expire(j))
                       /\ WF_exportVars(CleanupLeaseLapses(j))
    /\ \A j \in Jobs, t \in 1 .. MaxAttempts : WF_exportVars(\E f \in FilesOf(j, t) : Age(f))

FairSpec == Spec /\ Fairness

-----------------------------------------------------------------------------
(* Properties. *)

TypeOK ==
    /\ \A j \in Jobs :
          /\ job[j].state \in {"none", "QUEUED", "RUNNING", "READY", "FAILED", "EXPIRED", "purged"}
          /\ job[j].cleanup \in {"NONE", "PENDING", "COMPLETE"}
          /\ job[j].bytes \in 0 .. MaxArtifact /\ job[j].owner \in Procs \cup {None}
    /\ \A f \in files : f.job \in Jobs /\ f.token \in 1 .. MaxAttempts

\* The rows never book more storage than there is, for all tenants and for
\* each, and a row that names a file books its storage: failed and expired
\* exports are counted until their files are gone.
QuotaHolds ==
    /\ Used(Jobs) =< GlobalQuota
    /\ \A t \in Tenants : Used({j \in Jobs : TenantOf[j] = t}) =< TenantQuota
    /\ \A j \in Jobs : (\E f \in files : f.job = j /\ f.token \in {job[j].token, job[j].key})
                          => job[j].bytes > 0

\* A finished export has its file, written to the end and renamed, and keeps it
\* until its cleanup begins, although cleanups, sweeps and writers that lost
\* their lease work in the same directory.
ReadyIsWhole ==
    \A j \in Jobs : job[j].state = "READY" =>
        \/ File(j, job[j].key, "final") \in files /\ <<j, job[j].key>> \in whole
        \/ job[j].cleanup = "PENDING"

\* Every requested export ends, and no file stays for ever: not one of a
\* finished export, and none that a crash or a late writer left behind.
ExportsEnd ==
    /\ \A j \in Jobs : Active(j) ~> ~Active(j)
    /\ \A j \in Jobs, t \in 1 .. MaxAttempts :
          (FilesOf(j, t) \cap files # {}) ~> (FilesOf(j, t) \cap files = {})

=============================================================================
