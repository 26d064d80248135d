--------------------------- MODULE ProjectCleanup ---------------------------
(* Freeing the space of delivered projects: the ledger of who uses which file, the publication of new sources, the     *)
(* work that reads them, and the cleanup that moves a project's files to a quarantine and deletes them under a         *)
(* transaction that a restart finishes or undoes.  One server process, its crashes and its boots.                      *)
(* Sources: app/resource-ledger.ts, app/project-cleanup.ts, app/project-lifecycle.ts, app/storage-lock.ts (withStorage-*)
(* Lock, here a lock), app/assembly/store.ts (the project's write lock and safeSyncProject).                           *)
EXTENDS Naturals, FiniteSets

CONSTANTS
    Projects, Files,
    HomeOf,            \* the project in whose imports folder a file lives
    Wanted,            \* bound on inputs: the sets of sources that each project may publish
    Works,             \* renders, exports, packages, preparations
    Nobody,
    RegisterMayFail,   \* whether a write of the ledger may fail when a work is registered
    MaxFaults          \* crashes and failing steps in a behaviour

Transactions == [state : {"staging", "committed"}, items : SUBSET Files, gives : SUBSET Files]

\* What the constants are assumed to be.
ProjectCleanupAssumption ==
    /\ HomeOf \in [Files -> Projects] /\ Wanted \in [Projects -> SUBSET SUBSET Files] /\ RegisterMayFail \in BOOLEAN /\ MaxFaults \in Nat
    /\ Nobody \notin Projects \cup Transactions \cup {"job", "boot"}
    /\ Projects \cap {"job", "boot", "publication", "references"} = {}

\* Who cleans: the confirmation of each project, and the boot.
Jobs == Projects \cup {"boot"}

VARIABLES
    sources,   \* project.json: the sources of the current revision
    disk,                 \* where each file is: "home", "trash" or "gone"
    tx,                   \* each project's cleanup transaction (state, items, resources given up), or Nobody
    index, released,      \* the ledger on disk: what each project uses, what each gave up
    dirty,                \* memory: the scopes whose bookkeeping failed, "boot" until the boot has reconciled
    works,                \* each work: idle, running and registered, running unregistered, with its project and files
    holder,               \* who holds the publication lock, the references lock and each project's write lock
    pub,                  \* the publication of each project: its step and the sources it wants
    job,                  \* the confirmation of each project and the boot: its step
    read,                 \* what whoever reconciles has read of the projects so far, Nobody where it has not
    boot,                 \* the transactions the boot has listed and not come to, and the project it recovers
    faults

disks == <<sources, disk, tx, index, released>>
jobs == <<job, read, boot>>
vars == <<disks, dirty, works, holder, pub, jobs, faults>>

Locks == {"publication", "references"} \cup Projects
Idle == [at |-> "idle", project |-> Nobody, files |-> {}]
NoPub == [at |-> "none", want |-> {}]
NoRead == [p \in Projects |-> Nobody]
NoRelease == [p \in Projects |-> {}]

TypeOK ==
    /\ sources \in [Projects -> SUBSET Files]
    /\ disk \in [Files -> {"home", "trash", "gone"}]
    /\ tx \in [Projects -> Transactions \cup {Nobody}]
    /\ index \in [Projects -> SUBSET Files] /\ released \in [Projects -> SUBSET Files]
    /\ dirty \subseteq Projects \cup {"boot"} /\ faults \in 0..MaxFaults
    /\ works \in [Works -> [at : {"idle", "registered", "unregistered"}, project : Projects \cup {Nobody}, files : SUBSET Files]]
    /\ holder \in [Locks -> Projects \cup {Nobody, "job"}]
    /\ pub \in [Projects -> [at : {"none", "check", "commit", "sync"}, want : SUBSET Files]]
    /\ job \in [Jobs -> {"none", "reconcile", "read", "lock", "plan", "stage", "commit", "undo", "release", "delete", "end"}]
    /\ read \in [Projects -> (SUBSET Files) \cup {Nobody}]
    /\ boot \in [todo : SUBSET Projects, of : Projects \cup {Nobody}]

Init ==
    /\ sources = [p \in Projects |-> {f \in Files : HomeOf[f] = p}] /\ index = sources
    /\ disk = [f \in Files |-> "home"]
    /\ tx = [p \in Projects |-> Nobody] /\ released = NoRelease
    /\ dirty = {} /\ works = [w \in Works |-> Idle] /\ holder = [l \in Locks |-> Nobody]
    /\ pub = [p \in Projects |-> NoPub] /\ job = [j \in Jobs |-> "none"] /\ read = NoRead
    /\ boot = [todo |-> {}, of |-> Nobody] /\ faults = 0

Take(locks, who) == holder' = [l \in Locks |-> IF l \in locks THEN who ELSE holder[l]]
Drop(locks) == Take(locks, Nobody)
IsFree(locks) == \A l \in locks : holder[l] = Nobody

\* The bookkeeping of one project, always without what it gave up.
Entry(p, files) == files \ released[p]

(***************************************************************************)
(* Publishing a revision with other sources, under the project's write     *)
(* lock and, when it adds a source, the publication lock.                  *)
(***************************************************************************)
Adds(p, want) == want \ sources[p] # {}
PubLocks(p) == {p} \cup IF Adds(p, pub[p].want) THEN {"publication"} ELSE {}

Want(p) ==
    /\ pub[p].at = "none"
    /\ \E want \in Wanted[p] \ {sources[p]} :
         /\ IsFree({p}) /\ Take({p}, p)
         /\ pub' = [pub EXCEPT ![p] = [at |-> IF Adds(p, want) THEN "check" ELSE "commit", want |-> want]]
    /\ UNCHANGED <<disks, dirty, works, jobs, faults>>

\* assertSourcePublication: no source inside a project whose cleanup was interrupted, none given up and missing.
Cleanable(p, f) ==
    \/ tx[HomeOf[f]] # Nobody
    \/ f \in released[HomeOf[f]] /\ disk[f] # "home"

Check(p) ==
    /\ pub[p].at = "check" /\ IsFree({"publication"})
    /\ IF \E f \in pub[p].want \ sources[p] : Cleanable(p, f)
         THEN pub' = [pub EXCEPT ![p] = NoPub] /\ Drop({p})
         ELSE pub' = [pub EXCEPT ![p].at = "commit"] /\ Take({"publication"}, p)
    /\ UNCHANGED <<disks, dirty, works, jobs, faults>>

\* The rename of project.json.
CommitPub(p) ==
    /\ pub[p].at = "commit"
    /\ sources' = [sources EXCEPT ![p] = pub[p].want]
    /\ pub' = [pub EXCEPT ![p].at = "sync"]
    /\ UNCHANGED <<disk, tx, index, released, dirty, works, holder, jobs, faults>>

\* safeSyncProject: a failure only marks the ledger incomplete.
Sync(p) ==
    /\ pub[p].at = "sync" /\ IsFree({"references"})
    /\ \/ index' = [index EXCEPT ![p] = Entry(p, sources[p])] /\ UNCHANGED <<dirty, faults>>
       \/ faults < MaxFaults /\ faults' = faults + 1 /\ dirty' = dirty \cup {p} /\ UNCHANGED index
    /\ pub' = [pub EXCEPT ![p] = NoPub]
    /\ holder' = [l \in Locks |-> IF holder[l] = p THEN Nobody ELSE holder[l]]
    /\ UNCHANGED <<sources, disk, tx, released, works, jobs>>

(***************************************************************************)
(* Work on the sources of a project (withResourceWork).                    *)
(***************************************************************************)
Pending(p, files) == \E r \in Projects : tx[r] # Nobody /\ (r = p \/ tx[r].gives \cap files # {})

StartWork(w) ==
    /\ works[w].at = "idle" /\ IsFree({"references"})
    /\ \E p \in Projects :
         LET files == sources[p] IN
         /\ files # {}
         /\ \/ /\ ~Pending(p, files) /\ files \cap released[p] = {}
               /\ works' = [works EXCEPT ![w] = [at |-> "registered", project |-> p, files |-> files]]
               /\ UNCHANGED <<dirty, faults>>
            \/ /\ RegisterMayFail /\ faults < MaxFaults /\ faults' = faults + 1
               /\ works' = [works EXCEPT ![w] = [at |-> "unregistered", project |-> p, files |-> files]]
               /\ dirty' = dirty \cup {p}
    /\ UNCHANGED <<disks, holder, pub, jobs>>

EndWork(w) ==
    /\ works[w].at # "idle" /\ IsFree({"references"})
    /\ works' = [works EXCEPT ![w] = Idle]
    /\ UNCHANGED <<disks, dirty, holder, pub, jobs, faults>>

(***************************************************************************)
(* Reconciling the ledger with the projects on disk, and cleaning one.     *)
(* Confirmations of several projects and the boot run side by side; only   *)
(* the locks keep them apart.                                              *)
(***************************************************************************)
At(j, step) == job[j] = step
Goes(j, step) == job' = [job EXCEPT ![j] = step]
Finish(j) == Goes(j, "none") /\ Drop({l \in Locks : holder[l] = "job"})

\* A plan or a confirmation starts by reconciling.
Confirm(p) ==
    /\ At(p, "none") /\ Goes(p, "reconcile")
    /\ UNCHANGED <<disks, dirty, works, holder, pub, read, boot, faults>>

\* Nobody changes the ledger while reconcile reads the projects one after the other, but they may be published
\* meanwhile.  The boot comes to it after the transactions it has listed.
ReconcileStarts(j) ==
    /\ At(j, "reconcile") /\ IsFree({"references"}) /\ (j = "boot" => boot.todo = {})
    /\ Take({"references"}, "job") /\ Goes(j, "read") /\ read' = NoRead
    /\ UNCHANGED <<disks, dirty, works, pub, boot, faults>>
ReconcileRead(j, p) ==
    /\ At(j, "read") /\ read[p] = Nobody
    /\ read' = [read EXCEPT ![p] = sources[p]]
    /\ UNCHANGED <<disks, dirty, works, holder, pub, job, boot, faults>>
ReconcileWrite(j) ==
    /\ At(j, "read") /\ \A p \in Projects : read[p] # Nobody
    /\ index' = [p \in Projects |-> Entry(p, read[p])] /\ dirty' = {}
    /\ Drop({"references"}) /\ read' = NoRead
    /\ Goes(j, IF j = "boot" THEN "none" ELSE "lock")
    /\ UNCHANGED <<sources, disk, tx, released, works, pub, boot, faults>>

\* A mutation of JobLocks: the cleanup does not exclude publications.
JobLocksNoPublication(p) == {p, "references"}

JobLocks(p) == {p, "publication", "references"}
Lock(p) ==
    /\ At(p, "lock") /\ IsFree(JobLocks(p))
    /\ Take(JobLocks(p), "job") /\ Goes(p, "plan")
    /\ UNCHANGED <<disks, dirty, works, pub, read, boot, faults>>

\* buildPlan: the project's own files nobody else uses, by the ledger; refused while anything is unknown, while the
\* project has work or an interrupted transaction, and when one of another project has a resource it asks about.
\* Whether the revision is delivered and its retention is over, and whether the plan is still the one the user saw, is
\* left open: Plan may always refuse.
UsedBy(f) == {p \in Projects : f \in index[p]}
WorksOn(f) == {w \in Works : works[w].at = "registered" /\ f \in works[w].files}
Items(p) == {f \in sources[p] : HomeOf[f] = p /\ disk[f] = "home" /\ UsedBy(f) \subseteq {p} /\ WorksOn(f) = {}}
Busy(p) == \E w \in Works : works[w].at = "registered" /\ works[w].project = p
Eligible(p) == ~Busy(p) /\ dirty = {} /\ ~Pending(p, sources[p])
Cleaned(p) == sources[p] # {} /\ sources[p] \subseteq released[p]

Plan(p) ==
    /\ At(p, "plan")
    /\ \/ /\ Eligible(p) /\ ~Cleaned(p)
          /\ tx' = [tx EXCEPT ![p] = [state |-> "staging", items |-> Items(p), gives |-> index[p] \cup sources[p]]]
          /\ Goes(p, "stage") /\ UNCHANGED holder
       \/ Finish(p) /\ UNCHANGED tx
    /\ UNCHANGED <<sources, disk, index, released, dirty, works, pub, read, boot, faults>>

\* The items go to the quarantine one by one; a failure brings them back, and may itself fail and leave the journal.
Stage(p) ==
    /\ At(p, "stage")
    /\ \/ \E f \in tx[p].items : disk[f] = "home" /\ disk' = [disk EXCEPT ![f] = "trash"] /\ UNCHANGED <<job, faults>>
       \/ (\A f \in tx[p].items : disk[f] = "trash") /\ Goes(p, "commit") /\ UNCHANGED <<disk, faults>>
       \/ faults < MaxFaults /\ faults' = faults + 1 /\ Goes(p, "undo") /\ UNCHANGED disk
    /\ UNCHANGED <<sources, tx, index, released, dirty, works, holder, pub, read, boot>>

Commits(p, next) ==
    /\ At(p, "commit")
    /\ tx' = [tx EXCEPT ![p].state = "committed"] /\ Goes(p, next)
    /\ UNCHANGED <<sources, disk, index, released, dirty, works, holder, pub, read, boot, faults>>
\* A mutation of CommitTx: the files are deleted before the project gives them up.
CommitTxDeletesFirst(p) == Commits(p, "delete")
CommitTx(p) == Commits(p, "release")

\* recover, staging: every file of the quarantine goes home, then the transaction ends.
Of(j) == IF j = "boot" THEN boot.of ELSE j
Undo(j) ==
    /\ At(j, "undo")
    /\ \/ \E f \in tx[Of(j)].items : disk[f] = "trash" /\ disk' = [disk EXCEPT ![f] = "home"] /\ UNCHANGED job
       \/ (\A f \in tx[Of(j)].items : disk[f] # "trash") /\ Goes(j, "end") /\ UNCHANGED disk
    /\ UNCHANGED <<sources, tx, index, released, dirty, works, holder, pub, read, boot, faults>>

\* recover, committed: the project gives the files up in the ledger, then they are deleted, then the transaction ends.
Release(j) ==
    /\ At(j, "release")
    /\ LET p == Of(j) IN
         /\ released' = [released EXCEPT ![p] = @ \cup tx[p].gives]
         /\ index' = [index EXCEPT ![p] = @ \ tx[p].gives]
    /\ Goes(j, "delete")
    /\ UNCHANGED <<sources, disk, tx, dirty, works, holder, pub, read, boot, faults>>
Delete(j) ==
    /\ At(j, "delete")
    /\ \/ \E f \in tx[Of(j)].items : disk[f] = "trash" /\ disk' = [disk EXCEPT ![f] = "gone"] /\ UNCHANGED job
       \/ (\A f \in tx[Of(j)].items : disk[f] # "trash") /\ Goes(j, "end") /\ UNCHANGED disk
    /\ UNCHANGED <<sources, tx, index, released, dirty, works, holder, pub, read, boot, faults>>
\* The boot goes on to the next transaction of its list, or to reconcile.
Leaves(j) ==
    IF j = "boot" THEN Goes(j, "reconcile") /\ boot' = [boot EXCEPT !.of = Nobody] /\ Drop({l \in Locks : holder[l] = "job"})
                  ELSE Finish(j) /\ UNCHANGED boot
End(j) ==
    /\ At(j, "end") /\ Leaves(j)
    /\ tx' = [tx EXCEPT ![Of(j)] = Nobody]
    /\ UNCHANGED <<sources, disk, index, released, dirty, works, pub, read, faults>>

\* The record of the commitment or a step of the recovery fails: the transaction stays for the next boot.
GiveUp(j) ==
    /\ job[j] \in {"commit", "undo", "release", "delete"} /\ Leaves(j)
    /\ faults < MaxFaults /\ faults' = faults + 1
    /\ UNCHANGED <<disks, dirty, works, pub, read>>

(***************************************************************************)
(* A crash, and the boot: reconcileProjectCleanups, then reconcile, while  *)
(* the server answers already.                                             *)
(***************************************************************************)
Crash ==
    /\ faults < MaxFaults /\ faults' = faults + 1
    /\ dirty' = {"boot"} /\ works' = [w \in Works |-> Idle] /\ holder' = [l \in Locks |-> Nobody]
    /\ pub' = [p \in Projects |-> NoPub] /\ read' = NoRead
    /\ job' = [j \in Jobs |-> IF j = "boot" THEN "reconcile" ELSE "none"]
    /\ boot' = [todo |-> {p \in Projects : tx[p] # Nobody}, of |-> Nobody]
    /\ UNCHANGED disks

\* An interrupted transaction is taken up again under the same three locks before the boot reconciles.
Recover(p) ==
    /\ At("boot", "reconcile") /\ p \in boot.todo
    /\ IsFree(JobLocks(p)) /\ Take(JobLocks(p), "job")
    /\ boot' = [todo |-> boot.todo \ {p}, of |-> p]
    /\ Goes("boot", IF tx[p].state = "staging" THEN "undo" ELSE "release")
    /\ UNCHANGED <<disks, dirty, works, pub, read, faults>>

Next ==
    \/ \E p \in Projects :
         \/ Want(p) \/ Check(p) \/ CommitPub(p) \/ Sync(p)
         \/ Confirm(p) \/ Lock(p) \/ Plan(p) \/ Stage(p) \/ CommitTx(p) \/ Recover(p)
    \/ \E w \in Works : StartWork(w) \/ EndWork(w)
    \/ \E j \in Jobs :
         \/ ReconcileStarts(j) \/ ReconcileWrite(j) \/ \E p \in Projects : ReconcileRead(j, p)
         \/ Undo(j) \/ Release(j) \/ Delete(j) \/ End(j) \/ GiveUp(j)
    \/ Crash

Spec == Init /\ [][Next]_vars
----------------------------------------------------------------------------
\* A cleanup never takes a file another project uses and did not give up itself, not even for a moment, whatever publications, failing syncs,
\* crashes and boots it meets (canRelease and assertSourcePublication).
OthersKeepTheirFiles == \A p \in Projects : \A f \in sources[p] \ released[p] : HomeOf[f] # p => disk[f] = "home"

\* A file is only ever deleted after its project gave it up in the ledger, so that no later work or publication of it
\* is accepted as if the file were there.
DeletedIsGivenUp == \A f \in Files : disk[f] = "gone" => f \in released[HomeOf[f]]

\* Work in progress keeps its files (resource-ledger.ts, withResourceWork and hasWork).
WorkKeepsItsFiles == \A w \in Works : works[w].at # "idle" => \A f \in works[w].files : disk[f] = "home"
=============================================================================
