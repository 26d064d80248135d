--------------------------- MODULE SafeParts_proofs ---------------------------
(***************************************************************************)
(* For any projects, files, works, uploads, runtimes, pieces and number of *)
(* faults: a cleanup takes no file that another project uses, a file is    *)
(* deleted only after it was given up, the pool holds whole files only,    *)
(* nothing accepted is lost, a canceled upload is not published, and what  *)
(* was promised to the uploads fits on the disk.                           *)
(***************************************************************************)
EXTENDS SafeParts, FiniteSetTheorems, WellFoundedInduction, TLAPS

-----------------------------------------------------------------------------
(* The cleanup of delivered projects: the inductive invariant.             *)

Inside == {"plan", "stage", "commit", "undo", "release", "delete", "end"}
Under == Inside \ {"plan"}
Steps == {"none", "reconcile", "read", "lock"} \cup Inside
AtWork(j) == cleaning[j] \in Inside \cup {"read"}

\* Who holds what: a cleanup holds its three locks, whoever reconciles the references,
\* so that one works at a time; a publication holds the lock of its project.
HoldersFit ==
  /\ \A j, k \in P!Jobs : AtWork(j) /\ AtWork(k) => j = k
  /\ \A j \in P!Jobs : AtWork(j) => holder["references"] = "job"
  /\ \A j \in P!Jobs : cleaning[j] \in Inside =>
       P!Of(j) \in Projects /\ holder[P!Of(j)] = "job" /\ holder["publication"] = "job"
  /\ cleaning["boot"] \notin {"lock", "plan", "stage", "commit"}
  /\ \A p \in Projects : pub[p].at # "none" => holder[p] = p
  /\ \A p \in Projects :
       pub[p].at = "commit" /\ pub[p].want \ sources[p] # {} => holder["publication"] = p

\* A source that is about to be added is at home, in a project nobody is cleaning.
AddedAreHome ==
  \A p \in Projects : pub[p].at = "commit" =>
    \A f \in pub[p].want \ sources[p] : tx[HomeOf[f]] = Nobody /\ where[f] = "home"

\* A publication that has renamed project.json and still holds the publication lock.
Renamed(p) == pub[p].at = "sync" /\ holder["publication"] = p

\* What is complete is complete: a ledger with no open bookkeeping names every source
\* in use, but for a publication under way; and so does what reconcile has read so far.
LedgerIsComplete ==
  /\ "boot" \notin dirty =>
       \A p \in Projects \ dirty : Renamed(p) \/ sources[p] \ released[p] \subseteq ledger[p]
  /\ \A p \in Projects : scan[p] # Nobody =>
       /\ holder["references"] = "job" /\ \A j \in P!Jobs : cleaning[j] \notin Inside
       /\ Renamed(p) \/ sources[p] \subseteq scan[p]

\* The files of each open transaction are its project's own, and nobody else's; those in
\* the quarantine belong to an open transaction; the boot's list names open ones only,
\* and none that somebody is at.
TransactionsFit ==
  /\ \A j \in P!Jobs : cleaning[j] \in Under => tx[P!Of(j)] # Nobody /\ P!Of(j) \notin booting.todo
  /\ \A p \in booting.todo : tx[p] # Nobody
  /\ \A q \in Projects : tx[q] # Nobody =>
       \A f \in tx[q].items :
         /\ HomeOf[f] = q /\ f \in tx[q].gives
         /\ \A p \in Projects \ {q} : f \notin sources[p] \ released[p]
  /\ \A f \in Files : where[f] = "trash" => tx[HomeOf[f]] # Nobody /\ f \in tx[HomeOf[f]].items
  /\ \A j \in P!Jobs : cleaning[j] = "delete" => tx[P!Of(j)].gives \subseteq released[P!Of(j)]
  /\ \A j \in P!Jobs : cleaning[j] = "end" => \A f \in tx[P!Of(j)].items : where[f] # "trash"

CleanupInv ==
  /\ P!TypeOK /\ HoldersFit /\ AddedAreHome /\ LedgerIsComplete /\ TransactionsFit
  /\ P!OthersKeepTheirFiles /\ P!DeletedIsGivenUp

LEMMA WantKeeps ==
  ASSUME CleanupInv, NEW p \in Projects, P!Want(p)
  PROVE  CleanupInv'
<1> USE SafePartsAssumption DEF CleanupInv, P!ProjectCleanupAssumption
<1>1. P!TypeOK'
  <2>1. PICK want \in Wanted[p] \ {sources[p]} :
          /\ holder' = [l \in P!Locks |-> IF l \in {p} THEN p ELSE holder[l]]
          /\ pub' = [pub EXCEPT ![p] = [at |-> IF P!Adds(p, want) THEN "check" ELSE "commit", want |-> want]]
    BY DEF P!Want, P!Take
  <2>2. want \subseteq Files
    OBVIOUS
  <2>3. [at |-> IF P!Adds(p, want) THEN "check" ELSE "commit", want |-> want]
          \in [at : {"none", "check", "commit", "sync"}, want : SUBSET Files]
    BY <2>2
  <2> QED BY <2>1, <2>3 DEF P!Want, P!disks, P!jobs, P!TypeOK
<1>2. HoldersFit'
  BY DEF P!Want, P!disks, P!jobs, P!Adds, P!Take, P!IsFree, HoldersFit, AtWork, Inside, P!Locks, P!TypeOK, P!Jobs,
      P!Of
<1>3. AddedAreHome' BY DEF P!Want, P!disks, P!jobs, P!Adds, P!Take, P!IsFree, AddedAreHome, P!TypeOK, HoldersFit
<1>4. LedgerIsComplete'
  BY DEF P!Want, P!disks, P!jobs, P!Adds, P!Take, P!IsFree, LedgerIsComplete, Renamed, P!TypeOK, HoldersFit,
      AtWork, Inside, P!Locks, P!Jobs
<1>5. TransactionsFit'
  BY DEF P!Want, P!disks, P!jobs, P!Adds, P!Take, P!IsFree, TransactionsFit, P!TypeOK, HoldersFit, AtWork,
      AddedAreHome, Inside, Under, P!Transactions, P!Jobs, P!Of
<1>6. P!OthersKeepTheirFiles'
  BY DEF P!Want, P!disks, P!jobs, P!Adds, P!Take, P!IsFree, P!OthersKeepTheirFiles, P!TypeOK, AddedAreHome
<1>7. P!DeletedIsGivenUp' BY DEF P!Want, P!disks, P!jobs, P!Adds, P!Take, P!IsFree, P!DeletedIsGivenUp, P!TypeOK
<1> QED BY <1>1, <1>2, <1>3, <1>4, <1>5, <1>6, <1>7 DEF CleanupInv

LEMMA CommitPubKeeps ==
  ASSUME CleanupInv, NEW p \in Projects, P!CommitPub(p)
  PROVE  CleanupInv'
<1> USE SafePartsAssumption DEF CleanupInv, P!ProjectCleanupAssumption
<1>1. P!TypeOK' BY DEF P!CommitPub, P!jobs, P!TypeOK, P!Locks, P!Transactions, P!Jobs
<1>2. HoldersFit' BY DEF P!CommitPub, P!jobs, HoldersFit, AtWork, Inside, P!Locks, P!TypeOK, P!Jobs, P!Of
<1>3. AddedAreHome' BY DEF P!CommitPub, P!jobs, AddedAreHome, P!TypeOK, HoldersFit
<1>4. LedgerIsComplete'
  BY DEF P!CommitPub, P!jobs, LedgerIsComplete, Renamed, P!TypeOK, HoldersFit, AtWork, Inside, P!Locks, P!Jobs
<1>5. TransactionsFit'
  BY DEF P!CommitPub, P!jobs, TransactionsFit, P!TypeOK, HoldersFit, AtWork, AddedAreHome, Inside, Under,
      P!Transactions, P!Jobs, P!Of
<1>6. P!OthersKeepTheirFiles' BY DEF P!CommitPub, P!jobs, P!OthersKeepTheirFiles, P!TypeOK, AddedAreHome
<1>7. P!DeletedIsGivenUp' BY DEF P!CommitPub, P!jobs, P!DeletedIsGivenUp, P!TypeOK
<1> QED BY <1>1, <1>2, <1>3, <1>4, <1>5, <1>6, <1>7 DEF CleanupInv

LEMMA SyncKeeps ==
  ASSUME CleanupInv, NEW p \in Projects, P!Sync(p)
  PROVE  CleanupInv'
<1> USE SafePartsAssumption DEF CleanupInv, P!ProjectCleanupAssumption
<1>1. P!TypeOK'
  <2>1. ledger' \in [Projects -> SUBSET Files]
    <3>1. ledger' = ledger \/ ledger' = [ledger EXCEPT ![p] = sources[p] \ released[p]]
      BY DEF P!Sync, P!Entry
    <3>2. sources[p] \ released[p] \in SUBSET Files
      BY DEF P!TypeOK
    <3>3. ledger \in [Projects -> SUBSET Files]
      BY DEF P!TypeOK
    <3> QED BY <3>1, <3>2, <3>3
  <2>2. dirty' \subseteq Projects \cup {"boot"} /\ pfaults' \in 0..CleanupFaults
    BY DEF P!TypeOK, P!Sync
  <2>3. holder' \in [P!Locks -> Projects \cup {Nobody, "job"}]
    BY DEF P!TypeOK, P!Sync
  <2>4. pub' \in [Projects -> [at : {"none", "check", "commit", "sync"}, want : SUBSET Files]]
    BY DEF P!TypeOK, P!Sync, P!NoPub
  <2> QED BY <2>1, <2>2, <2>3, <2>4 DEF P!Sync, P!jobs, P!TypeOK
<1>2. HoldersFit'
  BY DEF P!Sync, P!jobs, P!NoPub, P!IsFree, P!Entry, HoldersFit, AtWork, Inside, P!Locks, P!TypeOK, P!Jobs, P!Of
<1>3. AddedAreHome' BY DEF P!Sync, P!jobs, P!NoPub, P!IsFree, P!Entry, AddedAreHome, P!TypeOK, HoldersFit
<1>4. LedgerIsComplete'
  BY DEF P!Sync, P!jobs, P!NoPub, P!IsFree, P!Entry, LedgerIsComplete, Renamed, P!TypeOK, HoldersFit, AtWork,
      Inside, P!Locks, P!Jobs
<1>5. TransactionsFit'
  BY DEF P!Sync, P!jobs, P!NoPub, P!IsFree, P!Entry, TransactionsFit, P!TypeOK, HoldersFit, AtWork, AddedAreHome,
      Inside, Under, P!Transactions, P!Jobs, P!Of
<1>6. P!OthersKeepTheirFiles'
  BY DEF P!Sync, P!jobs, P!NoPub, P!IsFree, P!Entry, P!OthersKeepTheirFiles, P!TypeOK, AddedAreHome
<1>7. P!DeletedIsGivenUp' BY DEF P!Sync, P!jobs, P!NoPub, P!IsFree, P!Entry, P!DeletedIsGivenUp, P!TypeOK
<1> QED BY <1>1, <1>2, <1>3, <1>4, <1>5, <1>6, <1>7 DEF CleanupInv

LEMMA StartWorkKeeps ==
  ASSUME CleanupInv, NEW w \in Works, P!StartWork(w)
  PROVE  CleanupInv'
<1> USE SafePartsAssumption DEF CleanupInv, P!ProjectCleanupAssumption
<1>1. P!TypeOK'
  <2>1. dirty' \subseteq Projects \cup {"boot"} /\ pfaults' \in 0..CleanupFaults
    BY DEF P!TypeOK, P!StartWork
  <2>2. PICK p \in Projects, at \in {"registered", "unregistered"} :
          works' = [works EXCEPT ![w] = [at |-> at, project |-> p, files |-> sources[p]]]
    BY DEF P!StartWork
  <2>3. works' \in [Works -> [at : {"idle", "registered", "unregistered"}, project : Projects \cup {Nobody},
                             files : SUBSET Files]]
    BY <2>2 DEF P!TypeOK
  <2> QED BY <2>1, <2>3 DEF P!StartWork, P!disks, P!jobs, P!TypeOK
<1>2. HoldersFit'
  BY DEF P!StartWork, P!disks, P!jobs, P!IsFree, HoldersFit, AtWork, Inside, P!Locks, P!TypeOK, P!Jobs, P!Of
<1>3. AddedAreHome' BY DEF P!StartWork, P!disks, P!jobs, P!IsFree, AddedAreHome, P!TypeOK, HoldersFit
<1>4. LedgerIsComplete'
  BY DEF P!StartWork, P!disks, P!jobs, P!IsFree, LedgerIsComplete, Renamed, P!TypeOK, HoldersFit, AtWork, Inside,
      P!Locks, P!Jobs
<1>5. TransactionsFit'
  BY DEF P!StartWork, P!disks, P!jobs, P!IsFree, TransactionsFit, P!TypeOK, HoldersFit, AtWork, AddedAreHome,
      Inside, Under, P!Transactions, P!Jobs, P!Of
<1>6. P!OthersKeepTheirFiles'
  BY DEF P!StartWork, P!disks, P!jobs, P!IsFree, P!OthersKeepTheirFiles, P!TypeOK, AddedAreHome
<1>7. P!DeletedIsGivenUp' BY DEF P!StartWork, P!disks, P!jobs, P!IsFree, P!DeletedIsGivenUp, P!TypeOK
<1> QED BY <1>1, <1>2, <1>3, <1>4, <1>5, <1>6, <1>7 DEF CleanupInv

LEMMA EndWorkKeeps ==
  ASSUME CleanupInv, NEW w \in Works, P!EndWork(w)
  PROVE  CleanupInv'
<1> USE SafePartsAssumption DEF CleanupInv, P!ProjectCleanupAssumption
<1>1. P!TypeOK' BY DEF P!EndWork, P!disks, P!jobs, P!IsFree, P!Idle, P!TypeOK, P!Locks, P!Transactions, P!Jobs
<1>2. HoldersFit'
  BY DEF P!EndWork, P!disks, P!jobs, P!IsFree, P!Idle, HoldersFit, AtWork, Inside, P!Locks, P!TypeOK, P!Jobs, P!Of
<1>3. AddedAreHome' BY DEF P!EndWork, P!disks, P!jobs, P!IsFree, P!Idle, AddedAreHome, P!TypeOK, HoldersFit
<1>4. LedgerIsComplete'
  BY DEF P!EndWork, P!disks, P!jobs, P!IsFree, P!Idle, LedgerIsComplete, Renamed, P!TypeOK, HoldersFit, AtWork,
      Inside, P!Locks, P!Jobs
<1>5. TransactionsFit'
  BY DEF P!EndWork, P!disks, P!jobs, P!IsFree, P!Idle, TransactionsFit, P!TypeOK, HoldersFit, AtWork, AddedAreHome,
      Inside, Under, P!Transactions, P!Jobs, P!Of
<1>6. P!OthersKeepTheirFiles'
  BY DEF P!EndWork, P!disks, P!jobs, P!IsFree, P!Idle, P!OthersKeepTheirFiles, P!TypeOK, AddedAreHome
<1>7. P!DeletedIsGivenUp' BY DEF P!EndWork, P!disks, P!jobs, P!IsFree, P!Idle, P!DeletedIsGivenUp, P!TypeOK
<1> QED BY <1>1, <1>2, <1>3, <1>4, <1>5, <1>6, <1>7 DEF CleanupInv

LEMMA ConfirmKeeps ==
  ASSUME CleanupInv, NEW p \in Projects, P!Confirm(p)
  PROVE  CleanupInv'
<1> USE SafePartsAssumption DEF CleanupInv, P!ProjectCleanupAssumption
<1>1. P!TypeOK' BY DEF P!Confirm, P!disks, P!At, P!Goes, P!TypeOK, P!Locks, P!Transactions, P!Jobs
<1>2. HoldersFit' BY DEF P!Confirm, P!disks, P!At, P!Goes, HoldersFit, AtWork, Inside, P!Locks, P!TypeOK, P!Jobs, P!Of
<1>3. AddedAreHome' BY DEF P!Confirm, P!disks, P!At, P!Goes, AddedAreHome, P!TypeOK, HoldersFit
<1>4. LedgerIsComplete'
  BY DEF P!Confirm, P!disks, P!At, P!Goes, LedgerIsComplete, Renamed, P!TypeOK, HoldersFit, AtWork, Inside,
      P!Locks, P!Jobs
<1>5. TransactionsFit'
  BY DEF P!Confirm, P!disks, P!At, P!Goes, TransactionsFit, P!TypeOK, HoldersFit, AtWork, AddedAreHome, Inside,
      Under, P!Transactions, P!Jobs, P!Of
<1>6. P!OthersKeepTheirFiles' BY DEF P!Confirm, P!disks, P!At, P!Goes, P!OthersKeepTheirFiles, P!TypeOK, AddedAreHome
<1>7. P!DeletedIsGivenUp' BY DEF P!Confirm, P!disks, P!At, P!Goes, P!DeletedIsGivenUp, P!TypeOK
<1> QED BY <1>1, <1>2, <1>3, <1>4, <1>5, <1>6, <1>7 DEF CleanupInv

LEMMA ReconcileStartsKeeps ==
  ASSUME CleanupInv, NEW j \in P!Jobs, P!ReconcileStarts(j)
  PROVE  CleanupInv'
<1> USE SafePartsAssumption DEF CleanupInv, P!ProjectCleanupAssumption
<1>1. P!TypeOK'
  BY DEF P!ReconcileStarts, P!disks, P!At, P!Goes, P!Take, P!IsFree, P!NoRead, P!TypeOK, P!Locks, P!Transactions,
      P!Jobs
<1>2. HoldersFit'
  BY DEF P!ReconcileStarts, P!disks, P!At, P!Goes, P!Take, P!IsFree, P!NoRead, HoldersFit, AtWork, Inside, P!Locks,
      P!TypeOK, P!Jobs, P!Of
<1>3. AddedAreHome'
  BY DEF P!ReconcileStarts, P!disks, P!At, P!Goes, P!Take, P!IsFree, P!NoRead, AddedAreHome, P!TypeOK, HoldersFit
<1>4. LedgerIsComplete'
  BY DEF P!ReconcileStarts, P!disks, P!At, P!Goes, P!Take, P!IsFree, P!NoRead, LedgerIsComplete, Renamed, P!TypeOK,
      HoldersFit, AtWork, Inside, P!Locks, P!Jobs
<1>5. TransactionsFit'
  BY DEF P!ReconcileStarts, P!disks, P!At, P!Goes, P!Take, P!IsFree, P!NoRead, TransactionsFit, P!TypeOK,
      HoldersFit, AtWork, AddedAreHome, Inside, Under, P!Transactions, P!Jobs, P!Of
<1>6. P!OthersKeepTheirFiles'
  BY DEF P!ReconcileStarts, P!disks, P!At, P!Goes, P!Take, P!IsFree, P!NoRead, P!OthersKeepTheirFiles, P!TypeOK,
      AddedAreHome
<1>7. P!DeletedIsGivenUp'
  BY DEF P!ReconcileStarts, P!disks, P!At, P!Goes, P!Take, P!IsFree, P!NoRead, P!DeletedIsGivenUp, P!TypeOK
<1> QED BY <1>1, <1>2, <1>3, <1>4, <1>5, <1>6, <1>7 DEF CleanupInv

LEMMA ReconcileReadKeeps ==
  ASSUME CleanupInv, NEW j \in P!Jobs, NEW p \in Projects, P!ReconcileRead(j, p)
  PROVE  CleanupInv'
<1> USE SafePartsAssumption DEF CleanupInv, P!ProjectCleanupAssumption
<1>1. P!TypeOK' BY DEF P!ReconcileRead, P!disks, P!At, P!TypeOK, P!Locks, P!Transactions, P!Jobs
<1>2. HoldersFit' BY DEF P!ReconcileRead, P!disks, P!At, HoldersFit, AtWork, Inside, P!Locks, P!TypeOK, P!Jobs, P!Of
<1>3. AddedAreHome' BY DEF P!ReconcileRead, P!disks, P!At, AddedAreHome, P!TypeOK, HoldersFit
<1>4. LedgerIsComplete'
  BY DEF P!ReconcileRead, P!disks, P!At, LedgerIsComplete, Renamed, P!TypeOK, HoldersFit, AtWork, Inside, P!Locks,
      P!Jobs
<1>5. TransactionsFit'
  BY DEF P!ReconcileRead, P!disks, P!At, TransactionsFit, P!TypeOK, HoldersFit, AtWork, AddedAreHome, Inside,
      Under, P!Transactions, P!Jobs, P!Of
<1>6. P!OthersKeepTheirFiles' BY DEF P!ReconcileRead, P!disks, P!At, P!OthersKeepTheirFiles, P!TypeOK, AddedAreHome
<1>7. P!DeletedIsGivenUp' BY DEF P!ReconcileRead, P!disks, P!At, P!DeletedIsGivenUp, P!TypeOK
<1> QED BY <1>1, <1>2, <1>3, <1>4, <1>5, <1>6, <1>7 DEF CleanupInv

LEMMA ReconcileWriteKeeps ==
  ASSUME CleanupInv, NEW j \in P!Jobs, P!ReconcileWrite(j)
  PROVE  CleanupInv'
<1> USE SafePartsAssumption DEF CleanupInv, P!ProjectCleanupAssumption
<1>1. P!TypeOK'
  BY DEF P!ReconcileWrite, P!At, P!Goes, P!Take, P!Drop, P!NoRead, P!Entry, P!TypeOK, P!Locks, P!Transactions,
      P!Jobs
<1>2. HoldersFit'
  BY DEF P!ReconcileWrite, P!At, P!Goes, P!Take, P!Drop, P!NoRead, P!Entry, HoldersFit, AtWork, Inside, P!Locks,
      P!TypeOK, P!Jobs, P!Of
<1>3. AddedAreHome'
  BY DEF P!ReconcileWrite, P!At, P!Goes, P!Take, P!Drop, P!NoRead, P!Entry, AddedAreHome, P!TypeOK, HoldersFit
<1>4. LedgerIsComplete'
  BY DEF P!ReconcileWrite, P!At, P!Goes, P!Take, P!Drop, P!NoRead, P!Entry, LedgerIsComplete, Renamed, P!TypeOK,
      HoldersFit, AtWork, Inside, P!Locks, P!Jobs
<1>5. TransactionsFit'
  BY DEF P!ReconcileWrite, P!At, P!Goes, P!Take, P!Drop, P!NoRead, P!Entry, TransactionsFit, P!TypeOK, HoldersFit,
      AtWork, AddedAreHome, Inside, Under, P!Transactions, P!Jobs, P!Of
<1>6. P!OthersKeepTheirFiles'
  BY DEF P!ReconcileWrite, P!At, P!Goes, P!Take, P!Drop, P!NoRead, P!Entry, P!OthersKeepTheirFiles, P!TypeOK,
      AddedAreHome
<1>7. P!DeletedIsGivenUp'
  BY DEF P!ReconcileWrite, P!At, P!Goes, P!Take, P!Drop, P!NoRead, P!Entry, P!DeletedIsGivenUp, P!TypeOK
<1> QED BY <1>1, <1>2, <1>3, <1>4, <1>5, <1>6, <1>7 DEF CleanupInv

LEMMA LockKeeps ==
  ASSUME CleanupInv, NEW p \in Projects, P!Lock(p)
  PROVE  CleanupInv'
<1> USE SafePartsAssumption DEF CleanupInv, P!ProjectCleanupAssumption
<1>1. P!TypeOK'
  BY DEF P!Lock, P!disks, P!At, P!Goes, P!Take, P!IsFree, P!JobLocks, P!TypeOK, P!Locks, P!Transactions, P!Jobs
<1>2. HoldersFit'
  <2>1. /\ cleaning[p] = "lock" /\ cleaning' = [cleaning EXCEPT ![p] = "plan"] /\ UNCHANGED <<booting, pub, sources>>
        /\ holder' = [l \in P!Locks |-> IF l \in {p, "publication", "references"} THEN "job" ELSE holder[l]]
        /\ \A l \in {p, "publication", "references"} : holder[l] = Nobody
    BY DEF P!Lock, P!At, P!Goes, P!Take, P!IsFree, P!JobLocks, P!disks
  <2>2. p \in P!Jobs /\ p # "boot" /\ P!Of(p)' = p
    BY DEF P!Jobs, P!Of
  <2>3. \A k \in P!Jobs : ~AtWork(k)
    BY <2>1 DEF HoldersFit, P!Jobs
  <2>4. \A k \in P!Jobs : AtWork(k)' <=> k = p
    BY <2>1, <2>2, <2>3 DEF AtWork, Inside, P!TypeOK
  <2> HIDE DEF P!Jobs
  <2>5. \A k \in P!Jobs : cleaning'[k] \in Inside => k = p
    BY <2>4 DEF AtWork
  <2>6. holder'[p] = "job" /\ holder'["publication"] = "job" /\ holder'["references"] = "job"
    BY <2>1 DEF P!Locks
  <2>7. \A q \in Projects : pub'[q].at # "none" => holder'[q] = q
    BY <2>1 DEF HoldersFit, P!Locks, P!TypeOK
  <2>8. \A q \in Projects : pub'[q].at = "commit" /\ pub'[q].want \ sources'[q] # {} => holder'["publication"] = q
    BY <2>1 DEF HoldersFit
  <2> QED BY <2>1, <2>2, <2>4, <2>5, <2>6, <2>7, <2>8 DEF HoldersFit
<1>3. AddedAreHome'
  BY DEF P!Lock, P!disks, P!At, P!Goes, P!Take, P!IsFree, P!JobLocks, AddedAreHome, P!TypeOK, HoldersFit
<1>4. LedgerIsComplete'
  BY DEF P!Lock, P!disks, P!At, P!Goes, P!Take, P!IsFree, P!JobLocks, LedgerIsComplete, Renamed, P!TypeOK,
      HoldersFit, AtWork, Inside, P!Locks, P!Jobs
<1>5. TransactionsFit'
  BY DEF P!Lock, P!disks, P!At, P!Goes, P!Take, P!IsFree, P!JobLocks, TransactionsFit, P!TypeOK, HoldersFit,
      AtWork, AddedAreHome, Inside, Under, P!Transactions, P!Jobs, P!Of
<1>6. P!OthersKeepTheirFiles'
  BY DEF P!Lock, P!disks, P!At, P!Goes, P!Take, P!IsFree, P!JobLocks, P!OthersKeepTheirFiles, P!TypeOK,
      AddedAreHome
<1>7. P!DeletedIsGivenUp'
  BY DEF P!Lock, P!disks, P!At, P!Goes, P!Take, P!IsFree, P!JobLocks, P!DeletedIsGivenUp, P!TypeOK
<1> QED BY <1>1, <1>2, <1>3, <1>4, <1>5, <1>6, <1>7 DEF CleanupInv

LEMMA CheckKeeps ==
  ASSUME CleanupInv, NEW p \in Projects, P!Check(p)
  PROVE  CleanupInv'
<1> USE SafePartsAssumption DEF CleanupInv, P!ProjectCleanupAssumption
<1> DEFINE refused == \E f \in pub[p].want \ sources[p] : P!Cleanable(p, f)
<1>a. CASE refused
  <2>1. /\ pub' = [pub EXCEPT ![p] = P!NoPub] /\ holder' = [l \in P!Locks |-> IF l = p THEN Nobody ELSE holder[l]]
        /\ pub[p].at = "check" /\ UNCHANGED <<sources, where, tx, ledger, released, dirty, works, cleaning, scan, booting, pfaults>>
    BY <1>a DEF P!Check, P!Take, P!Drop, P!disks, P!jobs
  <2> HIDE DEF refused
  <2>2. P!TypeOK' BY <2>1 DEF P!NoPub, P!TypeOK, P!Locks, P!Transactions
  <2>3. HoldersFit' BY <2>1 DEF P!NoPub, HoldersFit, AtWork, Inside, P!Locks, P!TypeOK, P!Of
  <2>4. AddedAreHome'
    BY <2>1 DEF P!NoPub, AddedAreHome, P!TypeOK, TransactionsFit, HoldersFit, Inside, Under, P!Transactions
  <2>5. LedgerIsComplete' BY <2>1 DEF P!NoPub, LedgerIsComplete, Renamed, P!TypeOK, HoldersFit, AtWork, Inside, P!Locks
  <2>6. TransactionsFit'
    BY <2>1 DEF P!NoPub, TransactionsFit, P!TypeOK, HoldersFit, AddedAreHome, Inside, Under, P!Of, P!Transactions,
        LedgerIsComplete, Renamed
  <2>7. P!OthersKeepTheirFiles'
    BY <2>1 DEF P!NoPub, P!OthersKeepTheirFiles, P!TypeOK, TransactionsFit, AddedAreHome, Inside, Under,
        P!Transactions
  <2>8. P!DeletedIsGivenUp'
    BY <2>1 DEF P!NoPub, P!DeletedIsGivenUp, TransactionsFit, P!TypeOK, HoldersFit, Inside, Under, P!Transactions
  <2> QED BY <2>2, <2>3, <2>4, <2>5, <2>6, <2>7, <2>8 DEF CleanupInv
<1>b. CASE ~refused
  <2>1. /\ pub' = [pub EXCEPT ![p].at = "commit"]
        /\ holder' = [l \in P!Locks |-> IF l = "publication" THEN p ELSE holder[l]]
        /\ pub[p].at = "check" /\ holder["publication"] = Nobody
        /\ UNCHANGED <<sources, where, tx, ledger, released, dirty, works, cleaning, scan, booting, pfaults>>
    BY <1>b DEF P!Check, P!Take, P!disks, P!jobs, P!IsFree
  <2>a. \A f \in pub[p].want \ sources[p] : tx[HomeOf[f]] = Nobody /\ where[f] = "home"
    BY <1>b DEF P!Cleanable, TransactionsFit, P!DeletedIsGivenUp, P!TypeOK
  <2> HIDE DEF refused
  <2>b. holder' \in [P!Locks -> Projects \cup {Nobody, "job"}]
    BY <2>1 DEF P!TypeOK
  <2>c. pub' \in [Projects -> [at : {"none", "check", "commit", "sync"}, want : SUBSET Files]]
    <3>1. [pub[p] EXCEPT !.at = "commit"] \in [at : {"none", "check", "commit", "sync"}, want : SUBSET Files]
      BY DEF P!TypeOK
    <3> QED BY <2>1, <3>1 DEF P!TypeOK
  <2>2. P!TypeOK' BY <2>1, <2>b, <2>c DEF P!TypeOK
  <2>3. HoldersFit' BY <2>1, <2>a, ZenonT(60) DEF HoldersFit, AtWork, Inside, P!Locks, P!TypeOK, P!Of
  <2>4. AddedAreHome'
    BY <2>1, <2>a DEF AddedAreHome, P!TypeOK, TransactionsFit, HoldersFit, Inside, Under, P!Transactions
  <2>5. LedgerIsComplete' BY <2>1, <2>a DEF LedgerIsComplete, Renamed, P!TypeOK, HoldersFit, AtWork, Inside, P!Locks
  <2>6. TransactionsFit'
    BY <2>1, <2>a DEF TransactionsFit, P!TypeOK, HoldersFit, AddedAreHome, Inside, Under, P!Of, P!Transactions,
        LedgerIsComplete, Renamed
  <2>7. P!OthersKeepTheirFiles'
    BY <2>1, <2>a DEF P!OthersKeepTheirFiles, P!TypeOK, TransactionsFit, AddedAreHome, Inside, Under, P!Transactions
  <2>8. P!DeletedIsGivenUp'
    BY <2>1, <2>a DEF P!DeletedIsGivenUp, TransactionsFit, P!TypeOK, HoldersFit, Inside, Under, P!Transactions
  <2> QED BY <2>2, <2>3, <2>4, <2>5, <2>6, <2>7, <2>8 DEF CleanupInv
<1> QED BY <1>a, <1>b

\* Whoever is at a transaction is the only one, and its transaction is open.
LEMMA OneIsAtIt ==
  ASSUME CleanupInv, NEW j \in P!Jobs, cleaning[j] \in Inside
  PROVE  /\ P!Of(j) \in Projects
         /\ \A k \in P!Jobs : AtWork(k) => k = j
         /\ holder["references"] = "job" /\ holder["publication"] = "job" /\ holder[P!Of(j)] = "job"
         /\ \A p \in Projects : scan[p] = Nobody
         /\ cleaning[j] \in Under => tx[P!Of(j)] \in P!Transactions /\ tx[P!Of(j)] # Nobody
<1>1. AtWork(j)
  BY DEF AtWork
<1>2. P!Of(j) \in Projects /\ holder["references"] = "job" /\ holder["publication"] = "job" /\ holder[P!Of(j)] = "job"
      /\ \A k \in P!Jobs : AtWork(k) => k = j
  BY <1>1 DEF CleanupInv, HoldersFit
<1>3. \A p \in Projects : scan[p] = Nobody
  BY DEF CleanupInv, LedgerIsComplete
<1>4. cleaning[j] \in Under => tx[P!Of(j)] # Nobody /\ tx[P!Of(j)] \in P!Transactions
  BY <1>2 DEF CleanupInv, TransactionsFit, P!TypeOK
<1> QED BY <1>2, <1>3, <1>4

\* When one that is at a transaction stops, or nobody was at one, whoever stops lets go
\* of its locks only: what the locks protect is no longer under way.
LEMMA StopsKeeps ==
  ASSUME CleanupInv, NEW j \in P!Jobs, cleaning[j] \in Inside, NEW next \in {"none", "reconcile"},
         cleaning' = [cleaning EXCEPT ![j] = next],
         holder' = [l \in P!Locks |-> IF holder[l] = "job" THEN Nobody ELSE holder[l]],
         booting' = booting \/ booting' = [booting EXCEPT !.of = Nobody],
         UNCHANGED <<sources, pub, scan, ledger, released, dirty>>
  PROVE  /\ HoldersFit' /\ LedgerIsComplete'
         /\ \A k \in P!Jobs : cleaning'[k] \notin Inside
         /\ booting'.todo = booting.todo /\ booting' \in [todo : SUBSET Projects, of : Projects \cup {Nobody}]
         /\ holder' \in [P!Locks -> Projects \cup {Nobody, "job"}]
<1> USE SafePartsAssumption DEF CleanupInv, P!ProjectCleanupAssumption
<1>1. \A k \in P!Jobs : ~AtWork(k)'
  BY OneIsAtIt DEF AtWork, Inside, P!TypeOK
<1>2. \A k \in P!Jobs : cleaning'[k] \notin Inside
  BY <1>1 DEF AtWork
<1>3. cleaning'["boot"] \notin {"lock", "plan", "stage", "commit"}
  BY DEF HoldersFit, P!TypeOK, P!Jobs
<1>4. \A p \in Projects : pub'[p].at # "none" => holder'[p] = p
  BY DEF HoldersFit, P!Locks, P!TypeOK
<1>5. \A p \in Projects : pub'[p].at = "commit" /\ pub'[p].want \ sources'[p] # {} => holder'["publication"] = p
  BY DEF HoldersFit, P!Locks, P!TypeOK
<1>6. HoldersFit'
  BY <1>1, <1>2, <1>3, <1>4, <1>5 DEF HoldersFit
<1>7. \A p \in Projects : Renamed(p) => Renamed(p)'
  BY DEF Renamed, P!Locks
<1>8. LedgerIsComplete'
  BY <1>2, <1>7, OneIsAtIt DEF LedgerIsComplete
<1>9. booting'.todo = booting.todo /\ booting' \in [todo : SUBSET Projects, of : Projects \cup {Nobody}]
  BY DEF P!TypeOK
<1>10. holder' \in [P!Locks -> Projects \cup {Nobody, "job"}]
  BY DEF P!TypeOK
<1> QED BY <1>2, <1>6, <1>8, <1>9, <1>10

\* Going from one step of a transaction to the next, or staying, moves nobody else.
LEMMA GoesOnKeeps ==
  ASSUME CleanupInv, NEW j \in P!Jobs, cleaning[j] \in Inside, NEW next \in Inside,
         j = "boot" => next \notin {"plan", "stage", "commit"},
         cleaning' = [cleaning EXCEPT ![j] = next],
         UNCHANGED <<holder, booting, sources, pub, scan>>
  PROVE  /\ HoldersFit' /\ P!Of(j)' = P!Of(j) /\ cleaning'[j] = next
         /\ \A k \in P!Jobs : cleaning'[k] \in Inside => k = j
         /\ cleaning' \in [P!Jobs -> Steps]
<1> USE SafePartsAssumption DEF CleanupInv, P!ProjectCleanupAssumption
<1>1. \A k \in P!Jobs : AtWork(k)' => k = j
  BY OneIsAtIt DEF AtWork, Inside, P!TypeOK
<1>2. \A k \in P!Jobs : cleaning'[k] \in Inside => k = j
  BY <1>1 DEF AtWork
<1>3. cleaning'["boot"] \notin {"lock", "plan", "stage", "commit"}
  BY DEF HoldersFit, P!TypeOK, P!Jobs, Inside
<1>4. P!Of(j)' = P!Of(j) /\ cleaning'[j] = next
  BY DEF P!Of, P!TypeOK
<1>5. HoldersFit'
  BY <1>1, <1>2, <1>3, <1>4, OneIsAtIt DEF HoldersFit
<1>6. cleaning' \in [P!Jobs -> Steps]
  BY DEF P!TypeOK, Steps, Inside
<1> QED BY <1>2, <1>4, <1>5, <1>6

LEMMA PlanKeeps ==
  ASSUME CleanupInv, NEW p \in Projects, P!Plan(p)
  PROVE  CleanupInv'
<1> USE SafePartsAssumption DEF CleanupInv, P!ProjectCleanupAssumption
<1>a. cleaning[p] = "plan" /\ p \in P!Jobs /\ P!Of(p) = p /\ p # "boot" /\ cleaning[p] \in Inside
      /\ UNCHANGED <<sources, where, ledger, released, dirty, works, pub, scan, booting, pfaults>>
  BY DEF P!Plan, P!At, P!Jobs, P!Of, Inside
<1>b. CASE P!Finish(p) /\ UNCHANGED tx
  <2>1. /\ cleaning' = [cleaning EXCEPT ![p] = "none"]
        /\ holder' = [l \in P!Locks |-> IF holder[l] = "job" THEN Nobody ELSE holder[l]]
    BY <1>b DEF P!Finish, P!Goes, P!Drop, P!Take
  <2>2. HoldersFit' /\ LedgerIsComplete' /\ (\A k \in P!Jobs : cleaning'[k] \notin Inside)
        /\ holder' \in [P!Locks -> Projects \cup {Nobody, "job"}]
    BY <1>a, <2>1, StopsKeeps
  <2>3. P!TypeOK'
    BY <1>a, <1>b, <2>1, <2>2 DEF P!TypeOK
  <2>4. TransactionsFit' /\ AddedAreHome' /\ P!OthersKeepTheirFiles' /\ P!DeletedIsGivenUp'
    BY <1>a, <1>b, <2>2 DEF TransactionsFit, AddedAreHome, P!OthersKeepTheirFiles, P!DeletedIsGivenUp, Under, Inside
  <2> QED BY <2>2, <2>3, <2>4 DEF CleanupInv
<1>c. CASE /\ P!Eligible(p)
           /\ tx' = [tx EXCEPT ![p] = [state |-> "staging", items |-> P!Items(p), gives |-> ledger[p] \cup sources[p]]]
           /\ P!Goes(p, "stage") /\ UNCHANGED holder
  <2>1. HoldersFit' /\ P!Of(p)' = p /\ cleaning'[p] = "stage" /\ (\A k \in P!Jobs : cleaning'[k] \in Inside => k = p)
        /\ cleaning' \in [P!Jobs -> Steps]
    BY <1>a, <1>c, GoesOnKeeps DEF P!Goes, Inside
  <2>2. dirty = {} /\ tx[p] = Nobody
    BY <1>c DEF P!Eligible, P!Pending
  <2>3. \A f \in P!Items(p) : f \in sources[p] /\ HomeOf[f] = p /\ \A r \in Projects \ {p} : f \notin ledger[r]
    BY DEF P!Items, P!UsedBy
  <2>4. \A r \in Projects : sources[r] \ released[r] \subseteq ledger[r]
    BY <1>a, <2>2, OneIsAtIt DEF LedgerIsComplete, Renamed
  <2>5. [state |-> "staging", items |-> P!Items(p), gives |-> ledger[p] \cup sources[p]] \in P!Transactions
    BY DEF P!Transactions, P!Items, P!TypeOK
  <2>6. /\ tx'[p].items = P!Items(p) /\ sources[p] \subseteq tx'[p].gives /\ tx'[p] # Nobody
        /\ \A r \in Projects \ {p} : tx'[r] = tx[r]
    BY <1>c, <2>5 DEF P!TypeOK
  <2>7. P!TypeOK'
    BY <1>a, <1>c, <2>1, <2>5 DEF P!TypeOK, Steps, Inside
  <2>8. AddedAreHome'
    BY <1>a, <1>c, <2>6, OneIsAtIt DEF AddedAreHome, HoldersFit
  <2>9. LedgerIsComplete'
    BY <1>a, <1>c, OneIsAtIt DEF LedgerIsComplete, Renamed
  <2>10. TransactionsFit'
    <3>1. \A k \in P!Jobs : cleaning'[k] \in Under => tx'[P!Of(k)'] # Nobody /\ P!Of(k)' \notin booting'.todo
      BY <1>a, <2>1, <2>2, <2>6 DEF TransactionsFit, Under
    <3>2. \A r \in booting'.todo : tx'[r] # Nobody
      BY <1>a, <2>6 DEF TransactionsFit, P!TypeOK
    <3>3. ASSUME NEW q \in Projects, tx'[q] # Nobody, NEW f \in tx'[q].items
          PROVE  HomeOf[f] = q /\ f \in tx'[q].gives /\ \A r \in Projects \ {q} : f \notin sources[r] \ released[r]
      BY <2>3, <2>4, <2>6, <3>3 DEF TransactionsFit
    <3>4. \A f \in Files : where[f] = "trash" => tx'[HomeOf[f]] # Nobody /\ f \in tx'[HomeOf[f]].items
      BY <2>2, <2>6 DEF TransactionsFit
    <3>5. \A k \in P!Jobs : cleaning'[k] \notin {"delete", "end"}
      BY <2>1 DEF Inside
    <3> QED BY <1>a, <3>1, <3>2, <3>3, <3>4, <3>5 DEF TransactionsFit
  <2>11. P!OthersKeepTheirFiles' /\ P!DeletedIsGivenUp'
    BY <1>a DEF P!OthersKeepTheirFiles, P!DeletedIsGivenUp
  <2> QED BY <2>1, <2>7, <2>8, <2>9, <2>10, <2>11 DEF CleanupInv
<1> QED BY <1>b, <1>c DEF P!Plan

\* What a step inside a transaction keeps when it only moves files: at home and in the
\* quarantine, or deleted once given up.
LEMMA MovesKeep ==
  ASSUME CleanupInv, NEW j \in P!Jobs, cleaning[j] \in Under \ {"end"}, NEW next \in Under,
         j = "boot" => next \notin {"plan", "stage", "commit"},
         cleaning' = [cleaning EXCEPT ![j] = next],
         UNCHANGED <<sources, tx, ledger, released, dirty, works, holder, pub, scan, booting>>,
         pfaults' \in 0..CleanupFaults,
         where' \in [Files -> {"home", "trash", "gone"}],
         \A f \in Files : where'[f] = where[f] \/ f \in tx[P!Of(j)].items,
         \A f \in Files : where'[f] = "gone" => where[f] = "gone" \/ cleaning[j] = "delete",
         next = "delete" => cleaning[j] = "delete",
         next = "end" => \A f \in tx[P!Of(j)].items : where'[f] # "trash"
  PROVE  CleanupInv'
<1> USE SafePartsAssumption DEF CleanupInv, P!ProjectCleanupAssumption
<1> DEFINE q == P!Of(j)
<1>1. cleaning[j] \in Inside /\ next \in Inside /\ cleaning[j] \in Under
  BY DEF Under
<1>2. q \in Projects /\ tx[q] # Nobody /\ tx[q] \in P!Transactions /\ holder["publication"] = "job"
      /\ \A p \in Projects : scan[p] = Nobody
  BY <1>1, OneIsAtIt
<1>3. HoldersFit' /\ P!Of(j)' = q /\ cleaning'[j] = next /\ (\A k \in P!Jobs : cleaning'[k] \in Inside => k = j)
      /\ cleaning' \in [P!Jobs -> Steps]
  BY <1>1, GoesOnKeeps
<1> HIDE DEF q
<1>4. P!TypeOK'
  BY <1>3 DEF P!TypeOK, Steps, Inside
<1>5. \A f \in Files : where'[f] # where[f] =>
        HomeOf[f] = q /\ f \in tx[q].gives /\ \A p \in Projects \ {q} : f \notin sources[p] \ released[p]
  BY <1>2 DEF TransactionsFit, q
<1>6. AddedAreHome'
  BY <1>2, <1>5 DEF AddedAreHome, P!TypeOK
<1>7. LedgerIsComplete'
  BY <1>2 DEF LedgerIsComplete, Renamed
<1>8. TransactionsFit'
  <2>1. \A k \in P!Jobs : cleaning'[k] \in Under => k = j
    BY <1>3 DEF Under
  <2>2. tx'[q] # Nobody /\ q \notin booting'.todo
    BY <1>1, <1>2 DEF TransactionsFit, q
  <2>3. \A f \in Files : where'[f] = "trash" => tx[HomeOf[f]] # Nobody /\ f \in tx[HomeOf[f]].items
    BY <1>2, <1>5 DEF TransactionsFit, q
  <2>4. cleaning'[j] = "delete" => tx[q].gives \subseteq released[q]
    BY <1>3 DEF TransactionsFit, q
  <2>5. cleaning'[j] = "end" => \A f \in tx[q].items : where'[f] # "trash"
    BY <1>3 DEF q
  <2>6. \A k \in P!Jobs : cleaning'[k] \in {"delete", "end"} => cleaning'[k] \in Under
    BY DEF Under, Inside
  <2> QED BY <1>3, <2>1, <2>2, <2>3, <2>4, <2>5, <2>6 DEF TransactionsFit
<1>9. P!OthersKeepTheirFiles'
  BY <1>2, <1>5 DEF P!OthersKeepTheirFiles, P!TypeOK
<1>10. P!DeletedIsGivenUp'
  <2>1. cleaning[j] = "delete" => tx[q].gives \subseteq released[q]
    BY DEF TransactionsFit, q
  <2> QED BY <1>5, <2>1 DEF P!DeletedIsGivenUp
<1> QED BY <1>3, <1>4, <1>6, <1>7, <1>8, <1>9, <1>10 DEF CleanupInv

LEMMA StageKeeps ==
  ASSUME CleanupInv, NEW p \in Projects, P!Stage(p)
  PROVE  CleanupInv'
<1> USE SafePartsAssumption DEF CleanupInv, P!ProjectCleanupAssumption
<1>1. cleaning[p] = "stage" /\ p \in P!Jobs /\ P!Of(p) = p /\ p # "boot" /\ cleaning[p] \in Under \ {"end"}
      /\ UNCHANGED <<sources, tx, ledger, released, dirty, works, holder, pub, scan, booting>>
  BY DEF P!Stage, P!At, P!Jobs, P!Of, Inside, Under
<1>2. ASSUME NEW f \in tx[p].items, where' = [where EXCEPT ![f] = "trash"], UNCHANGED <<cleaning, pfaults>>
      PROVE  CleanupInv'
  <2>1. where' \in [Files -> {"home", "trash", "gone"}]
    BY <1>2 DEF P!TypeOK
  <2>2. pfaults' \in 0..CleanupFaults /\ cleaning' = [cleaning EXCEPT ![p] = "stage"]
    BY <1>1, <1>2 DEF P!TypeOK
  <2>3. \A g \in Files : where'[g] = where[g] \/ (g \in tx[p].items /\ where'[g] = "trash")
    BY <1>2 DEF P!TypeOK
  <2> QED BY <1>1, <2>1, <2>2, <2>3, MovesKeep DEF Under, Inside
<1>3. ASSUME NEW next \in {"commit", "undo"}, P!Goes(p, next), where' = where, pfaults' \in 0..CleanupFaults
      PROVE  CleanupInv'
  <2>1. where' \in [Files -> {"home", "trash", "gone"}] /\ next \in Under
        /\ cleaning' = [cleaning EXCEPT ![p] = next]
    BY <1>3 DEF P!TypeOK, P!Goes, Under, Inside
  <2> QED BY <1>1, <1>3, <2>1, MovesKeep
<1>4. pfaults' = pfaults \/ (pfaults < CleanupFaults /\ pfaults' = pfaults + 1) => pfaults' \in 0..CleanupFaults
  BY DEF P!TypeOK
<1> QED BY <1>2, <1>3, <1>4 DEF P!Stage

LEMMA CommitTxKeeps ==
  ASSUME CleanupInv, NEW p \in Projects, P!CommitTx(p)
  PROVE  CleanupInv'
<1> USE SafePartsAssumption DEF CleanupInv, P!ProjectCleanupAssumption
<1>1. /\ cleaning[p] = "commit" /\ p \in P!Jobs /\ P!Of(p) = p /\ p # "boot" /\ cleaning[p] \in Inside
      /\ cleaning[p] \in Under /\ tx' = [tx EXCEPT ![p].state = "committed"]
      /\ cleaning' = [cleaning EXCEPT ![p] = "release"]
      /\ UNCHANGED <<sources, where, ledger, released, dirty, works, holder, pub, scan, booting, pfaults>>
  BY DEF P!CommitTx, P!Commits, P!At, P!Goes, P!Jobs, P!Of, Inside, Under
<1>2. tx[p] \in P!Transactions /\ tx[p] # Nobody /\ \A q \in Projects : scan[q] = Nobody
  BY <1>1, OneIsAtIt
<1>3. HoldersFit' /\ P!Of(p)' = p /\ cleaning'[p] = "release" /\ (\A k \in P!Jobs : cleaning'[k] \in Inside => k = p)
      /\ cleaning' \in [P!Jobs -> Steps]
  BY <1>1, GoesOnKeeps DEF Inside
<1> DEFINE t == [tx[p] EXCEPT !.state = "committed"]
<1>4. t \in P!Transactions /\ t.items = tx[p].items /\ t.gives = tx[p].gives
  BY <1>2 DEF P!Transactions
<1>5. tx' = [tx EXCEPT ![p] = t] /\ t # Nobody
  BY <1>1, <1>4
<1> HIDE DEF t
<1>6. \A q \in Projects : tx'[q] = IF q = p THEN t ELSE tx[q]
  BY <1>5 DEF P!TypeOK
<1>7. \A q \in Projects : (tx[q] # Nobody <=> tx'[q] # Nobody)
        /\ (tx[q] # Nobody => tx'[q].items = tx[q].items /\ tx'[q].gives = tx[q].gives)
  BY <1>2, <1>4, <1>5, <1>6
<1>8. tx' \in [Projects -> P!Transactions \cup {Nobody}]
  BY <1>4, <1>5 DEF P!TypeOK
<1>9. P!TypeOK'
  BY <1>1, <1>3, <1>8 DEF P!TypeOK, Steps, Inside
<1>10. AddedAreHome'
  BY <1>1, <1>7 DEF AddedAreHome, P!TypeOK
<1>11. LedgerIsComplete'
  BY <1>1, <1>2 DEF LedgerIsComplete, Renamed
<1>12. TransactionsFit'
  <2>1. \A k \in P!Jobs : cleaning'[k] \in Under => k = p
    BY <1>3 DEF Under
  <2>2. p \notin booting'.todo /\ tx'[p] # Nobody
    BY <1>1, <1>2, <1>7 DEF TransactionsFit
  <2>3. \A q \in booting'.todo : tx'[q] # Nobody
    BY <1>1, <1>7 DEF TransactionsFit, P!TypeOK
  <2>4. \A f \in Files : where'[f] = "trash" => tx'[HomeOf[f]] # Nobody /\ f \in tx'[HomeOf[f]].items
    BY <1>1, <1>7 DEF TransactionsFit
  <2>5. \A q \in Projects : tx'[q] # Nobody =>
          \A f \in tx'[q].items : HomeOf[f] = q /\ f \in tx'[q].gives
            /\ \A r \in Projects \ {q} : f \notin sources[r] \ released[r]
    BY <1>7 DEF TransactionsFit
  <2>6. \A k \in P!Jobs : cleaning'[k] \notin {"delete", "end"}
    BY <1>3 DEF Inside
  <2> QED BY <1>1, <1>3, <2>1, <2>2, <2>3, <2>4, <2>5, <2>6 DEF TransactionsFit
<1>13. P!OthersKeepTheirFiles' /\ P!DeletedIsGivenUp'
  BY <1>1 DEF P!OthersKeepTheirFiles, P!DeletedIsGivenUp
<1> QED BY <1>3, <1>9, <1>10, <1>11, <1>12, <1>13 DEF CleanupInv

LEMMA UndoKeeps ==
  ASSUME CleanupInv, NEW j \in P!Jobs, P!Undo(j)
  PROVE  CleanupInv'
<1> USE SafePartsAssumption DEF CleanupInv, P!ProjectCleanupAssumption
<1>1. cleaning[j] = "undo" /\ cleaning[j] \in Under \ {"end"} /\ {"undo", "end"} \subseteq Under
      /\ UNCHANGED <<sources, tx, ledger, released, dirty, works, holder, pub, scan, booting, pfaults>>
  BY DEF P!Undo, P!At, Inside, Under
<1>2. pfaults' \in 0..CleanupFaults
  BY <1>1 DEF P!TypeOK
<1>3. ASSUME NEW f \in tx[P!Of(j)].items, where' = [where EXCEPT ![f] = "home"], UNCHANGED cleaning
      PROVE  CleanupInv'
  <2>1. where' \in [Files -> {"home", "trash", "gone"}]
    BY <1>3 DEF P!TypeOK
  <2>2. cleaning' = [cleaning EXCEPT ![j] = "undo"]
    BY <1>1, <1>3 DEF P!TypeOK
  <2>3. \A g \in Files : where'[g] = where[g] \/ (g \in tx[P!Of(j)].items /\ where'[g] = "home")
    BY <1>3 DEF P!TypeOK
  <2> QED BY <1>1, <1>2, <2>1, <2>2, <2>3, MovesKeep
<1>4. ASSUME \A f \in tx[P!Of(j)].items : where[f] # "trash", P!Goes(j, "end"), UNCHANGED where
      PROVE  CleanupInv'
  <2>1. where' \in [Files -> {"home", "trash", "gone"}] /\ cleaning' = [cleaning EXCEPT ![j] = "end"]
    BY <1>4 DEF P!TypeOK, P!Goes
  <2> QED BY <1>1, <1>2, <1>4, <2>1, MovesKeep
<1> QED BY <1>3, <1>4 DEF P!Undo

LEMMA DeleteKeeps ==
  ASSUME CleanupInv, NEW j \in P!Jobs, P!Delete(j)
  PROVE  CleanupInv'
<1> USE SafePartsAssumption DEF CleanupInv, P!ProjectCleanupAssumption
<1>1. cleaning[j] = "delete" /\ cleaning[j] \in Under \ {"end"} /\ {"delete", "end"} \subseteq Under
      /\ UNCHANGED <<sources, tx, ledger, released, dirty, works, holder, pub, scan, booting, pfaults>>
  BY DEF P!Delete, P!At, Inside, Under
<1>2. pfaults' \in 0..CleanupFaults
  BY <1>1 DEF P!TypeOK
<1>3. ASSUME NEW f \in tx[P!Of(j)].items, where' = [where EXCEPT ![f] = "gone"], UNCHANGED cleaning
      PROVE  CleanupInv'
  <2>1. where' \in [Files -> {"home", "trash", "gone"}]
    BY <1>3 DEF P!TypeOK
  <2>2. cleaning' = [cleaning EXCEPT ![j] = "delete"]
    BY <1>1, <1>3 DEF P!TypeOK
  <2>3. \A g \in Files : where'[g] = where[g] \/ g \in tx[P!Of(j)].items
    BY <1>3 DEF P!TypeOK
  <2> QED BY <1>1, <1>2, <2>1, <2>2, <2>3, MovesKeep
<1>4. ASSUME \A f \in tx[P!Of(j)].items : where[f] # "trash", P!Goes(j, "end"), UNCHANGED where
      PROVE  CleanupInv'
  <2>1. where' \in [Files -> {"home", "trash", "gone"}] /\ cleaning' = [cleaning EXCEPT ![j] = "end"]
    BY <1>4 DEF P!TypeOK, P!Goes
  <2> QED BY <1>1, <1>2, <1>4, <2>1, MovesKeep
<1> QED BY <1>3, <1>4 DEF P!Delete

LEMMA ReleaseKeeps ==
  ASSUME CleanupInv, NEW j \in P!Jobs, P!Release(j)
  PROVE  CleanupInv'
<1> USE SafePartsAssumption DEF CleanupInv, P!ProjectCleanupAssumption
<1> DEFINE q == P!Of(j)
<1>1. /\ cleaning[j] = "release" /\ cleaning[j] \in Inside /\ cleaning[j] \in Under
      /\ released' = [released EXCEPT ![q] = released[q] \cup tx[q].gives]
      /\ ledger' = [ledger EXCEPT ![q] = ledger[q] \ tx[q].gives]
      /\ cleaning' = [cleaning EXCEPT ![j] = "delete"]
      /\ UNCHANGED <<sources, where, tx, dirty, works, holder, pub, scan, booting, pfaults>>
  BY DEF P!Release, P!At, P!Goes, Inside, Under
<1>2. q \in Projects /\ tx[q] \in P!Transactions /\ tx[q] # Nobody /\ \A p \in Projects : scan[p] = Nobody
  BY <1>1, OneIsAtIt
<1>3. HoldersFit' /\ P!Of(j)' = q /\ cleaning'[j] = "delete" /\ (\A k \in P!Jobs : cleaning'[k] \in Inside => k = j)
      /\ cleaning' \in [P!Jobs -> Steps]
  BY <1>1, GoesOnKeeps DEF Inside
<1> HIDE DEF q
<1>4. tx[q].gives \subseteq Files
  BY <1>2 DEF P!Transactions
<1>5. ledger' \in [Projects -> SUBSET Files] /\ released' \in [Projects -> SUBSET Files]
  BY <1>1, <1>2, <1>4 DEF P!TypeOK
<1>6. \A p \in Projects : released[p] \subseteq released'[p]
        /\ (sources[p] \ released[p] \subseteq ledger[p] => sources[p] \ released'[p] \subseteq ledger'[p])
  BY <1>1, <1>2 DEF P!TypeOK
<1>7. P!TypeOK'
  BY <1>1, <1>3, <1>5 DEF P!TypeOK, Steps, Inside
<1>8. AddedAreHome'
  BY <1>1 DEF AddedAreHome
<1>9. LedgerIsComplete'
  BY <1>1, <1>2, <1>6 DEF LedgerIsComplete, Renamed
<1>10. TransactionsFit'
  <2>1. \A k \in P!Jobs : cleaning'[k] \in Under => k = j
    BY <1>3 DEF Under
  <2>2. tx'[q] # Nobody /\ q \notin booting'.todo
    BY <1>1, <1>2 DEF TransactionsFit, q
  <2>3. tx'[q].gives \subseteq released'[q]
    BY <1>1, <1>2 DEF P!TypeOK
  <2>4. \A k \in P!Jobs : cleaning'[k] \in {"delete", "end"} => cleaning'[k] \in Under
    BY DEF Under, Inside
  <2>5. \A p \in Projects : tx[p] # Nobody =>
          \A f \in tx[p].items : HomeOf[f] = p /\ f \in tx[p].gives
            /\ \A r \in Projects \ {p} : f \notin sources[r] \ released'[r]
    BY <1>6 DEF TransactionsFit
  <2> QED BY <1>1, <1>3, <2>1, <2>2, <2>3, <2>4, <2>5 DEF TransactionsFit
<1>11. P!OthersKeepTheirFiles' /\ P!DeletedIsGivenUp'
  BY <1>1, <1>6 DEF P!OthersKeepTheirFiles, P!DeletedIsGivenUp
<1> QED BY <1>3, <1>7, <1>8, <1>9, <1>10, <1>11 DEF CleanupInv

LEMMA EndKeeps ==
  ASSUME CleanupInv, NEW j \in P!Jobs, P!End(j)
  PROVE  CleanupInv'
<1> USE SafePartsAssumption DEF CleanupInv, P!ProjectCleanupAssumption
<1> DEFINE q == P!Of(j)
<1>1. /\ cleaning[j] = "end" /\ cleaning[j] \in Inside /\ cleaning[j] \in Under /\ tx' = [tx EXCEPT ![q] = Nobody]
      /\ UNCHANGED <<sources, where, ledger, released, dirty, works, pub, scan, pfaults>>
  BY DEF P!End, P!At, Inside, Under
<1>2. \E next \in {"none", "reconcile"} : cleaning' = [cleaning EXCEPT ![j] = next]
  BY DEF P!End, P!Leaves, P!Goes, P!Finish
<1>3. /\ holder' = [l \in P!Locks |-> IF holder[l] = "job" THEN Nobody ELSE holder[l]]
      /\ booting' = booting \/ booting' = [booting EXCEPT !.of = Nobody]
  BY DEF P!End, P!Leaves, P!Finish, P!Drop, P!Take
<1>4. /\ HoldersFit' /\ LedgerIsComplete' /\ \A k \in P!Jobs : cleaning'[k] \notin Inside
      /\ booting'.todo = booting.todo /\ booting' \in [todo : SUBSET Projects, of : Projects \cup {Nobody}]
      /\ holder' \in [P!Locks -> Projects \cup {Nobody, "job"}]
  BY <1>1, <1>2, <1>3, StopsKeeps
<1>5. q \in Projects /\ q \notin booting.todo /\ (\A f \in tx[q].items : where[f] # "trash")
  BY <1>1, OneIsAtIt DEF TransactionsFit
<1> HIDE DEF q
<1>6. P!TypeOK'
  <2>1. cleaning' \in [P!Jobs -> Steps]
    BY <1>2 DEF P!TypeOK, Steps, Inside
  <2>2. tx' \in [Projects -> P!Transactions \cup {Nobody}]
    BY <1>1 DEF P!TypeOK
  <2> QED BY <1>1, <2>1, <2>2, <1>4 DEF P!TypeOK, Steps, Inside
<1>7. \A p \in Projects : tx'[p] = IF p = q THEN Nobody ELSE tx[p]
  BY <1>1, <1>5 DEF P!TypeOK
<1>8. AddedAreHome'
  BY <1>1, <1>7 DEF AddedAreHome, P!TypeOK
<1>9. TransactionsFit'
  <2>1. \A k \in P!Jobs : cleaning'[k] \notin Under \cup {"delete", "end"}
    BY <1>4 DEF Under, Inside
  <2>2. \A p \in booting'.todo : tx'[p] # Nobody
    BY <1>4, <1>5, <1>7 DEF TransactionsFit, P!TypeOK
  <2>3. \A f \in Files : where'[f] = "trash" => tx'[HomeOf[f]] # Nobody /\ f \in tx'[HomeOf[f]].items
    BY <1>1, <1>5, <1>7 DEF TransactionsFit
  <2> QED BY <1>1, <1>7, <2>1, <2>2, <2>3 DEF TransactionsFit
<1>10. P!OthersKeepTheirFiles' /\ P!DeletedIsGivenUp'
  BY <1>1 DEF P!OthersKeepTheirFiles, P!DeletedIsGivenUp
<1> QED BY <1>4, <1>6, <1>8, <1>9, <1>10 DEF CleanupInv

LEMMA GiveUpKeeps ==
  ASSUME CleanupInv, NEW j \in P!Jobs, P!GiveUp(j)
  PROVE  CleanupInv'
<1> USE SafePartsAssumption DEF CleanupInv, P!ProjectCleanupAssumption
<1>1. /\ cleaning[j] \in Inside /\ pfaults < CleanupFaults /\ pfaults' = pfaults + 1
      /\ UNCHANGED <<sources, where, tx, ledger, released, dirty, works, pub, scan>>
  BY DEF P!GiveUp, P!disks, Inside
<1>2. \E next \in {"none", "reconcile"} : cleaning' = [cleaning EXCEPT ![j] = next]
  BY DEF P!GiveUp, P!Leaves, P!Goes, P!Finish
<1>3. /\ holder' = [l \in P!Locks |-> IF holder[l] = "job" THEN Nobody ELSE holder[l]]
      /\ booting' = booting \/ booting' = [booting EXCEPT !.of = Nobody]
  BY DEF P!GiveUp, P!Leaves, P!Finish, P!Drop, P!Take
<1>4. /\ HoldersFit' /\ LedgerIsComplete' /\ \A k \in P!Jobs : cleaning'[k] \notin Inside
      /\ booting'.todo = booting.todo /\ booting' \in [todo : SUBSET Projects, of : Projects \cup {Nobody}]
      /\ holder' \in [P!Locks -> Projects \cup {Nobody, "job"}]
  BY <1>1, <1>2, <1>3, StopsKeeps
<1>5. pfaults' \in 0..CleanupFaults
  BY <1>1 DEF P!TypeOK
<1>6. P!TypeOK'
  <2>1. cleaning' \in [P!Jobs -> Steps]
    BY <1>2 DEF P!TypeOK, Steps, Inside
  <2> QED BY <1>1, <2>1, <1>4, <1>5 DEF P!TypeOK, Steps, Inside
<1>7. \A k \in P!Jobs : cleaning'[k] \notin Under \cup {"delete", "end"}
  BY <1>4 DEF Under, Inside
<1>8. AddedAreHome' /\ TransactionsFit' /\ P!OthersKeepTheirFiles' /\ P!DeletedIsGivenUp'
  BY <1>1, <1>4, <1>7 DEF AddedAreHome, TransactionsFit, P!OthersKeepTheirFiles, P!DeletedIsGivenUp
<1> QED BY <1>4, <1>6, <1>8 DEF CleanupInv

LEMMA CrashKeeps ==
  ASSUME CleanupInv, P!Crash
  PROVE  CleanupInv'
<1> USE SafePartsAssumption DEF CleanupInv, P!ProjectCleanupAssumption
<1>1. /\ dirty' = {"boot"} /\ works' = [w \in Works |-> [at |-> "idle", project |-> Nobody, files |-> {}]]
      /\ holder' = [l \in P!Locks |-> Nobody] /\ pub' = [p \in Projects |-> [at |-> "none", want |-> {}]]
      /\ scan' = [p \in Projects |-> Nobody]
      /\ cleaning' = [j \in P!Jobs |-> IF j = "boot" THEN "reconcile" ELSE "none"]
      /\ booting' = [todo |-> {p \in Projects : tx[p] # Nobody}, of |-> Nobody]
      /\ pfaults < CleanupFaults /\ pfaults' = pfaults + 1 /\ UNCHANGED <<sources, where, tx, ledger, released>>
  BY DEF P!Crash, P!disks, P!NoPub, P!Idle, P!NoRead
<1>2. \A j \in P!Jobs : cleaning'[j] \notin Inside \cup {"read", "lock", "delete", "end"} /\ ~AtWork(j)'
      /\ cleaning'[j] \notin Under
  BY <1>1 DEF Inside, Under, AtWork
<1>3. P!TypeOK'
  <2>1. pfaults' \in 0..CleanupFaults /\ dirty' \subseteq Projects \cup {"boot"}
        /\ booting' \in [todo : SUBSET Projects, of : Projects \cup {Nobody}]
    BY <1>1 DEF P!TypeOK
  <2>2. /\ works' \in [Works -> [at : {"idle", "registered", "unregistered"}, project : Projects \cup {Nobody},
                                files : SUBSET Files]]
        /\ pub' \in [Projects -> [at : {"none", "check", "commit", "sync"}, want : SUBSET Files]]
    BY <1>1
  <2> QED BY <1>1, <2>1, <2>2 DEF P!TypeOK
<1>4. HoldersFit'
  BY <1>1, <1>2 DEF HoldersFit, P!Jobs
<1>5. AddedAreHome' /\ LedgerIsComplete'
  BY <1>1 DEF AddedAreHome, LedgerIsComplete
<1>6. TransactionsFit' /\ P!OthersKeepTheirFiles' /\ P!DeletedIsGivenUp'
  BY <1>1, <1>2 DEF TransactionsFit, P!OthersKeepTheirFiles, P!DeletedIsGivenUp
<1> QED BY <1>3, <1>4, <1>5, <1>6 DEF CleanupInv

LEMMA RecoverKeeps ==
  ASSUME CleanupInv, NEW p \in Projects, P!Recover(p)
  PROVE  CleanupInv'
<1> USE SafePartsAssumption DEF CleanupInv, P!ProjectCleanupAssumption
<1>1. PICK next \in {"undo", "release"} : cleaning' = [cleaning EXCEPT !["boot"] = next]
  BY DEF P!Recover, P!Goes
<1>2. /\ cleaning["boot"] = "reconcile" /\ p \in booting.todo /\ booting' = [todo |-> booting.todo \ {p}, of |-> p]
      /\ holder' = [l \in P!Locks |-> IF l \in {p, "publication", "references"} THEN "job" ELSE holder[l]]
      /\ \A l \in {p, "publication", "references"} : holder[l] = Nobody
      /\ UNCHANGED <<sources, where, tx, ledger, released, dirty, works, pub, scan, pfaults>>
  BY DEF P!Recover, P!At, P!IsFree, P!Take, P!JobLocks, P!disks
<1>3. "boot" \in P!Jobs /\ P!Of("boot")' = p /\ cleaning'["boot"] = next
  BY <1>1, <1>2 DEF P!Jobs, P!Of, P!TypeOK
<1>4. \A k \in P!Jobs : ~AtWork(k)
  BY <1>2 DEF HoldersFit
<1>5. \A k \in P!Jobs : AtWork(k)' => k = "boot"
  BY <1>1, <1>4 DEF AtWork, Inside, P!TypeOK
<1>6. \A k \in P!Jobs : cleaning'[k] \in Inside => k = "boot"
  BY <1>5 DEF AtWork
<1>7. P!TypeOK'
  BY <1>1, <1>2 DEF P!TypeOK
<1>8. HoldersFit'
  <2>1. holder'[p] = "job" /\ holder'["publication"] = "job" /\ holder'["references"] = "job"
    BY <1>2 DEF P!Locks
  <2>2. \A q \in Projects : pub'[q].at # "none" => holder'[q] = q
    BY <1>2 DEF HoldersFit, P!Locks, P!TypeOK
  <2>3. \A q \in Projects : pub'[q].at = "commit" /\ pub'[q].want \ sources'[q] # {} => holder'["publication"] = q
    BY <1>2 DEF HoldersFit
  <2> QED BY <1>3, <1>5, <1>6, <2>1, <2>2, <2>3 DEF HoldersFit
<1>9. AddedAreHome' /\ P!OthersKeepTheirFiles' /\ P!DeletedIsGivenUp'
  BY <1>2 DEF AddedAreHome, P!OthersKeepTheirFiles, P!DeletedIsGivenUp
<1>10. LedgerIsComplete'
  BY <1>2 DEF LedgerIsComplete, Renamed
<1>11. TransactionsFit'
  <2>1. \A k \in P!Jobs : cleaning'[k] \in Under => k = "boot"
    BY <1>6 DEF Under
  <2>2. tx'[p] # Nobody /\ p \notin booting'.todo /\ booting'.todo \subseteq booting.todo
    BY <1>2 DEF TransactionsFit
  <2>3. \A k \in P!Jobs : cleaning'[k] \notin {"delete", "end"}
    BY <1>3, <1>6 DEF Inside
  <2> QED BY <1>2, <1>3, <2>1, <2>2, <2>3 DEF TransactionsFit
<1> QED BY <1>7, <1>8, <1>9, <1>10, <1>11 DEF CleanupInv

LEMMA CleanupStarts == ASSUME P!Init PROVE CleanupInv
<1> USE SafePartsAssumption DEF P!ProjectCleanupAssumption, P!Init, P!NoPub, P!NoRelease, P!NoRead, P!Idle
<1>1. P!TypeOK BY DEF P!TypeOK
<1>2. \A j \in P!Jobs : cleaning[j] = "none" BY DEF P!Jobs
<1>3. HoldersFit BY <1>2 DEF HoldersFit, Inside, AtWork, P!Jobs
<1>4. AddedAreHome BY DEF AddedAreHome
<1>5. LedgerIsComplete BY DEF LedgerIsComplete
<1>6. TransactionsFit BY <1>2 DEF TransactionsFit, Inside, Under
<1>7. P!OthersKeepTheirFiles /\ P!DeletedIsGivenUp BY DEF P!OthersKeepTheirFiles, P!DeletedIsGivenUp
<1> QED BY <1>1, <1>3, <1>4, <1>5, <1>6, <1>7 DEF CleanupInv

LEMMA CleanupRests == ASSUME CleanupInv, UNCHANGED pVars PROVE CleanupInv'
<1>1. P!TypeOK' BY DEF CleanupInv, pVars, P!TypeOK
<1>2. HoldersFit' BY DEF CleanupInv, pVars, HoldersFit, AtWork, P!Of
<1>3. AddedAreHome' /\ LedgerIsComplete' BY DEF CleanupInv, pVars, AddedAreHome, LedgerIsComplete, Renamed
<1>4. TransactionsFit' BY DEF CleanupInv, pVars, TransactionsFit, P!Of
<1>5. P!OthersKeepTheirFiles' /\ P!DeletedIsGivenUp'
  BY DEF CleanupInv, pVars, P!OthersKeepTheirFiles, P!DeletedIsGivenUp
<1> QED BY <1>1, <1>2, <1>3, <1>4, <1>5 DEF CleanupInv

LEMMA CleanupMoves == ASSUME CleanupInv, P!Next PROVE CleanupInv'
<1>1. ASSUME NEW p \in Projects,
             \/ P!Want(p) \/ P!Check(p) \/ P!CommitPub(p) \/ P!Sync(p)
             \/ P!Confirm(p) \/ P!Lock(p) \/ P!Plan(p) \/ P!Stage(p) \/ P!CommitTx(p) \/ P!Recover(p)
      PROVE  CleanupInv'
  BY <1>1, WantKeeps, CheckKeeps, CommitPubKeeps, SyncKeeps, ConfirmKeeps, LockKeeps, PlanKeeps, StageKeeps,
     CommitTxKeeps, RecoverKeeps
<1>2. ASSUME NEW w \in Works, P!StartWork(w) \/ P!EndWork(w)
      PROVE  CleanupInv'
  BY <1>2, StartWorkKeeps, EndWorkKeeps
<1>3. ASSUME NEW j \in P!Jobs,
             \/ P!ReconcileStarts(j) \/ P!ReconcileWrite(j) \/ (\E p \in Projects : P!ReconcileRead(j, p))
             \/ P!Undo(j) \/ P!Release(j) \/ P!Delete(j) \/ P!End(j) \/ P!GiveUp(j)
      PROVE  CleanupInv'
  BY <1>3, ReconcileStartsKeeps, ReconcileReadKeeps, ReconcileWriteKeeps, UndoKeeps, ReleaseKeeps, DeleteKeeps,
     EndKeeps, GiveUpKeeps
<1>4. CASE P!Crash
  BY <1>4, CrashKeeps
<1> QED BY <1>1, <1>2, <1>3, <1>4 DEF P!Next

\* The invariant of the cleanup holds whichever part runs.
LEMMA CleanupInvariance == SafeSpec => []CleanupInv
<1>1. SafeInit => CleanupInv
  BY CleanupStarts DEF SafeInit
<1>2. CleanupInv /\ [SafeNext]_<<part, vars, pVars, mVars>> => CleanupInv'
  BY CleanupRests, CleanupMoves DEF SafeNext
<1> QED BY <1>1, <1>2, PTL DEF SafeSpec

\* No cleanup ever takes a file that another project uses and did not give up, for any
\* number of projects, files and works (canRelease, assertSourcePublication).
THEOREM NobodyLosesAFile == SafeSpec => []OthersKeepTheirFiles
<1>1. CleanupInv => OthersKeepTheirFiles
  BY DEF CleanupInv, OthersKeepTheirFiles
<1> QED BY <1>1, CleanupInvariance, PTL

\* A file is deleted only after its project gave it up in the ledger (recover).
THEOREM OnlyGivenUpIsDeleted == SafeSpec => []DeletedIsGivenUp
<1>1. CleanupInv => DeletedIsGivenUp
  BY DEF CleanupInv, DeletedIsGivenUp
<1> QED BY <1>1, CleanupInvariance, PTL

-----------------------------------------------------------------------------
(* The uploads of media: the inductive invariant.  What the hash in memory *)
(* and the queues hold does not matter to it.                              *)

Jobs == [at : {"none", "begin", "wait", "queue", "open", "read", "check", "probe", "publish"} \cup M!Publishing,
         stage : M!Stages, aborted : BOOLEAN, got : 0..Pieces, hashed : (0..Pieces) \cup {Nobody},
         runtime : Runtimes \cup {Nobody}, media : Contents \cup {Wrong, Nobody}]

TypesFit(u) ==
  /\ kind[u] \in {"local", "r2", "drive"} /\ content[u] \in Contents
  /\ upload[u] \in M!States \cup {Nobody} /\ data[u] \in 0..Pieces
  /\ object[u] \in {"open", "parts", "whole", "gone"} /\ receipt[u] \in M!Receipts \cup {Nobody}
  /\ worker[u] \in Jobs /\ patch[u] \in Runtimes \cup {Nobody} /\ acked[u] \in 0..Pieces

\* Every upload has all its variables.
Domains ==
  /\ DOMAIN upload = M!Uploads /\ DOMAIN data = M!Uploads /\ DOMAIN object = M!Uploads
  /\ DOMAIN receipt = M!Uploads /\ DOMAIN worker = M!Uploads /\ DOMAIN patch = M!Uploads
  /\ DOMAIN acked = M!Uploads

\* Between its write and its answer a PATCH is one piece ahead, and no worker runs.
PatchFits(u) == patch[u] # Nobody =>
  /\ kind[u] = "local" /\ M!Exists(u) /\ worker[u].at = "none"
  /\ upload[u].received < Pieces /\ data[u] = upload[u].received + 1

\* An upload through the server is worked on once it is complete; until it is published
\* its partial has everything that was confirmed.
LocalFits(u) == kind[u] = "local" =>
  /\ worker[u].at \notin {"begin", "open", "read"}
  /\ worker[u].at # "none" => worker[u].stage = "validation"
  /\ M!Exists(u) =>
       /\ upload[u].phase = "uploading" /\ (worker[u].at # "none" => upload[u].received = Pieces)
       /\ ~M!Done(u) => acked[u] <= upload[u].received /\ upload[u].received <= data[u]

\* What a worker knows of the bytes in the partial: it has hashed what is there, or
\* it has hashed nothing and the state confirms that all is there.
WorkerFits(u) ==
  /\ worker[u].at = "begin" => worker[u].hashed = Nobody
  /\ worker[u].at = "check" => worker[u].stage = "validation"
  /\ M!Exists(u) =>
       /\ worker[u].at = "read" => worker[u].hashed = worker[u].got /\ data[u] = worker[u].got
       /\ worker[u].at \in {"wait", "queue", "check"} /\ worker[u].stage = "validation" =>
            \/ worker[u].hashed = Pieces /\ data[u] = Pieces
            \/ worker[u].hashed = Nobody /\ upload[u].received = Pieces
       /\ worker[u].at \in {"probe", "publish"} => worker[u].hashed = Pieces /\ data[u] = Pieces

\* What is being published is what was uploaded.
PublishingFits(u) ==
  /\ worker[u].at \in M!Publishing => worker[u].media = content[u] /\ content[u] \in metas
  /\ worker[u].at \in {"rename", "remove"} => receipt[u] # Nobody
  /\ worker[u].at = "remove" => content[u] \in files
  /\ receipt[u] # Nobody => receipt[u].media = content[u]

\* A canceled upload is gone or on its way out, and is not about to be published.
CancelFits(u) ==
  /\ u \in canceled => worker[u].at # "register" /\ (M!Exists(u) => upload[u].phase = "canceling")
  /\ M!InPhase(u, "canceling") => u \in canceled \/ M!Done(u)

\* Nothing has happened to an upload that is still to be created.
StillToCome(u) == u \notin M!Created =>
  /\ ~M!Exists(u) /\ worker[u].at = "none" /\ patch[u] = Nobody /\ receipt[u] = Nobody
  /\ acked[u] = 0 /\ object[u] = "open" /\ u \notin canceled \cup deleting

\* Nothing that was accepted is lost.
KeptFits(u) == u \notin canceled \cup dropped =>
  /\ acked[u] > 0 /\ ~M!Done(u) => kind[u] = "local" /\ M!Exists(u)
  /\ object[u] = "gone" => content[u] \in files

UploadFits(u) ==
  /\ TypesFit(u) /\ PatchFits(u) /\ LocalFits(u) /\ WorkerFits(u) /\ PublishingFits(u)
  /\ CancelFits(u) /\ StillToCome(u) /\ KeptFits(u)

UploadsInv ==
  /\ Domains /\ made \in 0..Len(Order) /\ files \subseteq Contents \cap metas /\ canceled \subseteq M!Uploads
  /\ \A u \in M!Uploads : UploadFits(u)

\* What an action on one upload leaves to the others, and what it may do at all.
SameAt(v) ==
  /\ upload'[v] = upload[v] /\ data'[v] = data[v] /\ object'[v] = object[v] /\ receipt'[v] = receipt[v]
  /\ worker'[v] = worker[v] /\ patch'[v] = patch[v] /\ acked'[v] = acked[v]
Only(u) ==
  /\ Domains' /\ (\A v \in M!Uploads \ {u} : SameAt(v)) /\ kind' = kind /\ content' = content
  /\ canceled \subseteq canceled' /\ canceled' \subseteq canceled \cup {u} /\ deleting' \subseteq deleting \cup {u}
  /\ dropped \subseteq dropped' /\ files \subseteq files' /\ metas \subseteq metas'

LEMMA OthersRest ==
  ASSUME UploadsInv, NEW u \in M!Uploads, Only(u), NEW v \in M!Uploads \ {u}, M!Created \subseteq M!Created'
  PROVE  UploadFits(v)'
<1> USE DEF UploadsInv, UploadFits, Only, SameAt, M!Exists, M!InPhase, M!Done
<1>0. TypesFit(v)' BY DEF TypesFit
<1>1. PatchFits(v)' BY DEF PatchFits
<1>2. LocalFits(v)' BY DEF LocalFits, PublishingFits
<1>3. WorkerFits(v)' BY DEF WorkerFits
<1>4. PublishingFits(v)' BY DEF PublishingFits
<1>5. CancelFits(v)' BY DEF CancelFits, PublishingFits
<1>6. StillToCome(v)' BY DEF StillToCome
<1>7. KeptFits(v)' BY DEF KeptFits, PublishingFits
<1> QED BY <1>0, <1>1, <1>2, <1>3, <1>4, <1>5, <1>6, <1>7

LEMMA TheNextIsToCome ==
  ASSUME made \in 0..Len(Order), made < Len(Order), made' = made + 1
  PROVE  Order[made + 1] \notin M!Created /\ M!Created' = M!Created \cup {Order[made + 1]}
<1> USE SafePartsAssumption DEF M!MediaUploadsAssumption
<1>1. DOMAIN Order = 1..Len(Order) /\ made + 1 \in 1..Len(Order) /\ \A i \in 1..made : i \in 1..Len(Order) /\ i # made + 1
  OBVIOUS
<1>2. \A i \in 1..made : Order[i] # Order[made + 1]
  BY <1>1 DEF M!IsInjective
<1>3. 1..(made + 1) = 1..made \cup {made + 1}
  OBVIOUS
<1> QED BY <1>2, <1>3 DEF M!Created

LEMMA SettlesGrown ==
  ASSUME UploadsInv, NEW u \in M!Uploads, Only(u), made' \in 0..Len(Order), M!Created \subseteq M!Created',
         files' \subseteq Contents \cap metas', UploadFits(u)'
  PROVE  UploadsInv'
<1>1. ASSUME NEW v \in M!Uploads PROVE UploadFits(v)'
  BY <1>1, OthersRest
<1> QED BY <1>1 DEF UploadsInv, Only

LEMMA Settles ==
  ASSUME UploadsInv, NEW u \in M!Uploads, Only(u), made' = made, files' \subseteq Contents \cap metas', UploadFits(u)'
  PROVE  UploadsInv'
  BY SettlesGrown DEF M!Created, UploadsInv

\* What becomes of the state and the worker of an upload.
Confirms(u, n, phase) ==
  upload'[u] \in M!States /\ upload'[u] # Nobody /\ upload'[u].received = n /\ upload'[u].phase = phase
Moves(u, at) ==
  /\ worker'[u] \in Jobs /\ worker'[u].at = at /\ worker'[u].stage = worker[u].stage
  /\ worker'[u].got = worker[u].got /\ worker'[u].hashed = worker[u].hashed /\ worker'[u].media = worker[u].media
Ends(u) == worker'[u] \in Jobs /\ worker'[u].at = "none"
Begins(u) ==
  /\ worker'[u] \in Jobs /\ worker'[u].hashed = Nobody
  /\ worker'[u].at = IF kind[u] = "local" THEN "wait" ELSE "begin"
  /\ worker'[u].stage = IF kind[u] = "local" THEN "validation" ELSE "download"
StateStays(u) == upload'[u] = upload[u]
WorkerStays(u) == worker'[u] = worker[u]

LEMMA UploadConstants ==
  /\ Pieces \in Nat /\ Pieces > 0 /\ Wrong \notin Contents
  /\ Nobody \notin Nat \cup Runtimes \cup Contents \cup {Wrong} \cup M!States \cup M!Receipts
  BY SafePartsAssumption DEF M!MediaUploadsAssumption

LEMMA Workers ==
  /\ M!NoJob \in Jobs /\ M!NoJob.at = "none"
  /\ \A u \in M!Uploads, r \in Runtimes :
       /\ M!NewJob(u, r) \in Jobs /\ M!NewJob(u, r).hashed = Nobody
       /\ M!NewJob(u, r).at = IF kind[u] = "local" THEN "wait" ELSE "begin"
       /\ M!NewJob(u, r).stage = IF kind[u] = "local" THEN "validation" ELSE "download"
<1>1. M!NoJob \in Jobs /\ M!NoJob.at = "none"
  BY UploadConstants DEF Jobs, M!NoJob, M!Stages
<1>2. ASSUME NEW u \in M!Uploads, NEW r \in Runtimes
      PROVE  /\ M!NewJob(u, r) \in Jobs /\ M!NewJob(u, r).hashed = Nobody
             /\ M!NewJob(u, r).at = IF kind[u] = "local" THEN "wait" ELSE "begin"
             /\ M!NewJob(u, r).stage = IF kind[u] = "local" THEN "validation" ELSE "download"
  <2>1. CASE kind[u] = "local"
    <3>1. M!NewJob(u, r) = [M!NoJob EXCEPT !.at = "wait", !.stage = "validation", !.runtime = r]
      BY <2>1 DEF M!NewJob
    <3>2. M!NoJob.hashed = Nobody
      BY DEF M!NoJob
    <3> QED BY <2>1, <1>1, <3>1, <3>2 DEF Jobs, M!Stages
  <2>2. CASE kind[u] # "local"
    <3>1. M!NewJob(u, r) = [M!NoJob EXCEPT !.at = "begin", !.stage = "download", !.runtime = r]
      BY <2>2 DEF M!NewJob
    <3>2. M!NoJob.hashed = Nobody
      BY DEF M!NoJob
    <3> QED BY <2>2, <1>1, <3>1, <3>2 DEF Jobs, M!Stages
  <2> QED BY <2>1, <2>2
<1> QED BY <1>1, <1>2

LEMMA Starts ==
  ASSUME Domains, NEW u \in M!Uploads, NEW r \in Runtimes, M!Start(u, r)
  PROVE  /\ DOMAIN worker' = M!Uploads /\ \A v \in M!Uploads \ {u} : worker'[v] = worker[v]
         /\ WorkerStays(u) \/ Begins(u)
  BY Workers DEF M!Start, Domains, WorkerStays, Begins

LEMMA SendPartsSettles ==
  ASSUME UploadsInv, NEW u \in M!Uploads, M!SendParts(u)
  PROVE  UploadsInv'
<1> USE UploadConstants
<1>1. /\ TypesFit(u) /\ PatchFits(u) /\ LocalFits(u) /\ WorkerFits(u) /\ PublishingFits(u) /\ CancelFits(u)
      /\ StillToCome(u) /\ KeptFits(u) /\ Domains /\ files \subseteq Contents \cap metas
  BY DEF UploadsInv, UploadFits
<1>2. kind[u] = "r2" /\ upload[u] # Nobody /\ object[u] = "open"
  BY <1>1, Workers DEF M!SendParts, M!Exists, M!InPhase, M!Locked, M!Alive, M!Publishing, M!MayClean, TypesFit
<1>3. Confirms(u, upload[u].received, upload[u].phase)
  <2>1. upload'[u] = [upload[u] EXCEPT !.reserved = TRUE]
    BY <1>1, <1>2 DEF M!SendParts, M!InPhase, M!Exists, Domains, TypesFit, M!pool, M!seen, M!Wrote
  <2>2. upload[u] \in M!States /\ worker[u] \in Jobs
    BY <1>1, <1>2 DEF TypesFit
  <2> QED BY <1>2, <2>1, <2>2 DEF Confirms, StateStays, M!States, Jobs
<1>4. object'[u] = "parts" /\ UNCHANGED <<data, receipt, worker, patch, acked, canceled, deleting, dropped, made,
    files, metas>>
  BY <1>1, <1>2 DEF M!SendParts, M!pool, M!seen, Domains, TypesFit
<1>5. Only(u)
  BY <1>1, <1>2 DEF M!SendParts, Only, SameAt, Domains, TypesFit, M!pool, M!seen, M!Wrote
<1> USE DEF Only, Confirms, Moves, Ends, Begins, StateStays, WorkerStays, M!Exists, M!InPhase, M!Done, TypesFit
<1>6. TypesFit(u)' BY <1>1, <1>2, <1>3, <1>4, <1>5 DEF Jobs, M!States, M!Receipts, LocalFits, PatchFits, WorkerFits
<1>7. PatchFits(u)' BY <1>1, <1>2, <1>3, <1>4, <1>5 DEF PatchFits, LocalFits
<1>8. LocalFits(u)'
  BY <1>1, <1>2, <1>3, <1>4, <1>5 DEF LocalFits, PublishingFits, M!Publishing, PatchFits, M!Workable, WorkerFits,
      Jobs, M!States
<1>9. WorkerFits(u)' BY <1>1, <1>2, <1>3, <1>4, <1>5 DEF WorkerFits, LocalFits, PatchFits, M!Workable, M!Stages
<1>10. PublishingFits(u)' BY <1>1, <1>2, <1>3, <1>4, <1>5 DEF PublishingFits, M!Publishing
<1>11. CancelFits(u)'
  BY <1>1, <1>2, <1>3, <1>4, <1>5 DEF CancelFits, LocalFits, StillToCome, PublishingFits, M!Publishing
<1>12. StillToCome(u)' BY <1>1, <1>2, <1>3, <1>4, <1>5 DEF StillToCome, PatchFits, M!Created
<1>13. KeptFits(u)' BY <1>1, <1>2, <1>3, <1>4, <1>5 DEF KeptFits, PatchFits, CancelFits, PublishingFits, LocalFits
<1> QED
  <2>1. UploadFits(u)' BY <1>6, <1>7, <1>8, <1>9, <1>10, <1>11, <1>12, <1>13 DEF UploadFits
  <2> QED BY <1>1, <1>2, <1>3, <1>4, <1>5, <2>1, Settles

LEMMA PatchFailsSettles ==
  ASSUME UploadsInv, NEW u \in M!Uploads, M!PatchFails(u)
  PROVE  UploadsInv'
<1> USE UploadConstants
<1>1. /\ TypesFit(u) /\ PatchFits(u) /\ LocalFits(u) /\ WorkerFits(u) /\ PublishingFits(u) /\ CancelFits(u)
      /\ StillToCome(u) /\ KeptFits(u) /\ Domains /\ files \subseteq Contents \cap metas
  BY DEF UploadsInv, UploadFits
<1>2. patch[u] # Nobody
  BY <1>1, Workers DEF M!PatchFails, M!Exists, M!InPhase, M!Locked, M!Alive, M!Publishing, M!MayClean, TypesFit
<1>3. data'[u] = upload[u].received /\ patch'[u] = Nobody
  BY <1>1, <1>2 DEF M!PatchFails, M!pool, M!seen, Domains, TypesFit, M!Grown
<1>4. UNCHANGED <<upload, object, receipt, worker, acked, canceled, deleting, dropped, made, files, metas>>
  BY DEF M!PatchFails, M!pool, M!seen
<1>5. Only(u)
  BY <1>1, <1>2 DEF M!PatchFails, Only, SameAt, Domains, TypesFit, M!pool, M!seen, M!Grown
<1> USE DEF Only, Confirms, Moves, Ends, Begins, StateStays, WorkerStays, M!Exists, M!InPhase, M!Done, TypesFit
<1>6. TypesFit(u)' BY <1>1, <1>2, <1>3, <1>4, <1>5 DEF Jobs, M!States, M!Receipts, LocalFits, PatchFits, WorkerFits
<1>7. PatchFits(u)' BY <1>1, <1>2, <1>3, <1>4, <1>5 DEF PatchFits, LocalFits
<1>8. LocalFits(u)'
  BY <1>1, <1>2, <1>3, <1>4, <1>5 DEF LocalFits, PublishingFits, M!Publishing, PatchFits, M!Workable, WorkerFits,
      Jobs, M!States
<1>9. WorkerFits(u)' BY <1>1, <1>2, <1>3, <1>4, <1>5 DEF WorkerFits, LocalFits, PatchFits, M!Workable, M!Stages
<1>10. PublishingFits(u)' BY <1>1, <1>2, <1>3, <1>4, <1>5 DEF PublishingFits, M!Publishing
<1>11. CancelFits(u)'
  BY <1>1, <1>2, <1>3, <1>4, <1>5 DEF CancelFits, LocalFits, StillToCome, PublishingFits, M!Publishing
<1>12. StillToCome(u)' BY <1>1, <1>2, <1>3, <1>4, <1>5 DEF StillToCome, PatchFits, M!Created
<1>13. KeptFits(u)' BY <1>1, <1>2, <1>3, <1>4, <1>5 DEF KeptFits, PatchFits, CancelFits, PublishingFits, LocalFits
<1> QED
  <2>1. UploadFits(u)' BY <1>6, <1>7, <1>8, <1>9, <1>10, <1>11, <1>12, <1>13 DEF UploadFits
  <2> QED BY <1>1, <1>2, <1>3, <1>4, <1>5, <2>1, Settles

LEMMA DeleteSettles ==
  ASSUME UploadsInv, NEW u \in M!Uploads, M!Delete(u)
  PROVE  UploadsInv'
<1> USE UploadConstants
<1>1. /\ TypesFit(u) /\ PatchFits(u) /\ LocalFits(u) /\ WorkerFits(u) /\ PublishingFits(u) /\ CancelFits(u)
      /\ StillToCome(u) /\ KeptFits(u) /\ Domains /\ files \subseteq Contents \cap metas
  BY DEF UploadsInv, UploadFits
<1>2. u \in M!Created
  BY <1>1, Workers DEF M!Delete, M!Exists, M!InPhase, M!Locked, M!Alive, M!Publishing, M!MayClean, TypesFit
<1>3. Moves(u, worker[u].at)
  BY <1>1, <1>2 DEF M!Delete, M!pool, M!seen, Domains, TypesFit, M!Abort, Moves, Jobs
<1>4. UNCHANGED <<upload, data, object, receipt, patch, acked, canceled, dropped, made, files, metas>>
  BY DEF M!Delete, M!pool, M!seen
<1>5. Only(u)
  BY <1>1, <1>2 DEF M!Delete, Only, SameAt, Domains, TypesFit, M!pool, M!seen, M!Abort
<1> USE DEF Only, Confirms, Moves, Ends, Begins, StateStays, WorkerStays, M!Exists, M!InPhase, M!Done, TypesFit
<1>6. TypesFit(u)' BY <1>1, <1>2, <1>3, <1>4, <1>5 DEF Jobs, M!States, M!Receipts, LocalFits, PatchFits, WorkerFits
<1>7. PatchFits(u)' BY <1>1, <1>2, <1>3, <1>4, <1>5 DEF PatchFits, LocalFits
<1>8. LocalFits(u)'
  BY <1>1, <1>2, <1>3, <1>4, <1>5 DEF LocalFits, PublishingFits, M!Publishing, PatchFits, M!Workable, WorkerFits,
      Jobs, M!States
<1>9. WorkerFits(u)' BY <1>1, <1>2, <1>3, <1>4, <1>5 DEF WorkerFits, LocalFits, PatchFits, M!Workable, M!Stages
<1>10. PublishingFits(u)' BY <1>1, <1>2, <1>3, <1>4, <1>5 DEF PublishingFits, M!Publishing
<1>11. CancelFits(u)'
  BY <1>1, <1>2, <1>3, <1>4, <1>5 DEF CancelFits, LocalFits, StillToCome, PublishingFits, M!Publishing
<1>12. StillToCome(u)' BY <1>1, <1>2, <1>3, <1>4, <1>5 DEF StillToCome, PatchFits, M!Created
<1>13. KeptFits(u)' BY <1>1, <1>2, <1>3, <1>4, <1>5 DEF KeptFits, PatchFits, CancelFits, PublishingFits, LocalFits
<1> QED
  <2>1. UploadFits(u)' BY <1>6, <1>7, <1>8, <1>9, <1>10, <1>11, <1>12, <1>13 DEF UploadFits
  <2> QED BY <1>1, <1>2, <1>3, <1>4, <1>5, <2>1, Settles

LEMMA PatchSettles ==
  ASSUME UploadsInv, NEW u \in M!Uploads, NEW r \in Runtimes, M!Patch(u, r)
  PROVE  UploadsInv'
<1> USE UploadConstants
<1>1. /\ TypesFit(u) /\ PatchFits(u) /\ LocalFits(u) /\ WorkerFits(u) /\ PublishingFits(u) /\ CancelFits(u)
      /\ StillToCome(u) /\ KeptFits(u) /\ Domains /\ files \subseteq Contents \cap metas
  BY DEF UploadsInv, UploadFits
<1>2. kind[u] = "local" /\ upload[u] # Nobody /\ patch[u] = Nobody /\ ~M!Done(u) /\ upload[u].received < Pieces
  BY <1>1, Workers DEF M!Patch, M!Exists, M!InPhase, M!Locked, M!Alive, M!Publishing, M!MayClean, TypesFit
<1>3. Confirms(u, upload[u].received, upload[u].phase)
  <2>1. upload'[u] = [upload[u] EXCEPT !.reserved = TRUE]
    BY <1>1, <1>2 DEF M!Patch, M!InPhase, M!Exists, Domains, TypesFit, M!pool, M!seen, M!Wrote
  <2>2. upload[u] \in M!States /\ worker[u] \in Jobs
    BY <1>1, <1>2 DEF TypesFit
  <2> QED BY <1>2, <2>1, <2>2 DEF Confirms, StateStays, M!States, Jobs
<1>4. data'[u] = upload[u].received + 1 /\ patch'[u] = r
  BY <1>1, <1>2 DEF M!Patch, M!pool, M!seen, Domains, TypesFit, M!Grown
<1>5. UNCHANGED <<object, receipt, worker, acked, canceled, deleting, dropped, made, files, metas>>
  BY DEF M!Patch, M!pool, M!seen
<1>6. Only(u)
  BY <1>1, <1>2 DEF M!Patch, Only, SameAt, Domains, TypesFit, M!pool, M!seen, M!Grown, M!Wrote
<1> USE DEF Only, Confirms, Moves, Ends, Begins, StateStays, WorkerStays, M!Exists, M!InPhase, M!Done, TypesFit
<1>7. TypesFit(u)'
  BY <1>1, <1>2, <1>3, <1>4, <1>5, <1>6 DEF Jobs, M!States, M!Receipts, LocalFits, PatchFits, WorkerFits
<1>8. PatchFits(u)' BY <1>1, <1>2, <1>3, <1>4, <1>5, <1>6 DEF PatchFits, LocalFits
<1>9. LocalFits(u)'
  BY <1>1, <1>2, <1>3, <1>4, <1>5, <1>6 DEF LocalFits, PublishingFits, M!Publishing, PatchFits, M!Workable,
      WorkerFits, Jobs, M!States
<1>10. WorkerFits(u)' BY <1>1, <1>2, <1>3, <1>4, <1>5, <1>6 DEF WorkerFits, LocalFits, PatchFits, M!Workable, M!Stages
<1>11. PublishingFits(u)' BY <1>1, <1>2, <1>3, <1>4, <1>5, <1>6 DEF PublishingFits, M!Publishing
<1>12. CancelFits(u)'
  BY <1>1, <1>2, <1>3, <1>4, <1>5, <1>6 DEF CancelFits, LocalFits, StillToCome, PublishingFits, M!Publishing
<1>13. StillToCome(u)' BY <1>1, <1>2, <1>3, <1>4, <1>5, <1>6 DEF StillToCome, PatchFits, M!Created
<1>14. KeptFits(u)'
  BY <1>1, <1>2, <1>3, <1>4, <1>5, <1>6 DEF KeptFits, PatchFits, CancelFits, PublishingFits, LocalFits
<1> QED
  <2>1. UploadFits(u)' BY <1>7, <1>8, <1>9, <1>10, <1>11, <1>12, <1>13, <1>14 DEF UploadFits
  <2> QED BY <1>1, <1>2, <1>3, <1>4, <1>5, <1>6, <2>1, Settles

LEMMA PatchSavesSettles ==
  ASSUME UploadsInv, NEW u \in M!Uploads, M!PatchSaves(u)
  PROVE  UploadsInv'
<1> USE UploadConstants
<1>1. /\ TypesFit(u) /\ PatchFits(u) /\ LocalFits(u) /\ WorkerFits(u) /\ PublishingFits(u) /\ CancelFits(u)
      /\ StillToCome(u) /\ KeptFits(u) /\ Domains /\ files \subseteq Contents \cap metas
  BY DEF UploadsInv, UploadFits
<1>2. patch[u] # Nobody /\ upload[u] # Nobody
  BY <1>1, Workers DEF M!PatchSaves, M!Exists, M!InPhase, M!Locked, M!Alive, M!Publishing, M!MayClean, TypesFit,
      PatchFits
<1>3. Confirms(u, upload[u].received + 1, upload[u].phase)
  <2>1. upload'[u] = [upload[u] EXCEPT !.received = upload[u].received + 1] /\ upload[u] \in M!States /\ upload[u].received < Pieces
    BY <1>1, <1>2 DEF M!PatchSaves, M!InPhase, M!Exists, Domains, TypesFit, M!pool, M!seen, M!Wrote, PatchFits,
        M!Exists
  <2>2. upload[u] \in M!States /\ worker[u] \in Jobs
    BY <1>1, <1>2 DEF TypesFit
  <2> QED BY <1>2, <2>1, <2>2 DEF Confirms, StateStays, M!States, Jobs
<1>4. acked'[u] = upload[u].received + 1 /\ patch'[u] = Nobody
  BY <1>1, <1>2 DEF M!PatchSaves, M!pool, M!seen, Domains, TypesFit
<1>5. WorkerStays(u) \/ (Begins(u) /\ upload[u].received + 1 = Pieces)
  BY <1>1, <1>2, Starts DEF M!PatchSaves, M!pool, M!seen, Domains, TypesFit, WorkerStays
<1>6. UNCHANGED <<data, object, receipt, canceled, deleting, dropped, made, files, metas>>
  BY DEF M!PatchSaves, M!pool, M!seen
<1>7. Only(u)
  BY <1>1, <1>2, Starts DEF M!PatchSaves, Only, SameAt, Domains, TypesFit, M!pool, M!seen, M!Wrote
<1> USE DEF Only, Confirms, Moves, Ends, Begins, StateStays, WorkerStays, M!Exists, M!InPhase, M!Done, TypesFit
<1>8. TypesFit(u)'
  BY <1>1, <1>2, <1>3, <1>4, <1>5, <1>6, <1>7 DEF Jobs, M!States, M!Receipts, LocalFits, PatchFits, WorkerFits
<1>9. PatchFits(u)' BY <1>1, <1>2, <1>3, <1>4, <1>5, <1>6, <1>7 DEF PatchFits, LocalFits
<1>10. LocalFits(u)'
  BY <1>1, <1>2, <1>3, <1>4, <1>5, <1>6, <1>7 DEF LocalFits, PublishingFits, M!Publishing, PatchFits, M!Workable,
      WorkerFits, Jobs, M!States
<1>11. WorkerFits(u)'
  BY <1>1, <1>2, <1>3, <1>4, <1>5, <1>6, <1>7 DEF WorkerFits, LocalFits, PatchFits, M!Workable, M!Stages
<1>12. PublishingFits(u)' BY <1>1, <1>2, <1>3, <1>4, <1>5, <1>6, <1>7 DEF PublishingFits, M!Publishing
<1>13. CancelFits(u)'
  BY <1>1, <1>2, <1>3, <1>4, <1>5, <1>6, <1>7 DEF CancelFits, LocalFits, StillToCome, PublishingFits, M!Publishing
<1>14. StillToCome(u)' BY <1>1, <1>2, <1>3, <1>4, <1>5, <1>6, <1>7 DEF StillToCome, PatchFits, M!Created
<1>15. KeptFits(u)'
  BY <1>1, <1>2, <1>3, <1>4, <1>5, <1>6, <1>7 DEF KeptFits, PatchFits, CancelFits, PublishingFits, LocalFits
<1> QED
  <2>1. UploadFits(u)' BY <1>8, <1>9, <1>10, <1>11, <1>12, <1>13, <1>14, <1>15 DEF UploadFits
  <2> QED BY <1>1, <1>2, <1>3, <1>4, <1>5, <1>6, <1>7, <2>1, Settles

LEMMA PollSettles ==
  ASSUME UploadsInv, NEW u \in M!Uploads, NEW r \in Runtimes, M!Poll(u, r)
  PROVE  UploadsInv'
<1> USE UploadConstants
<1>1. /\ TypesFit(u) /\ PatchFits(u) /\ LocalFits(u) /\ WorkerFits(u) /\ PublishingFits(u) /\ CancelFits(u)
      /\ StillToCome(u) /\ KeptFits(u) /\ Domains /\ files \subseteq Contents \cap metas
  BY DEF UploadsInv, UploadFits
<1>2. upload[u] # Nobody /\ worker[u].at = "none" /\ patch[u] = Nobody
  BY <1>1, Workers DEF M!Poll, M!Exists, M!InPhase, M!Locked, M!Alive, M!Publishing, M!MayClean, TypesFit
<1>3. (StateStays(u) /\ M!Workable(u))
      \/ (upload[u].phase = "uploading" /\ kind[u] = "r2" /\ Confirms(u, upload[u].received, "importing"))
  <2>1. upload[u] \in M!States
    BY <1>1, <1>2 DEF TypesFit
  <2>2. CASE M!Workable(u) /\ UNCHANGED upload
    BY <2>2 DEF StateStays
  <2>3. CASE M!InPhase(u, "uploading") /\ kind[u] = "r2" /\ M!Wrote(u, [upload[u] EXCEPT !.phase = "importing"])
    <3>1. upload'[u] = [upload[u] EXCEPT !.phase = "importing"] /\ upload[u].phase = "uploading" /\ kind[u] = "r2"
      BY <1>1, <2>3 DEF M!Wrote, Domains, M!InPhase
    <3> QED BY <2>1, <3>1 DEF Confirms, M!States
  <2> QED BY <2>2, <2>3 DEF M!Poll
<1>4. WorkerStays(u) \/ Begins(u)
  BY <1>1, <1>2, Starts DEF M!Poll, M!pool, M!seen, Domains, TypesFit
<1>5. UNCHANGED <<data, object, receipt, patch, acked, canceled, deleting, dropped, made, files, metas>>
  BY DEF M!Poll, M!pool, M!seen
<1>6. Only(u)
  BY <1>1, <1>2, Starts DEF M!Poll, Only, SameAt, Domains, TypesFit, M!pool, M!seen, M!Wrote
<1> USE DEF Only, Confirms, Moves, Ends, Begins, StateStays, WorkerStays, M!Exists, M!InPhase, M!Done, TypesFit
<1>7. TypesFit(u)'
  BY <1>1, <1>2, <1>3, <1>4, <1>5, <1>6 DEF Jobs, M!States, M!Receipts, LocalFits, PatchFits, WorkerFits
<1>8. PatchFits(u)' BY <1>1, <1>2, <1>3, <1>4, <1>5, <1>6 DEF PatchFits, LocalFits
<1>9. LocalFits(u)'
  BY <1>1, <1>2, <1>3, <1>4, <1>5, <1>6 DEF LocalFits, PublishingFits, M!Publishing, PatchFits, M!Workable,
      WorkerFits, Jobs, M!States
<1>10. WorkerFits(u)' BY <1>1, <1>2, <1>3, <1>4, <1>5, <1>6 DEF WorkerFits, LocalFits, PatchFits, M!Workable, M!Stages
<1>11. PublishingFits(u)' BY <1>1, <1>2, <1>3, <1>4, <1>5, <1>6 DEF PublishingFits, M!Publishing
<1>12. CancelFits(u)'
  BY <1>1, <1>2, <1>3, <1>4, <1>5, <1>6 DEF CancelFits, LocalFits, StillToCome, PublishingFits, M!Publishing
<1>13. StillToCome(u)' BY <1>1, <1>2, <1>3, <1>4, <1>5, <1>6 DEF StillToCome, PatchFits, M!Created
<1>14. KeptFits(u)'
  BY <1>1, <1>2, <1>3, <1>4, <1>5, <1>6 DEF KeptFits, PatchFits, CancelFits, PublishingFits, LocalFits
<1> QED
  <2>1. UploadFits(u)' BY <1>7, <1>8, <1>9, <1>10, <1>11, <1>12, <1>13, <1>14 DEF UploadFits
  <2> QED BY <1>1, <1>2, <1>3, <1>4, <1>5, <1>6, <2>1, Settles

LEMMA CompleteSettles ==
  ASSUME UploadsInv, NEW u \in M!Uploads, NEW r \in Runtimes, M!Complete(u, r)
  PROVE  UploadsInv'
<1> USE UploadConstants
<1>1. /\ TypesFit(u) /\ PatchFits(u) /\ LocalFits(u) /\ WorkerFits(u) /\ PublishingFits(u) /\ CancelFits(u)
      /\ StillToCome(u) /\ KeptFits(u) /\ Domains /\ files \subseteq Contents \cap metas
  BY DEF UploadsInv, UploadFits
<1>2. kind[u] = "r2" /\ upload[u] # Nobody /\ upload[u].phase # "canceling" /\ patch[u] = Nobody
  BY <1>1, Workers DEF M!Complete, M!Exists, M!InPhase, M!Locked, M!Alive, M!Publishing, M!MayClean, TypesFit
<1>3. StateStays(u) \/ Confirms(u, upload[u].received, "importing")
  <2>1. StateStays(u) \/ upload'[u] = [upload[u] EXCEPT !.phase = "importing", !.reserved = TRUE]
    BY <1>1, <1>2 DEF M!Complete, M!InPhase, M!Exists, Domains, TypesFit, M!pool, M!seen, M!Wrote, StateStays
  <2>2. upload[u] \in M!States /\ worker[u] \in Jobs
    BY <1>1, <1>2 DEF TypesFit
  <2>3. CASE StateStays(u) BY <2>3
  <2>4. CASE upload'[u] = [upload[u] EXCEPT !.phase = "importing", !.reserved = TRUE]
    BY <1>2, <2>2, <2>4, ZenonT(60) DEF Confirms, M!States, M!Stages, Jobs
  <2> QED BY <2>1, <2>3, <2>4
<1>4. WorkerStays(u) \/ Begins(u)
  BY <1>1, <1>2, Starts DEF M!Complete, M!pool, M!seen, Domains, TypesFit, WorkerStays
<1>5. object'[u] = "whole" /\ UNCHANGED <<data, receipt, patch, acked, canceled, deleting, dropped, made, files,
    metas>>
  BY <1>1, <1>2 DEF M!Complete, M!pool, M!seen, Domains, TypesFit
<1>6. Only(u)
  BY <1>1, <1>2, Starts DEF M!Complete, Only, SameAt, Domains, TypesFit, M!pool, M!seen, M!Wrote
<1> USE DEF Only, Confirms, Moves, Ends, Begins, StateStays, WorkerStays, M!Exists, M!InPhase, M!Done, TypesFit
<1>7. TypesFit(u)'
  BY <1>1, <1>2, <1>3, <1>4, <1>5, <1>6 DEF Jobs, M!States, M!Receipts, LocalFits, PatchFits, WorkerFits
<1>8. PatchFits(u)' BY <1>1, <1>2, <1>3, <1>4, <1>5, <1>6 DEF PatchFits, LocalFits
<1>9. LocalFits(u)'
  BY <1>1, <1>2, <1>3, <1>4, <1>5, <1>6 DEF LocalFits, PublishingFits, M!Publishing, PatchFits, M!Workable,
      WorkerFits, Jobs, M!States
<1>10. WorkerFits(u)' BY <1>1, <1>2, <1>3, <1>4, <1>5, <1>6 DEF WorkerFits, LocalFits, PatchFits, M!Workable, M!Stages
<1>11. PublishingFits(u)' BY <1>1, <1>2, <1>3, <1>4, <1>5, <1>6 DEF PublishingFits, M!Publishing
<1>12. CancelFits(u)'
  BY <1>1, <1>2, <1>3, <1>4, <1>5, <1>6 DEF CancelFits, LocalFits, StillToCome, PublishingFits, M!Publishing
<1>13. StillToCome(u)' BY <1>1, <1>2, <1>3, <1>4, <1>5, <1>6 DEF StillToCome, PatchFits, M!Created
<1>14. KeptFits(u)'
  BY <1>1, <1>2, <1>3, <1>4, <1>5, <1>6 DEF KeptFits, PatchFits, CancelFits, PublishingFits, LocalFits
<1> QED
  <2>1. UploadFits(u)' BY <1>7, <1>8, <1>9, <1>10, <1>11, <1>12, <1>13, <1>14 DEF UploadFits
  <2> QED BY <1>1, <1>2, <1>3, <1>4, <1>5, <1>6, <2>1, Settles

LEMMA RetryDriveSettles ==
  ASSUME UploadsInv, NEW u \in M!Uploads, NEW r \in Runtimes, M!RetryDrive(u, r)
  PROVE  UploadsInv'
<1> USE UploadConstants
<1>1. /\ TypesFit(u) /\ PatchFits(u) /\ LocalFits(u) /\ WorkerFits(u) /\ PublishingFits(u) /\ CancelFits(u)
      /\ StillToCome(u) /\ KeptFits(u) /\ Domains /\ files \subseteq Contents \cap metas
  BY DEF UploadsInv, UploadFits
<1>2. kind[u] = "drive" /\ upload[u] # Nobody /\ upload[u].phase = "failed" /\ patch[u] = Nobody
  BY <1>1, Workers DEF M!RetryDrive, M!Exists, M!InPhase, M!Locked, M!Alive, M!Publishing, M!MayClean, TypesFit
<1>3. Confirms(u, upload[u].received, "importing")
  <2>1. upload'[u] = [upload[u] EXCEPT !.phase = "importing", !.reserved = TRUE]
    BY <1>1, <1>2 DEF M!RetryDrive, M!InPhase, M!Exists, Domains, TypesFit, M!pool, M!seen, M!Wrote
  <2>2. upload[u] \in M!States /\ worker[u] \in Jobs
    BY <1>1, <1>2 DEF TypesFit
  <2> QED BY <1>2, <2>1, <2>2, ZenonT(60) DEF Confirms, StateStays, M!States, Jobs
<1>4. WorkerStays(u) \/ Begins(u)
  BY <1>1, <1>2, Starts DEF M!RetryDrive, M!pool, M!seen, Domains, TypesFit
<1>5. UNCHANGED <<data, object, receipt, patch, acked, canceled, deleting, dropped, made, files, metas>>
  BY DEF M!RetryDrive, M!pool, M!seen
<1>6. Only(u)
  BY <1>1, <1>2, Starts DEF M!RetryDrive, Only, SameAt, Domains, TypesFit, M!pool, M!seen, M!Wrote
<1> USE DEF Only, Confirms, Moves, Ends, Begins, StateStays, WorkerStays, M!Exists, M!InPhase, M!Done, TypesFit
<1>7. TypesFit(u)'
  BY <1>1, <1>2, <1>3, <1>4, <1>5, <1>6 DEF Jobs, M!States, M!Receipts, LocalFits, PatchFits, WorkerFits
<1>8. PatchFits(u)' BY <1>1, <1>2, <1>3, <1>4, <1>5, <1>6 DEF PatchFits, LocalFits
<1>9. LocalFits(u)'
  BY <1>1, <1>2, <1>3, <1>4, <1>5, <1>6 DEF LocalFits, PublishingFits, M!Publishing, PatchFits, M!Workable,
      WorkerFits, Jobs, M!States
<1>10. WorkerFits(u)' BY <1>1, <1>2, <1>3, <1>4, <1>5, <1>6 DEF WorkerFits, LocalFits, PatchFits, M!Workable, M!Stages
<1>11. PublishingFits(u)' BY <1>1, <1>2, <1>3, <1>4, <1>5, <1>6 DEF PublishingFits, M!Publishing
<1>12. CancelFits(u)'
  BY <1>1, <1>2, <1>3, <1>4, <1>5, <1>6 DEF CancelFits, LocalFits, StillToCome, PublishingFits, M!Publishing
<1>13. StillToCome(u)' BY <1>1, <1>2, <1>3, <1>4, <1>5, <1>6 DEF StillToCome, PatchFits, M!Created
<1>14. KeptFits(u)'
  BY <1>1, <1>2, <1>3, <1>4, <1>5, <1>6 DEF KeptFits, PatchFits, CancelFits, PublishingFits, LocalFits
<1> QED
  <2>1. UploadFits(u)' BY <1>7, <1>8, <1>9, <1>10, <1>11, <1>12, <1>13, <1>14 DEF UploadFits
  <2> QED BY <1>1, <1>2, <1>3, <1>4, <1>5, <1>6, <2>1, Settles

LEMMA WaitSettles ==
  ASSUME UploadsInv, NEW u \in M!Uploads, M!Wait(u)
  PROVE  UploadsInv'
<1> USE UploadConstants
<1>1. /\ TypesFit(u) /\ PatchFits(u) /\ LocalFits(u) /\ WorkerFits(u) /\ PublishingFits(u) /\ CancelFits(u)
      /\ StillToCome(u) /\ KeptFits(u) /\ Domains /\ files \subseteq Contents \cap metas
  BY DEF UploadsInv, UploadFits
<1>2. worker[u].at = "wait" /\ upload[u] # Nobody
  BY <1>1, Workers DEF M!Wait, M!Exists, M!InPhase, M!Locked, M!Alive, M!Publishing, M!MayClean, TypesFit
<1>3. Confirms(u, upload[u].received, upload[u].phase)
  <2>1. \E b \in BOOLEAN : upload'[u] = [upload[u] EXCEPT !.stage = worker[u].stage, !.reserved = b]
    BY <1>1, <1>2 DEF M!Wait, M!InPhase, M!Exists, Domains, TypesFit, M!pool, M!seen, M!Wrote, M!States
  <2>2. upload[u] \in M!States /\ worker[u] \in Jobs
    BY <1>1, <1>2 DEF TypesFit
  <2> QED BY <1>2, <2>1, <2>2 DEF Confirms, StateStays, M!States, Jobs
<1>4. WorkerStays(u) \/ Moves(u, "queue")
  BY <1>1, <1>2 DEF M!Wait, M!pool, M!seen, Domains, TypesFit, M!Goes, Moves, WorkerStays, Jobs
<1>5. UNCHANGED <<data, object, receipt, patch, acked, canceled, deleting, dropped, made, files, metas>>
  BY DEF M!Wait, M!pool, M!seen
<1>6. Only(u)
  BY <1>1, <1>2 DEF M!Wait, Only, SameAt, Domains, TypesFit, M!pool, M!seen, M!Goes, M!Wrote
<1> USE DEF Only, Confirms, Moves, Ends, Begins, StateStays, WorkerStays, M!Exists, M!InPhase, M!Done, TypesFit
<1>7. TypesFit(u)'
  BY <1>1, <1>2, <1>3, <1>4, <1>5, <1>6 DEF Jobs, M!States, M!Receipts, LocalFits, PatchFits, WorkerFits
<1>8. PatchFits(u)' BY <1>1, <1>2, <1>3, <1>4, <1>5, <1>6 DEF PatchFits, LocalFits
<1>9. LocalFits(u)'
  BY <1>1, <1>2, <1>3, <1>4, <1>5, <1>6 DEF LocalFits, PublishingFits, M!Publishing, PatchFits, M!Workable,
      WorkerFits, Jobs, M!States
<1>10. WorkerFits(u)' BY <1>1, <1>2, <1>3, <1>4, <1>5, <1>6 DEF WorkerFits, LocalFits, PatchFits, M!Workable, M!Stages
<1>11. PublishingFits(u)' BY <1>1, <1>2, <1>3, <1>4, <1>5, <1>6 DEF PublishingFits, M!Publishing
<1>12. CancelFits(u)'
  BY <1>1, <1>2, <1>3, <1>4, <1>5, <1>6 DEF CancelFits, LocalFits, StillToCome, PublishingFits, M!Publishing
<1>13. StillToCome(u)' BY <1>1, <1>2, <1>3, <1>4, <1>5, <1>6 DEF StillToCome, PatchFits, M!Created
<1>14. KeptFits(u)'
  BY <1>1, <1>2, <1>3, <1>4, <1>5, <1>6 DEF KeptFits, PatchFits, CancelFits, PublishingFits, LocalFits
<1> QED
  <2>1. UploadFits(u)' BY <1>7, <1>8, <1>9, <1>10, <1>11, <1>12, <1>13, <1>14 DEF UploadFits
  <2> QED BY <1>1, <1>2, <1>3, <1>4, <1>5, <1>6, <2>1, Settles

LEMMA EnterSettles ==
  ASSUME UploadsInv, NEW u \in M!Uploads, M!Enter(u)
  PROVE  UploadsInv'
<1> USE UploadConstants
<1>1. /\ TypesFit(u) /\ PatchFits(u) /\ LocalFits(u) /\ WorkerFits(u) /\ PublishingFits(u) /\ CancelFits(u)
      /\ StillToCome(u) /\ KeptFits(u) /\ Domains /\ files \subseteq Contents \cap metas
  BY DEF UploadsInv, UploadFits
<1>2. worker[u].at = "queue" /\ upload[u] # Nobody
  BY <1>1, Workers DEF M!Enter, M!Exists, M!InPhase, M!Locked, M!Alive, M!Publishing, M!MayClean, TypesFit
<1>3. StateStays(u) \/ Confirms(u, upload[u].received, upload[u].phase)
  <2>1. StateStays(u) \/ upload'[u] = [upload[u] EXCEPT !.reserved = TRUE]
    BY <1>1, <1>2 DEF M!Enter, M!InPhase, M!Exists, Domains, TypesFit, M!pool, M!seen, M!Wrote, StateStays
  <2>2. upload[u] \in M!States /\ worker[u] \in Jobs
    BY <1>1, <1>2 DEF TypesFit
  <2>3. CASE StateStays(u) BY <2>3
  <2>4. CASE upload'[u] = [upload[u] EXCEPT !.reserved = TRUE]
    BY <1>2, <2>2, <2>4 DEF Confirms, M!States, M!Stages, Jobs
  <2> QED BY <2>1, <2>3, <2>4
<1>4. \/ Moves(u, "wait")
      \/ worker[u].stage = "download" /\ Moves(u, "open")
      \/ worker[u].stage = "validation" /\ Moves(u, "check")
  BY <1>1, <1>2 DEF M!Enter, M!pool, M!seen, Domains, TypesFit, M!Goes, Moves, Jobs, M!Stages
<1>5. UNCHANGED <<data, object, receipt, patch, acked, canceled, deleting, dropped, made, files, metas>>
  BY DEF M!Enter, M!pool, M!seen
<1>6. Only(u)
  BY <1>1, <1>2 DEF M!Enter, Only, SameAt, Domains, TypesFit, M!pool, M!seen, M!Goes, M!Wrote
<1> USE DEF Only, Confirms, Moves, Ends, Begins, StateStays, WorkerStays, M!Exists, M!InPhase, M!Done, TypesFit
<1>7. TypesFit(u)'
  BY <1>1, <1>2, <1>3, <1>4, <1>5, <1>6 DEF Jobs, M!States, M!Receipts, LocalFits, PatchFits, WorkerFits
<1>8. PatchFits(u)' BY <1>1, <1>2, <1>3, <1>4, <1>5, <1>6 DEF PatchFits, LocalFits
<1>9. LocalFits(u)'
  BY <1>1, <1>2, <1>3, <1>4, <1>5, <1>6 DEF LocalFits, PublishingFits, M!Publishing, PatchFits, M!Workable,
      WorkerFits, Jobs, M!States
<1>10. WorkerFits(u)' BY <1>1, <1>2, <1>3, <1>4, <1>5, <1>6 DEF WorkerFits, LocalFits, PatchFits, M!Workable, M!Stages
<1>11. PublishingFits(u)' BY <1>1, <1>2, <1>3, <1>4, <1>5, <1>6 DEF PublishingFits, M!Publishing
<1>12. CancelFits(u)'
  BY <1>1, <1>2, <1>3, <1>4, <1>5, <1>6 DEF CancelFits, LocalFits, StillToCome, PublishingFits, M!Publishing
<1>13. StillToCome(u)' BY <1>1, <1>2, <1>3, <1>4, <1>5, <1>6 DEF StillToCome, PatchFits, M!Created
<1>14. KeptFits(u)'
  BY <1>1, <1>2, <1>3, <1>4, <1>5, <1>6 DEF KeptFits, PatchFits, CancelFits, PublishingFits, LocalFits
<1> QED
  <2>1. UploadFits(u)' BY <1>7, <1>8, <1>9, <1>10, <1>11, <1>12, <1>13, <1>14 DEF UploadFits
  <2> QED BY <1>1, <1>2, <1>3, <1>4, <1>5, <1>6, <2>1, Settles

LEMMA ProbeSettles ==
  ASSUME UploadsInv, NEW u \in M!Uploads, M!Probe(u)
  PROVE  UploadsInv'
<1> USE UploadConstants
<1>1. /\ TypesFit(u) /\ PatchFits(u) /\ LocalFits(u) /\ WorkerFits(u) /\ PublishingFits(u) /\ CancelFits(u)
      /\ StillToCome(u) /\ KeptFits(u) /\ Domains /\ files \subseteq Contents \cap metas
  BY DEF UploadsInv, UploadFits
<1>2. worker[u].at = "probe"
  BY <1>1, Workers DEF M!Probe, M!Exists, M!InPhase, M!Locked, M!Alive, M!Publishing, M!MayClean, TypesFit
<1>3. Moves(u, "publish")
  BY <1>1, <1>2 DEF M!Probe, M!pool, M!seen, Domains, TypesFit, M!Goes, Moves, Jobs
<1>4. UNCHANGED <<upload, data, object, receipt, patch, acked, canceled, deleting, dropped, made, files, metas>>
  BY DEF M!Probe, M!pool, M!seen
<1>5. Only(u)
  BY <1>1, <1>2 DEF M!Probe, Only, SameAt, Domains, TypesFit, M!pool, M!seen, M!Goes
<1> USE DEF Only, Confirms, Moves, Ends, Begins, StateStays, WorkerStays, M!Exists, M!InPhase, M!Done, TypesFit
<1>6. TypesFit(u)' BY <1>1, <1>2, <1>3, <1>4, <1>5 DEF Jobs, M!States, M!Receipts, LocalFits, PatchFits, WorkerFits
<1>7. PatchFits(u)' BY <1>1, <1>2, <1>3, <1>4, <1>5 DEF PatchFits, LocalFits
<1>8. LocalFits(u)'
  BY <1>1, <1>2, <1>3, <1>4, <1>5 DEF LocalFits, PublishingFits, M!Publishing, PatchFits, M!Workable, WorkerFits,
      Jobs, M!States
<1>9. WorkerFits(u)' BY <1>1, <1>2, <1>3, <1>4, <1>5 DEF WorkerFits, LocalFits, PatchFits, M!Workable, M!Stages
<1>10. PublishingFits(u)' BY <1>1, <1>2, <1>3, <1>4, <1>5 DEF PublishingFits, M!Publishing
<1>11. CancelFits(u)'
  BY <1>1, <1>2, <1>3, <1>4, <1>5 DEF CancelFits, LocalFits, StillToCome, PublishingFits, M!Publishing
<1>12. StillToCome(u)' BY <1>1, <1>2, <1>3, <1>4, <1>5 DEF StillToCome, PatchFits, M!Created
<1>13. KeptFits(u)' BY <1>1, <1>2, <1>3, <1>4, <1>5 DEF KeptFits, PatchFits, CancelFits, PublishingFits, LocalFits
<1> QED
  <2>1. UploadFits(u)' BY <1>6, <1>7, <1>8, <1>9, <1>10, <1>11, <1>12, <1>13 DEF UploadFits
  <2> QED BY <1>1, <1>2, <1>3, <1>4, <1>5, <2>1, Settles

LEMMA OpenDownloadSettles ==
  ASSUME UploadsInv, NEW u \in M!Uploads, M!OpenDownload(u)
  PROVE  UploadsInv'
<1> USE UploadConstants
<1>1. /\ TypesFit(u) /\ PatchFits(u) /\ LocalFits(u) /\ WorkerFits(u) /\ PublishingFits(u) /\ CancelFits(u)
      /\ StillToCome(u) /\ KeptFits(u) /\ Domains /\ files \subseteq Contents \cap metas
  BY DEF UploadsInv, UploadFits
<1>2. worker[u].at = "open" /\ upload[u] # Nobody
  BY <1>1, Workers DEF M!OpenDownload, M!Exists, M!InPhase, M!Locked, M!Alive, M!Publishing, M!MayClean, TypesFit
<1>3. \E n \in {0, upload[u].received} :
       /\ data'[u] = n /\ Confirms(u, n, upload[u].phase)
       /\ worker'[u] \in Jobs /\ worker'[u].at = "read" /\ worker'[u].got = n /\ worker'[u].hashed = n
  <2>1. PICK n \in {0, upload[u].received} :
          /\ data' = [data EXCEPT ![u] = n]
          /\ upload' = [upload EXCEPT ![u] = [upload[u] EXCEPT !.received = n, !.reserved = TRUE]]
          /\ worker' = [worker EXCEPT ![u] = [worker[u] EXCEPT !.at = "read", !.got = n, !.hashed = n]]
    BY DEF M!OpenDownload, M!Wrote, M!Grown
  <2>2. upload[u] \in M!States /\ worker[u] \in Jobs /\ n \in 0..Pieces
    BY <1>1, <1>2 DEF TypesFit, M!States
  <2>3. data'[u] = n /\ Confirms(u, n, upload[u].phase)
    BY <1>1, <2>1, <2>2 DEF Domains, Confirms, M!States
  <2>4. worker'[u] \in Jobs /\ worker'[u].at = "read" /\ worker'[u].got = n /\ worker'[u].hashed = n
    BY <1>1, <2>1, <2>2 DEF Domains, Jobs
  <2> QED BY <2>3, <2>4
<1>4. UNCHANGED <<object, receipt, patch, acked, canceled, deleting, dropped, made, files, metas>>
  BY DEF M!OpenDownload, M!pool, M!seen
<1>5. Only(u)
  BY <1>1, <1>2 DEF M!OpenDownload, Only, SameAt, Domains, TypesFit, M!pool, M!seen, M!Grown, M!Wrote
<1> USE DEF Only, Confirms, Moves, Ends, Begins, StateStays, WorkerStays, M!Exists, M!InPhase, M!Done, TypesFit
<1>6. TypesFit(u)' BY <1>1, <1>2, <1>3, <1>4, <1>5 DEF Jobs, M!States, M!Receipts, LocalFits, PatchFits, WorkerFits
<1>7. PatchFits(u)' BY <1>1, <1>2, <1>3, <1>4, <1>5 DEF PatchFits, LocalFits
<1>8. LocalFits(u)'
  BY <1>1, <1>2, <1>3, <1>4, <1>5 DEF LocalFits, PublishingFits, M!Publishing, PatchFits, M!Workable, WorkerFits,
      Jobs, M!States
<1>9. WorkerFits(u)' BY <1>1, <1>2, <1>3, <1>4, <1>5 DEF WorkerFits, LocalFits, PatchFits, M!Workable, M!Stages
<1>10. PublishingFits(u)' BY <1>1, <1>2, <1>3, <1>4, <1>5 DEF PublishingFits, M!Publishing
<1>11. CancelFits(u)'
  BY <1>1, <1>2, <1>3, <1>4, <1>5 DEF CancelFits, LocalFits, StillToCome, PublishingFits, M!Publishing
<1>12. StillToCome(u)' BY <1>1, <1>2, <1>3, <1>4, <1>5 DEF StillToCome, PatchFits, M!Created
<1>13. KeptFits(u)' BY <1>1, <1>2, <1>3, <1>4, <1>5 DEF KeptFits, PatchFits, CancelFits, PublishingFits, LocalFits
<1> QED
  <2>1. UploadFits(u)' BY <1>6, <1>7, <1>8, <1>9, <1>10, <1>11, <1>12, <1>13 DEF UploadFits
  <2> QED BY <1>1, <1>2, <1>3, <1>4, <1>5, <2>1, Settles

LEMMA ReadSettles ==
  ASSUME UploadsInv, NEW u \in M!Uploads, M!Read(u)
  PROVE  UploadsInv'
<1> USE UploadConstants
<1>1. /\ TypesFit(u) /\ PatchFits(u) /\ LocalFits(u) /\ WorkerFits(u) /\ PublishingFits(u) /\ CancelFits(u)
      /\ StillToCome(u) /\ KeptFits(u) /\ Domains /\ files \subseteq Contents \cap metas
  BY DEF UploadsInv, UploadFits
<1>2. worker[u].at = "read" /\ upload[u] # Nobody /\ worker[u].got < Pieces
  BY <1>1, Workers DEF M!Read, M!Exists, M!InPhase, M!Locked, M!Alive, M!Publishing, M!MayClean, TypesFit
<1>3. /\ data'[u] = worker[u].got + 1 /\ worker'[u] \in Jobs /\ worker'[u].at = "read"
      /\ worker'[u].got = worker[u].got + 1 /\ worker'[u].hashed = worker[u].got + 1
  <2>1. worker[u] \in Jobs /\ worker[u].hashed = worker[u].got /\ worker[u].got + 1 \in 0..Pieces
    BY <1>1, <1>2 DEF TypesFit, WorkerFits, M!Exists, Jobs
  <2>2. PICK n \in 0..Pieces : n = worker[u].got + 1 /\ worker'[u] = [worker[u] EXCEPT !.got = n,
      !.hashed = n] /\ data'[u] = n
    BY <1>1, <2>1 DEF M!Read, M!Grown, Domains
  <2>3. worker'[u] \in Jobs /\ worker'[u].at = "read" /\ worker'[u].got = n /\ worker'[u].hashed = n
    BY <1>2, <2>1, <2>2 DEF Jobs
  <2> QED BY <2>2, <2>3
<1>4. StateStays(u) \/ (kind[u] = "drive" /\ Confirms(u, worker[u].got + 1, upload[u].phase))
  <2>1. StateStays(u) \/ (kind[u] = "drive" /\ upload'[u] = [upload[u] EXCEPT !.received = worker[u].got + 1])
    BY <1>1, <1>2 DEF M!Read, M!InPhase, M!Exists, Domains, TypesFit, M!pool, M!seen, M!Wrote, StateStays
  <2>2. upload[u] \in M!States /\ worker[u] \in Jobs
    BY <1>1, <1>2 DEF TypesFit
  <2>3. CASE StateStays(u) BY <2>3
  <2>4. CASE (kind[u] = "drive" /\ upload'[u] = [upload[u] EXCEPT !.received = worker[u].got + 1])
    BY <1>2, <2>2, <2>4 DEF Confirms, M!States, M!Stages, Jobs
  <2> QED BY <2>1, <2>3, <2>4
<1>5. UNCHANGED <<object, receipt, patch, acked, canceled, deleting, dropped, made, files, metas>>
  BY DEF M!Read, M!pool, M!seen
<1>6. Only(u)
  BY <1>1, <1>2 DEF M!Read, Only, SameAt, Domains, TypesFit, M!pool, M!seen, M!Grown, M!Wrote
<1> USE DEF Only, Confirms, Moves, Ends, Begins, StateStays, WorkerStays, M!Exists, M!InPhase, M!Done, TypesFit
<1>7. TypesFit(u)'
  BY <1>1, <1>2, <1>3, <1>4, <1>5, <1>6 DEF Jobs, M!States, M!Receipts, LocalFits, PatchFits, WorkerFits
<1>8. PatchFits(u)' BY <1>1, <1>2, <1>3, <1>4, <1>5, <1>6 DEF PatchFits, LocalFits
<1>9. LocalFits(u)'
  BY <1>1, <1>2, <1>3, <1>4, <1>5, <1>6 DEF LocalFits, PublishingFits, M!Publishing, PatchFits, M!Workable,
      WorkerFits, Jobs, M!States
<1>10. WorkerFits(u)' BY <1>1, <1>2, <1>3, <1>4, <1>5, <1>6 DEF WorkerFits, LocalFits, PatchFits, M!Workable, M!Stages
<1>11. PublishingFits(u)' BY <1>1, <1>2, <1>3, <1>4, <1>5, <1>6 DEF PublishingFits, M!Publishing
<1>12. CancelFits(u)'
  BY <1>1, <1>2, <1>3, <1>4, <1>5, <1>6 DEF CancelFits, LocalFits, StillToCome, PublishingFits, M!Publishing
<1>13. StillToCome(u)' BY <1>1, <1>2, <1>3, <1>4, <1>5, <1>6 DEF StillToCome, PatchFits, M!Created
<1>14. KeptFits(u)'
  BY <1>1, <1>2, <1>3, <1>4, <1>5, <1>6 DEF KeptFits, PatchFits, CancelFits, PublishingFits, LocalFits
<1> QED
  <2>1. UploadFits(u)' BY <1>7, <1>8, <1>9, <1>10, <1>11, <1>12, <1>13, <1>14 DEF UploadFits
  <2> QED BY <1>1, <1>2, <1>3, <1>4, <1>5, <1>6, <2>1, Settles

LEMMA EndDownloadSettles ==
  ASSUME UploadsInv, NEW u \in M!Uploads, M!EndDownload(u)
  PROVE  UploadsInv'
<1> USE UploadConstants
<1>1. /\ TypesFit(u) /\ PatchFits(u) /\ LocalFits(u) /\ WorkerFits(u) /\ PublishingFits(u) /\ CancelFits(u)
      /\ StillToCome(u) /\ KeptFits(u) /\ Domains /\ files \subseteq Contents \cap metas
  BY DEF UploadsInv, UploadFits
<1>2. worker[u].at = "read" /\ upload[u] # Nobody /\ worker[u].got = Pieces
  BY <1>1, Workers DEF M!EndDownload, M!Exists, M!InPhase, M!Locked, M!Alive, M!Publishing, M!MayClean, TypesFit
<1>3. /\ worker'[u] \in Jobs /\ worker'[u].at = "wait" /\ worker'[u].stage = "validation"
      /\ worker'[u].hashed = worker[u].hashed
  BY <1>1, <1>2 DEF M!EndDownload, M!pool, M!seen, Domains, TypesFit, Jobs, M!Stages
<1>4. StateStays(u) \/ Confirms(u, Pieces, upload[u].phase)
  <2>1. StateStays(u) \/ upload'[u] = [upload[u] EXCEPT !.received = Pieces, !.stage = "validation"]
    BY <1>1, <1>2 DEF M!EndDownload, M!InPhase, M!Exists, Domains, TypesFit, M!pool, M!seen, M!Wrote, StateStays
  <2>2. upload[u] \in M!States /\ worker[u] \in Jobs
    BY <1>1, <1>2 DEF TypesFit
  <2>3. CASE StateStays(u) BY <2>3
  <2>4. CASE upload'[u] = [upload[u] EXCEPT !.received = Pieces, !.stage = "validation"]
    BY <1>2, <2>2, <2>4, ZenonT(60) DEF Confirms, M!States, M!Stages, Jobs
  <2> QED BY <2>1, <2>3, <2>4
<1>5. UNCHANGED <<data, object, receipt, patch, acked, canceled, deleting, dropped, made, files, metas>>
  BY DEF M!EndDownload, M!pool, M!seen
<1>6. Only(u)
  BY <1>1, <1>2 DEF M!EndDownload, Only, SameAt, Domains, TypesFit, M!pool, M!seen, M!Wrote
<1> USE DEF Only, Confirms, Moves, Ends, Begins, StateStays, WorkerStays, M!Exists, M!InPhase, M!Done, TypesFit
<1>7. TypesFit(u)'
  BY <1>1, <1>2, <1>3, <1>4, <1>5, <1>6 DEF Jobs, M!States, M!Receipts, LocalFits, PatchFits, WorkerFits
<1>8. PatchFits(u)' BY <1>1, <1>2, <1>3, <1>4, <1>5, <1>6 DEF PatchFits, LocalFits
<1>9. LocalFits(u)'
  BY <1>1, <1>2, <1>3, <1>4, <1>5, <1>6 DEF LocalFits, PublishingFits, M!Publishing, PatchFits, M!Workable,
      WorkerFits, Jobs, M!States
<1>10. WorkerFits(u)' BY <1>1, <1>2, <1>3, <1>4, <1>5, <1>6 DEF WorkerFits, LocalFits, PatchFits, M!Workable, M!Stages
<1>11. PublishingFits(u)' BY <1>1, <1>2, <1>3, <1>4, <1>5, <1>6 DEF PublishingFits, M!Publishing
<1>12. CancelFits(u)'
  BY <1>1, <1>2, <1>3, <1>4, <1>5, <1>6 DEF CancelFits, LocalFits, StillToCome, PublishingFits, M!Publishing
<1>13. StillToCome(u)' BY <1>1, <1>2, <1>3, <1>4, <1>5, <1>6 DEF StillToCome, PatchFits, M!Created
<1>14. KeptFits(u)'
  BY <1>1, <1>2, <1>3, <1>4, <1>5, <1>6 DEF KeptFits, PatchFits, CancelFits, PublishingFits, LocalFits
<1> QED
  <2>1. UploadFits(u)' BY <1>7, <1>8, <1>9, <1>10, <1>11, <1>12, <1>13, <1>14 DEF UploadFits
  <2> QED BY <1>1, <1>2, <1>3, <1>4, <1>5, <1>6, <2>1, Settles

LEMMA UnreadableSettles ==
  ASSUME UploadsInv, NEW u \in M!Uploads, M!Unreadable(u)
  PROVE  UploadsInv'
<1> USE UploadConstants
<1>1. /\ TypesFit(u) /\ PatchFits(u) /\ LocalFits(u) /\ WorkerFits(u) /\ PublishingFits(u) /\ CancelFits(u)
      /\ StillToCome(u) /\ KeptFits(u) /\ Domains /\ files \subseteq Contents \cap metas
  BY DEF UploadsInv, UploadFits
<1>2. worker[u].at = "probe" /\ kind[u] = "local"
  BY <1>1, Workers DEF M!Unreadable, M!Exists, M!InPhase, M!Locked, M!Alive, M!Publishing, M!MayClean, TypesFit
<1>3. upload'[u] = Nobody /\ data'[u] = 0 /\ u \in dropped'
  BY <1>1, <1>2 DEF M!Unreadable, M!pool, M!seen, Domains, TypesFit, M!Discard, M!Wrote, M!Grown
<1>4. Ends(u)
  BY <1>1, <1>2, Workers DEF M!Unreadable, M!pool, M!seen, Domains, TypesFit, M!End, Ends
<1>5. UNCHANGED <<object, receipt, patch, acked, canceled, deleting, made, files, metas>>
  BY DEF M!Unreadable, M!pool, M!seen
<1>6. Only(u)
  BY <1>1, <1>2 DEF M!Unreadable, Only, SameAt, Domains, TypesFit, M!pool, M!seen, M!Discard, M!End, M!Grown, M!Wrote
<1> USE DEF Only, Confirms, Moves, Ends, Begins, StateStays, WorkerStays, M!Exists, M!InPhase, M!Done, TypesFit
<1>7. TypesFit(u)'
  BY <1>1, <1>2, <1>3, <1>4, <1>5, <1>6 DEF Jobs, M!States, M!Receipts, LocalFits, PatchFits, WorkerFits
<1>8. PatchFits(u)' BY <1>1, <1>2, <1>3, <1>4, <1>5, <1>6 DEF PatchFits, LocalFits
<1>9. LocalFits(u)'
  BY <1>1, <1>2, <1>3, <1>4, <1>5, <1>6 DEF LocalFits, PublishingFits, M!Publishing, PatchFits, M!Workable,
      WorkerFits, Jobs, M!States
<1>10. WorkerFits(u)' BY <1>1, <1>2, <1>3, <1>4, <1>5, <1>6 DEF WorkerFits, LocalFits, PatchFits, M!Workable, M!Stages
<1>11. PublishingFits(u)' BY <1>1, <1>2, <1>3, <1>4, <1>5, <1>6 DEF PublishingFits, M!Publishing
<1>12. CancelFits(u)'
  BY <1>1, <1>2, <1>3, <1>4, <1>5, <1>6 DEF CancelFits, LocalFits, StillToCome, PublishingFits, M!Publishing
<1>13. StillToCome(u)' BY <1>1, <1>2, <1>3, <1>4, <1>5, <1>6 DEF StillToCome, PatchFits, M!Created
<1>14. KeptFits(u)'
  BY <1>1, <1>2, <1>3, <1>4, <1>5, <1>6 DEF KeptFits, PatchFits, CancelFits, PublishingFits, LocalFits
<1> QED
  <2>1. UploadFits(u)' BY <1>7, <1>8, <1>9, <1>10, <1>11, <1>12, <1>13, <1>14 DEF UploadFits
  <2> QED BY <1>1, <1>2, <1>3, <1>4, <1>5, <1>6, <2>1, Settles

LEMMA PublishSettles ==
  ASSUME UploadsInv, NEW u \in M!Uploads, M!Publish(u)
  PROVE  UploadsInv'
<1> USE UploadConstants
<1>1. /\ TypesFit(u) /\ PatchFits(u) /\ LocalFits(u) /\ WorkerFits(u) /\ PublishingFits(u) /\ CancelFits(u)
      /\ StillToCome(u) /\ KeptFits(u) /\ Domains /\ files \subseteq Contents \cap metas
  BY DEF UploadsInv, UploadFits
<1>2. worker[u].at = "publish" /\ upload[u] # Nobody /\ upload[u].phase # "canceling"
  BY <1>1, Workers DEF M!Publish, M!Exists, M!InPhase, M!Locked, M!Alive, M!Publishing, M!MayClean, TypesFit
<1>3. /\ worker'[u] \in Jobs /\ worker'[u].at = "register" /\ worker'[u].media = content[u] /\ worker'[u].stage = worker[u].stage
      /\ metas' = metas \cup {content[u]}
  <2>1. M!Media(u) = content[u]
    BY <1>1, <1>2 DEF M!Media, WorkerFits, M!Exists
  <2>2. worker'[u] = [worker[u] EXCEPT !.at = "register", !.media = content[u]] /\ metas' = metas \cup {content[u]}
    BY <1>1, <2>1 DEF M!Publish, Domains
  <2>3. worker[u] \in Jobs /\ content[u] \in Contents
    BY <1>1 DEF TypesFit
  <2> QED BY <2>2, <2>3 DEF Jobs, M!Publishing
<1>4. UNCHANGED <<upload, data, object, receipt, patch, acked, canceled, deleting, dropped, made, files>>
  BY DEF M!Publish, M!pool, M!seen
<1>5. Only(u)
  BY <1>1, <1>2 DEF M!Publish, Only, SameAt, Domains, TypesFit, M!pool, M!seen
<1> USE DEF Only, Confirms, Moves, Ends, Begins, StateStays, WorkerStays, M!Exists, M!InPhase, M!Done, TypesFit
<1>6. TypesFit(u)' BY <1>1, <1>2, <1>3, <1>4, <1>5 DEF Jobs, M!States, M!Receipts, LocalFits, PatchFits, WorkerFits
<1>7. PatchFits(u)' BY <1>1, <1>2, <1>3, <1>4, <1>5 DEF PatchFits, LocalFits
<1>8. LocalFits(u)'
  BY <1>1, <1>2, <1>3, <1>4, <1>5 DEF LocalFits, PublishingFits, M!Publishing, PatchFits, M!Workable, WorkerFits,
      Jobs, M!States
<1>9. WorkerFits(u)' BY <1>1, <1>2, <1>3, <1>4, <1>5 DEF WorkerFits, LocalFits, PatchFits, M!Workable, M!Stages
<1>10. PublishingFits(u)' BY <1>1, <1>2, <1>3, <1>4, <1>5 DEF PublishingFits, M!Publishing
<1>11. CancelFits(u)'
  BY <1>1, <1>2, <1>3, <1>4, <1>5 DEF CancelFits, LocalFits, StillToCome, PublishingFits, M!Publishing
<1>12. StillToCome(u)' BY <1>1, <1>2, <1>3, <1>4, <1>5 DEF StillToCome, PatchFits, M!Created
<1>13. KeptFits(u)' BY <1>1, <1>2, <1>3, <1>4, <1>5 DEF KeptFits, PatchFits, CancelFits, PublishingFits, LocalFits
<1> QED
  <2>1. UploadFits(u)' BY <1>6, <1>7, <1>8, <1>9, <1>10, <1>11, <1>12, <1>13 DEF UploadFits
  <2> QED BY <1>1, <1>2, <1>3, <1>4, <1>5, <2>1, Settles

LEMMA RegisterSettles ==
  ASSUME UploadsInv, NEW u \in M!Uploads, M!Register(u)
  PROVE  UploadsInv'
<1> USE UploadConstants
<1>1. /\ TypesFit(u) /\ PatchFits(u) /\ LocalFits(u) /\ WorkerFits(u) /\ PublishingFits(u) /\ CancelFits(u)
      /\ StillToCome(u) /\ KeptFits(u) /\ Domains /\ files \subseteq Contents \cap metas
  BY DEF UploadsInv, UploadFits
<1>2. worker[u].at = "register"
  BY <1>1, Workers DEF M!Register, M!Exists, M!InPhase, M!Locked, M!Alive, M!Publishing, M!MayClean, TypesFit
<1>3. (Moves(u, "remove") /\ content[u] \in files) \/ Moves(u, "rename")
  <2>1. worker[u] \in Jobs /\ worker[u].media = content[u]
    BY <1>1, <1>2 DEF TypesFit, PublishingFits, M!Publishing
  <2>2. CASE content[u] \in files
    <3>1. worker'[u] = [worker[u] EXCEPT !.at = "remove"]
      BY <1>1, <2>1, <2>2 DEF M!Register, M!Goes, Domains
    <3> QED BY <2>1, <2>2, <3>1 DEF Moves, Jobs, M!Publishing
  <2>3. CASE content[u] \notin files
    <3>1. worker'[u] = [worker[u] EXCEPT !.at = "rename"]
      BY <1>1, <2>1, <2>3 DEF M!Register, M!Goes, Domains
    <3> QED BY <2>1, <3>1 DEF Moves, Jobs, M!Publishing
  <2> QED BY <2>2, <2>3
<1>4. receipt'[u] \in M!Receipts /\ receipt'[u] # Nobody /\ receipt'[u].media = content[u]
  <2>1. worker[u].media = content[u] /\ content[u] \in Contents
    BY <1>1, <1>2 DEF TypesFit, PublishingFits, M!Publishing
  <2>2. receipt'[u] = [media |-> content[u], remote |-> kind[u] = "r2"]
    BY <1>1, <2>1 DEF M!Register, Domains
  <2>3. receipt'[u] \in M!Receipts /\ receipt'[u].media = content[u]
    BY <2>1, <2>2 DEF M!Receipts
  <2> QED BY <2>3
<1>5. UNCHANGED <<upload, data, object, patch, acked, canceled, deleting, dropped, made, files, metas>>
  BY DEF M!Register, M!pool, M!seen
<1>6. Only(u)
  BY <1>1, <1>2 DEF M!Register, Only, SameAt, Domains, TypesFit, M!pool, M!seen, M!Goes
<1> USE DEF Only, Confirms, Moves, Ends, Begins, StateStays, WorkerStays, M!Exists, M!InPhase, M!Done, TypesFit
<1>7. TypesFit(u)'
  BY <1>1, <1>2, <1>3, <1>4, <1>5, <1>6 DEF Jobs, M!States, M!Receipts, LocalFits, PatchFits, WorkerFits
<1>8. PatchFits(u)' BY <1>1, <1>2, <1>3, <1>4, <1>5, <1>6 DEF PatchFits, LocalFits
<1>9. LocalFits(u)'
  BY <1>1, <1>2, <1>3, <1>4, <1>5, <1>6 DEF LocalFits, PublishingFits, M!Publishing, PatchFits, M!Workable,
      WorkerFits, Jobs, M!States
<1>10. WorkerFits(u)' BY <1>1, <1>2, <1>3, <1>4, <1>5, <1>6 DEF WorkerFits, LocalFits, PatchFits, M!Workable, M!Stages
<1>11. PublishingFits(u)' BY <1>1, <1>2, <1>3, <1>4, <1>5, <1>6 DEF PublishingFits, M!Publishing
<1>12. CancelFits(u)'
  BY <1>1, <1>2, <1>3, <1>4, <1>5, <1>6 DEF CancelFits, LocalFits, StillToCome, PublishingFits, M!Publishing
<1>13. StillToCome(u)' BY <1>1, <1>2, <1>3, <1>4, <1>5, <1>6 DEF StillToCome, PatchFits, M!Created
<1>14. KeptFits(u)'
  BY <1>1, <1>2, <1>3, <1>4, <1>5, <1>6 DEF KeptFits, PatchFits, CancelFits, PublishingFits, LocalFits
<1> QED
  <2>1. UploadFits(u)' BY <1>7, <1>8, <1>9, <1>10, <1>11, <1>12, <1>13, <1>14 DEF UploadFits
  <2> QED BY <1>1, <1>2, <1>3, <1>4, <1>5, <1>6, <2>1, Settles

LEMMA RenameSettles ==
  ASSUME UploadsInv, NEW u \in M!Uploads, M!Rename(u)
  PROVE  UploadsInv'
<1> USE UploadConstants
<1>1. /\ TypesFit(u) /\ PatchFits(u) /\ LocalFits(u) /\ WorkerFits(u) /\ PublishingFits(u) /\ CancelFits(u)
      /\ StillToCome(u) /\ KeptFits(u) /\ Domains /\ files \subseteq Contents \cap metas
  BY DEF UploadsInv, UploadFits
<1>2. worker[u].at = "rename"
  BY <1>1, Workers DEF M!Rename, M!Exists, M!InPhase, M!Locked, M!Alive, M!Publishing, M!MayClean, TypesFit
<1>3. Moves(u, "remove") /\ data'[u] = 0 /\ files' = files \cup {content[u]}
  <2>1. worker[u] \in Jobs /\ worker[u].media = content[u]
    BY <1>1, <1>2 DEF TypesFit, PublishingFits, M!Publishing
  <2>2. worker'[u] = [worker[u] EXCEPT !.at = "remove"] /\ data'[u] = 0 /\ files' = files \cup {content[u]}
    BY <1>1, <2>1 DEF M!Rename, M!Goes, M!Grown, Domains
  <2> QED BY <2>1, <2>2 DEF Moves, Jobs, M!Publishing
<1>4. UNCHANGED <<upload, object, receipt, patch, acked, canceled, deleting, dropped, made, metas>>
  BY DEF M!Rename, M!pool, M!seen
<1>5. Only(u)
  BY <1>1, <1>2 DEF M!Rename, Only, SameAt, Domains, TypesFit, M!pool, M!seen, M!Goes, M!Grown
<1> USE DEF Only, Confirms, Moves, Ends, Begins, StateStays, WorkerStays, M!Exists, M!InPhase, M!Done, TypesFit
<1>6. TypesFit(u)' BY <1>1, <1>2, <1>3, <1>4, <1>5 DEF Jobs, M!States, M!Receipts, LocalFits, PatchFits, WorkerFits
<1>7. PatchFits(u)' BY <1>1, <1>2, <1>3, <1>4, <1>5 DEF PatchFits, LocalFits
<1>8. LocalFits(u)'
  BY <1>1, <1>2, <1>3, <1>4, <1>5 DEF LocalFits, PublishingFits, M!Publishing, PatchFits, M!Workable, WorkerFits,
      Jobs, M!States
<1>9. WorkerFits(u)' BY <1>1, <1>2, <1>3, <1>4, <1>5 DEF WorkerFits, LocalFits, PatchFits, M!Workable, M!Stages
<1>10. PublishingFits(u)' BY <1>1, <1>2, <1>3, <1>4, <1>5 DEF PublishingFits, M!Publishing
<1>11. CancelFits(u)'
  BY <1>1, <1>2, <1>3, <1>4, <1>5 DEF CancelFits, LocalFits, StillToCome, PublishingFits, M!Publishing
<1>12. StillToCome(u)' BY <1>1, <1>2, <1>3, <1>4, <1>5 DEF StillToCome, PatchFits, M!Created
<1>13. KeptFits(u)' BY <1>1, <1>2, <1>3, <1>4, <1>5 DEF KeptFits, PatchFits, CancelFits, PublishingFits, LocalFits
<1>14. files' \subseteq Contents \cap metas'
  BY <1>1, <1>2, <1>3, <1>4 DEF TypesFit, PublishingFits, M!Publishing
<1> QED
  <2>1. UploadFits(u)' BY <1>6, <1>7, <1>8, <1>9, <1>10, <1>11, <1>12, <1>13 DEF UploadFits
  <2> QED BY <1>1, <1>2, <1>3, <1>4, <1>14, <1>5, <2>1, Settles

LEMMA RemoveUploadSettles ==
  ASSUME UploadsInv, NEW u \in M!Uploads, M!RemoveUpload(u)
  PROVE  UploadsInv'
<1> USE UploadConstants
<1>1. /\ TypesFit(u) /\ PatchFits(u) /\ LocalFits(u) /\ WorkerFits(u) /\ PublishingFits(u) /\ CancelFits(u)
      /\ StillToCome(u) /\ KeptFits(u) /\ Domains /\ files \subseteq Contents \cap metas
  BY DEF UploadsInv, UploadFits
<1>2. worker[u].at = "remove"
  BY <1>1, Workers DEF M!RemoveUpload, M!Exists, M!InPhase, M!Locked, M!Alive, M!Publishing, M!MayClean, TypesFit
<1>3. upload'[u] = Nobody /\ data'[u] = 0
  BY <1>1, <1>2 DEF M!RemoveUpload, M!pool, M!seen, Domains, TypesFit, M!Discard, M!Wrote, M!Grown
<1>4. Ends(u)
  BY <1>1, <1>2, Workers DEF M!RemoveUpload, M!pool, M!seen, Domains, TypesFit, M!End, Ends
<1>5. UNCHANGED <<object, receipt, patch, acked, canceled, deleting, dropped, made, files, metas>>
  BY DEF M!RemoveUpload, M!pool, M!seen
<1>6. Only(u)
  BY <1>1, <1>2 DEF M!RemoveUpload, Only, SameAt, Domains, TypesFit, M!pool, M!seen, M!Discard, M!End, M!Grown,
      M!Wrote
<1> USE DEF Only, Confirms, Moves, Ends, Begins, StateStays, WorkerStays, M!Exists, M!InPhase, M!Done, TypesFit
<1>7. TypesFit(u)'
  BY <1>1, <1>2, <1>3, <1>4, <1>5, <1>6 DEF Jobs, M!States, M!Receipts, LocalFits, PatchFits, WorkerFits
<1>8. PatchFits(u)' BY <1>1, <1>2, <1>3, <1>4, <1>5, <1>6 DEF PatchFits, LocalFits
<1>9. LocalFits(u)'
  BY <1>1, <1>2, <1>3, <1>4, <1>5, <1>6 DEF LocalFits, PublishingFits, M!Publishing, PatchFits, M!Workable,
      WorkerFits, Jobs, M!States
<1>10. WorkerFits(u)' BY <1>1, <1>2, <1>3, <1>4, <1>5, <1>6 DEF WorkerFits, LocalFits, PatchFits, M!Workable, M!Stages
<1>11. PublishingFits(u)' BY <1>1, <1>2, <1>3, <1>4, <1>5, <1>6 DEF PublishingFits, M!Publishing
<1>12. CancelFits(u)'
  BY <1>1, <1>2, <1>3, <1>4, <1>5, <1>6 DEF CancelFits, LocalFits, StillToCome, PublishingFits, M!Publishing
<1>13. StillToCome(u)' BY <1>1, <1>2, <1>3, <1>4, <1>5, <1>6 DEF StillToCome, PatchFits, M!Created
<1>14. KeptFits(u)'
  BY <1>1, <1>2, <1>3, <1>4, <1>5, <1>6 DEF KeptFits, PatchFits, CancelFits, PublishingFits, LocalFits
<1> QED
  <2>1. UploadFits(u)' BY <1>7, <1>8, <1>9, <1>10, <1>11, <1>12, <1>13, <1>14 DEF UploadFits
  <2> QED BY <1>1, <1>2, <1>3, <1>4, <1>5, <1>6, <2>1, Settles

LEMMA ExpireSettles ==
  ASSUME UploadsInv, NEW u \in M!Uploads, M!Expire(u)
  PROVE  UploadsInv'
<1> USE UploadConstants
<1>1. /\ TypesFit(u) /\ PatchFits(u) /\ LocalFits(u) /\ WorkerFits(u) /\ PublishingFits(u) /\ CancelFits(u)
      /\ StillToCome(u) /\ KeptFits(u) /\ Domains /\ files \subseteq Contents \cap metas
  BY DEF UploadsInv, UploadFits
<1>2. upload[u] # Nobody /\ patch[u] = Nobody
  BY <1>1, Workers DEF M!Expire, M!Exists, M!InPhase, M!Locked, M!Alive, M!Publishing, M!MayClean, TypesFit
<1>3. upload'[u] = Nobody /\ data'[u] = 0 /\ u \in dropped'
  BY <1>1, <1>2 DEF M!Expire, M!pool, M!seen, Domains, TypesFit, M!Discard, M!Wrote, M!Grown
<1>4. Moves(u, worker[u].at)
  BY <1>1, <1>2, ZenonT(60) DEF M!Expire, M!pool, M!seen, Domains, TypesFit, M!Abort, Moves, Jobs
<1>5. object'[u] \in {object[u], "gone"}
  BY <1>1, <1>2 DEF M!Expire, M!pool, M!seen, Domains, TypesFit
<1>6. UNCHANGED <<receipt, patch, acked, canceled, deleting, made, files, metas>>
  BY DEF M!Expire, M!pool, M!seen
<1>7. Only(u)
  BY <1>1, <1>2 DEF M!Expire, Only, SameAt, Domains, TypesFit, M!pool, M!seen, M!Abort, M!Discard, M!Grown, M!Wrote
<1> USE DEF Only, Confirms, Moves, Ends, Begins, StateStays, WorkerStays, M!Exists, M!InPhase, M!Done, TypesFit
<1>8. TypesFit(u)'
  BY <1>1, <1>2, <1>3, <1>4, <1>5, <1>6, <1>7 DEF Jobs, M!States, M!Receipts, LocalFits, PatchFits, WorkerFits
<1>9. PatchFits(u)' BY <1>1, <1>2, <1>3, <1>4, <1>5, <1>6, <1>7 DEF PatchFits, LocalFits
<1>10. LocalFits(u)'
  BY <1>1, <1>2, <1>3, <1>4, <1>5, <1>6, <1>7 DEF LocalFits, PublishingFits, M!Publishing, PatchFits, M!Workable,
      WorkerFits, Jobs, M!States
<1>11. WorkerFits(u)'
  BY <1>1, <1>2, <1>3, <1>4, <1>5, <1>6, <1>7 DEF WorkerFits, LocalFits, PatchFits, M!Workable, M!Stages
<1>12. PublishingFits(u)' BY <1>1, <1>2, <1>3, <1>4, <1>5, <1>6, <1>7 DEF PublishingFits, M!Publishing
<1>13. CancelFits(u)'
  BY <1>1, <1>2, <1>3, <1>4, <1>5, <1>6, <1>7 DEF CancelFits, LocalFits, StillToCome, PublishingFits, M!Publishing
<1>14. StillToCome(u)' BY <1>1, <1>2, <1>3, <1>4, <1>5, <1>6, <1>7 DEF StillToCome, PatchFits, M!Created
<1>15. KeptFits(u)'
  BY <1>1, <1>2, <1>3, <1>4, <1>5, <1>6, <1>7 DEF KeptFits, PatchFits, CancelFits, PublishingFits, LocalFits
<1> QED
  <2>1. UploadFits(u)' BY <1>8, <1>9, <1>10, <1>11, <1>12, <1>13, <1>14, <1>15 DEF UploadFits
  <2> QED BY <1>1, <1>2, <1>3, <1>4, <1>5, <1>6, <1>7, <2>1, Settles

LEMMA CleanRemoteSettles ==
  ASSUME UploadsInv, NEW u \in M!Uploads, M!CleanRemote(u)
  PROVE  UploadsInv'
<1> USE UploadConstants
<1>1. /\ TypesFit(u) /\ PatchFits(u) /\ LocalFits(u) /\ WorkerFits(u) /\ PublishingFits(u) /\ CancelFits(u)
      /\ StillToCome(u) /\ KeptFits(u) /\ Domains /\ files \subseteq Contents \cap metas
  BY DEF UploadsInv, UploadFits
<1>2. M!Done(u)
  BY <1>1, Workers DEF M!CleanRemote, M!Exists, M!InPhase, M!Locked, M!Alive, M!Publishing, M!MayClean, TypesFit
<1>3. object'[u] = "gone"
  BY <1>1, <1>2 DEF M!CleanRemote, M!pool, M!seen, Domains, TypesFit
<1>4. receipt'[u] \in M!Receipts /\ receipt'[u] # Nobody /\ receipt'[u].media = receipt[u].media
  BY <1>1, <1>2 DEF M!CleanRemote, M!pool, M!seen, Domains, TypesFit, M!Receipts, M!Done
<1>5. UNCHANGED <<upload, data, worker, patch, acked, canceled, deleting, dropped, made, files, metas>>
  BY DEF M!CleanRemote, M!pool, M!seen
<1>6. Only(u)
  BY <1>1, <1>2 DEF M!CleanRemote, Only, SameAt, Domains, TypesFit, M!pool, M!seen
<1> USE DEF Only, Confirms, Moves, Ends, Begins, StateStays, WorkerStays, M!Exists, M!InPhase, M!Done, TypesFit
<1>7. TypesFit(u)'
  BY <1>1, <1>2, <1>3, <1>4, <1>5, <1>6 DEF Jobs, M!States, M!Receipts, LocalFits, PatchFits, WorkerFits
<1>8. PatchFits(u)' BY <1>1, <1>2, <1>3, <1>4, <1>5, <1>6 DEF PatchFits, LocalFits
<1>9. LocalFits(u)'
  BY <1>1, <1>2, <1>3, <1>4, <1>5, <1>6 DEF LocalFits, PublishingFits, M!Publishing, PatchFits, M!Workable,
      WorkerFits, Jobs, M!States
<1>10. WorkerFits(u)' BY <1>1, <1>2, <1>3, <1>4, <1>5, <1>6 DEF WorkerFits, LocalFits, PatchFits, M!Workable, M!Stages
<1>11. PublishingFits(u)' BY <1>1, <1>2, <1>3, <1>4, <1>5, <1>6 DEF PublishingFits, M!Publishing
<1>12. CancelFits(u)'
  BY <1>1, <1>2, <1>3, <1>4, <1>5, <1>6 DEF CancelFits, LocalFits, StillToCome, PublishingFits, M!Publishing
<1>13. StillToCome(u)' BY <1>1, <1>2, <1>3, <1>4, <1>5, <1>6 DEF StillToCome, PatchFits, M!Created
<1>14. KeptFits(u)'
  BY <1>1, <1>2, <1>3, <1>4, <1>5, <1>6 DEF KeptFits, PatchFits, CancelFits, PublishingFits, LocalFits
<1> QED
  <2>1. UploadFits(u)' BY <1>7, <1>8, <1>9, <1>10, <1>11, <1>12, <1>13, <1>14 DEF UploadFits
  <2> QED BY <1>1, <1>2, <1>3, <1>4, <1>5, <1>6, <2>1, Settles

LEMMA FinishCancelSettles ==
  ASSUME UploadsInv, NEW u \in M!Uploads, M!FinishCancel(u)
  PROVE  UploadsInv'
<1> USE UploadConstants
<1>1. /\ TypesFit(u) /\ PatchFits(u) /\ LocalFits(u) /\ WorkerFits(u) /\ PublishingFits(u) /\ CancelFits(u)
      /\ StillToCome(u) /\ KeptFits(u) /\ Domains /\ files \subseteq Contents \cap metas
  BY DEF UploadsInv, UploadFits
<1>2. upload[u] # Nobody /\ upload[u].phase = "canceling" /\ worker[u].at = "none" /\ patch[u] = Nobody
  BY <1>1, Workers DEF M!FinishCancel, M!Exists, M!InPhase, M!Locked, M!Alive, M!Publishing, M!MayClean, TypesFit
<1>3. \/ upload'[u] = Nobody /\ data'[u] = 0
      \/ kind[u] = "r2" /\ Confirms(u, upload[u].received, "canceling") /\ data'[u] = 0
  <2>1. CASE M!Discard(u)
    BY <1>1, <2>1 DEF M!Discard, M!Wrote, M!Grown, Domains
  <2>2. CASE /\ kind[u] = "r2" /\ M!Wrote(u, [upload[u] EXCEPT !.reserved = FALSE, !.stage = "none"])
             /\ data' = M!Grown(u, 0)
    <3>1. upload'[u] = [upload[u] EXCEPT !.reserved = FALSE, !.stage = "none"] /\ data'[u] = 0
      BY <1>1, <2>2 DEF M!Wrote, M!Grown, Domains
    <3>2. upload[u] \in M!States
      BY <1>1, <1>2 DEF TypesFit
    <3> QED BY <1>2, <2>2, <3>1, <3>2 DEF Confirms, M!States
  <2> QED BY <2>1, <2>2 DEF M!FinishCancel
<1>4. object'[u] \in {object[u], "gone"}
  BY <1>1, <1>2 DEF M!FinishCancel, M!pool, M!seen, Domains, TypesFit
<1>5. UNCHANGED <<receipt, worker, patch, acked, canceled, deleting, dropped, made, files, metas>>
  BY DEF M!FinishCancel, M!pool, M!seen
<1>6. Only(u)
  BY <1>1, <1>2 DEF M!FinishCancel, Only, SameAt, Domains, TypesFit, M!pool, M!seen, M!Discard, M!Grown, M!Wrote
<1> USE DEF Only, Confirms, Moves, Ends, Begins, StateStays, WorkerStays, M!Exists, M!InPhase, M!Done, TypesFit
<1>7. TypesFit(u)'
  BY <1>1, <1>2, <1>3, <1>4, <1>5, <1>6 DEF Jobs, M!States, M!Receipts, LocalFits, PatchFits, WorkerFits
<1>8. PatchFits(u)' BY <1>1, <1>2, <1>3, <1>4, <1>5, <1>6 DEF PatchFits, LocalFits
<1>9. LocalFits(u)'
  BY <1>1, <1>2, <1>3, <1>4, <1>5, <1>6 DEF LocalFits, PublishingFits, M!Publishing, PatchFits, M!Workable,
      WorkerFits, Jobs, M!States
<1>10. WorkerFits(u)' BY <1>1, <1>2, <1>3, <1>4, <1>5, <1>6 DEF WorkerFits, LocalFits, PatchFits, M!Workable, M!Stages
<1>11. PublishingFits(u)' BY <1>1, <1>2, <1>3, <1>4, <1>5, <1>6 DEF PublishingFits, M!Publishing
<1>12. CancelFits(u)'
  BY <1>1, <1>2, <1>3, <1>4, <1>5, <1>6 DEF CancelFits, LocalFits, StillToCome, PublishingFits, M!Publishing
<1>13. StillToCome(u)' BY <1>1, <1>2, <1>3, <1>4, <1>5, <1>6 DEF StillToCome, PatchFits, M!Created
<1>14. KeptFits(u)'
  BY <1>1, <1>2, <1>3, <1>4, <1>5, <1>6 DEF KeptFits, PatchFits, CancelFits, PublishingFits, LocalFits
<1> QED
  <2>1. UploadFits(u)' BY <1>7, <1>8, <1>9, <1>10, <1>11, <1>12, <1>13, <1>14 DEF UploadFits
  <2> QED BY <1>1, <1>2, <1>3, <1>4, <1>5, <1>6, <2>1, Settles

LEMMA DeleteEntersSettles ==
  ASSUME UploadsInv, NEW u \in M!Uploads, M!DeleteEnters(u)
  PROVE  UploadsInv'
<1> USE UploadConstants
<1>1. /\ TypesFit(u) /\ PatchFits(u) /\ LocalFits(u) /\ WorkerFits(u) /\ PublishingFits(u) /\ CancelFits(u)
      /\ StillToCome(u) /\ KeptFits(u) /\ Domains /\ files \subseteq Contents \cap metas
  BY DEF UploadsInv, UploadFits
<1>2. u \in deleting /\ patch[u] = Nobody /\ worker[u].at \notin M!Publishing
  BY <1>1, Workers DEF M!DeleteEnters, M!Exists, M!InPhase, M!Locked, M!Alive, M!Publishing, M!MayClean, TypesFit
<1>3. canceled' = IF M!Done(u) THEN canceled ELSE canceled \cup {u}
  BY <1>1, <1>2 DEF M!DeleteEnters, M!pool, M!seen, Domains, TypesFit, M!Done
<1>4. \/ upload'[u] = Nobody /\ data'[u] = 0 /\ WorkerStays(u)
      \/ kind[u] # "local" /\ data'[u] = data[u] /\ Moves(u, worker[u].at) /\ upload[u] # Nobody
           /\ Confirms(u, upload[u].received, "canceling")
      \/ kind[u] # "local" /\ data'[u] = data[u] /\ WorkerStays(u) /\ StateStays(u) /\ upload[u] = Nobody
  <2>1. CASE kind[u] = "local"
    BY <1>1, <2>1 DEF M!DeleteEnters, M!Discard, M!Wrote, M!Grown, WorkerStays, Domains
  <2>2. CASE kind[u] # "local" /\ upload[u] = Nobody
    BY <2>2 DEF M!DeleteEnters, M!Exists, WorkerStays, StateStays
  <2>3. CASE kind[u] # "local" /\ upload[u] # Nobody
    <3>1. upload'[u] = [upload[u] EXCEPT !.phase = "canceling"] /\ data' = data
          /\ \E b \in BOOLEAN : worker'[u] = [worker[u] EXCEPT !.aborted = b]
      BY <1>1, <2>3 DEF M!DeleteEnters, M!Exists, M!Marked, M!Wrote, M!Abort, Domains
    <3>2. upload[u] \in M!States /\ worker[u] \in Jobs
      BY <1>1, <2>3 DEF TypesFit
    <3>3. Confirms(u, upload[u].received, "canceling")
      BY <3>1, <3>2 DEF Confirms, M!States
    <3>4. Moves(u, worker[u].at)
      BY <3>1, <3>2 DEF Moves, Jobs
    <3> QED BY <2>3, <3>1, <3>3, <3>4
  <2> QED BY <2>1, <2>2, <2>3
<1>5. UNCHANGED <<object, receipt, patch, acked, dropped, made, files, metas>>
  BY DEF M!DeleteEnters, M!pool, M!seen
<1>6. Only(u)
  BY <1>1, <1>2 DEF M!DeleteEnters, Only, SameAt, Domains, TypesFit, M!pool, M!seen, M!Abort, M!Discard, M!Grown,
      M!Marked, M!Wrote
<1> USE DEF Only, Confirms, Moves, Ends, Begins, StateStays, WorkerStays, M!Exists, M!InPhase, M!Done, TypesFit
<1>7. TypesFit(u)'
  BY <1>1, <1>2, <1>3, <1>4, <1>5, <1>6 DEF Jobs, M!States, M!Receipts, LocalFits, PatchFits, WorkerFits
<1>8. PatchFits(u)' BY <1>1, <1>2, <1>3, <1>4, <1>5, <1>6 DEF PatchFits, LocalFits
<1>9. LocalFits(u)'
  BY <1>1, <1>2, <1>3, <1>4, <1>5, <1>6 DEF LocalFits, PublishingFits, M!Publishing, PatchFits, M!Workable,
      WorkerFits, Jobs, M!States
<1>10. WorkerFits(u)' BY <1>1, <1>2, <1>3, <1>4, <1>5, <1>6 DEF WorkerFits, LocalFits, PatchFits, M!Workable, M!Stages
<1>11. PublishingFits(u)' BY <1>1, <1>2, <1>3, <1>4, <1>5, <1>6 DEF PublishingFits, M!Publishing
<1>12. CancelFits(u)'
  BY <1>1, <1>2, <1>3, <1>4, <1>5, <1>6 DEF CancelFits, LocalFits, StillToCome, PublishingFits, M!Publishing
<1>13. StillToCome(u)' BY <1>1, <1>2, <1>3, <1>4, <1>5, <1>6 DEF StillToCome, PatchFits, M!Created
<1>14. KeptFits(u)'
  BY <1>1, <1>2, <1>3, <1>4, <1>5, <1>6 DEF KeptFits, PatchFits, CancelFits, PublishingFits, LocalFits
<1> QED
  <2>1. UploadFits(u)' BY <1>7, <1>8, <1>9, <1>10, <1>11, <1>12, <1>13, <1>14 DEF UploadFits
  <2> QED BY <1>1, <1>2, <1>3, <1>4, <1>5, <1>6, <2>1, Settles

LEMMA BeginSettles ==
  ASSUME UploadsInv, NEW u \in M!Uploads, M!Begin(u)
  PROVE  UploadsInv'
<1> USE UploadConstants
<1>1. /\ TypesFit(u) /\ PatchFits(u) /\ LocalFits(u) /\ WorkerFits(u) /\ PublishingFits(u) /\ CancelFits(u)
      /\ StillToCome(u) /\ KeptFits(u) /\ Domains /\ files \subseteq Contents \cap metas
  BY DEF UploadsInv, UploadFits
<1>2. worker[u].at = "begin"
  BY <1>1, Workers DEF M!Begin, M!Exists, M!InPhase, M!Locked, M!Alive, M!Publishing, M!MayClean, TypesFit
<1>3. \/ M!Done(u) /\ upload'[u] = Nobody /\ data'[u] = 0 /\ Ends(u)
      \/ StateStays(u) /\ data'[u] = data[u] /\ Ends(u)
      \/ /\ StateStays(u) /\ data'[u] = data[u] /\ worker'[u] \in Jobs /\ worker'[u].at = "wait"
         /\ worker'[u].hashed = Nobody /\ (worker'[u].stage = "validation" => upload[u].received = Pieces)
  <2>1. CASE M!Done(u)
    BY <1>1, <2>1, Workers DEF M!Begin, M!Discard, M!Wrote, M!Grown, M!End, Ends, Domains
  <2>2. CASE ~M!Done(u) /\ (~M!Alive(u) \/ ~M!Workable(u))
    BY <1>1, <2>2, Workers DEF M!Begin, Ends, StateStays, Domains
  <2>3. CASE ~M!Done(u) /\ M!Alive(u) /\ M!Workable(u)
    <3> DEFINE next == IF /\ upload[u].received = Pieces /\ data[u] = Pieces
                          /\ kind[u] = "drive" => upload[u].stage = "validation"
                       THEN "validation" ELSE "download"
    <3>1. worker'[u] = [worker[u] EXCEPT !.at = "wait", !.got = upload[u].received, !.stage = next]
          /\ upload' = upload /\ data' = data
      BY <1>1, <2>3 DEF M!Begin, Domains
    <3>2. worker[u] \in Jobs /\ upload[u].received \in 0..Pieces /\ worker[u].hashed = Nobody
      BY <1>1, <1>2, <2>3 DEF TypesFit, WorkerFits, M!Alive, M!Exists, M!States
    <3>3. next \in {"validation", "download"} /\ (next = "validation" => upload[u].received = Pieces)
      OBVIOUS
    <3> HIDE DEF next
    <3> QED BY <3>1, <3>2, <3>3 DEF StateStays, Jobs, M!Stages
  <2> QED BY <2>1, <2>2, <2>3
<1>4. UNCHANGED <<object, receipt, patch, acked, canceled, deleting, dropped, made, files, metas>>
  BY DEF M!Begin, M!pool, M!seen
<1>5. Only(u)
  BY <1>1, <1>2 DEF M!Begin, Only, SameAt, Domains, TypesFit, M!pool, M!seen, M!Discard, M!End, M!Grown, M!Wrote
<1> USE DEF Only, Confirms, Moves, Ends, Begins, StateStays, WorkerStays, M!Exists, M!InPhase, M!Done, TypesFit
<1>6. TypesFit(u)' BY <1>1, <1>2, <1>3, <1>4, <1>5 DEF Jobs, M!States, M!Receipts, LocalFits, PatchFits, WorkerFits
<1>7. PatchFits(u)' BY <1>1, <1>2, <1>3, <1>4, <1>5 DEF PatchFits, LocalFits
<1>8. LocalFits(u)'
  BY <1>1, <1>2, <1>3, <1>4, <1>5 DEF LocalFits, PublishingFits, M!Publishing, PatchFits, M!Workable, WorkerFits,
      Jobs, M!States
<1>9. WorkerFits(u)' BY <1>1, <1>2, <1>3, <1>4, <1>5 DEF WorkerFits, LocalFits, PatchFits, M!Workable, M!Stages
<1>10. PublishingFits(u)' BY <1>1, <1>2, <1>3, <1>4, <1>5 DEF PublishingFits, M!Publishing
<1>11. CancelFits(u)'
  BY <1>1, <1>2, <1>3, <1>4, <1>5 DEF CancelFits, LocalFits, StillToCome, PublishingFits, M!Publishing
<1>12. StillToCome(u)' BY <1>1, <1>2, <1>3, <1>4, <1>5 DEF StillToCome, PatchFits, M!Created
<1>13. KeptFits(u)' BY <1>1, <1>2, <1>3, <1>4, <1>5 DEF KeptFits, PatchFits, CancelFits, PublishingFits, LocalFits
<1> QED
  <2>1. UploadFits(u)' BY <1>6, <1>7, <1>8, <1>9, <1>10, <1>11, <1>12, <1>13 DEF UploadFits
  <2> QED BY <1>1, <1>2, <1>3, <1>4, <1>5, <2>1, Settles

LEMMA CheckSettles ==
  ASSUME UploadsInv, NEW u \in M!Uploads, M!Check(u)
  PROVE  UploadsInv'
<1> USE UploadConstants
<1>1. /\ TypesFit(u) /\ PatchFits(u) /\ LocalFits(u) /\ WorkerFits(u) /\ PublishingFits(u) /\ CancelFits(u)
      /\ StillToCome(u) /\ KeptFits(u) /\ Domains /\ files \subseteq Contents \cap metas
  BY DEF UploadsInv, UploadFits
<1>2. worker[u].at = "check" /\ upload[u] # Nobody
  BY <1>1, Workers DEF M!Check, M!Exists, M!InPhase, M!Locked, M!Alive, M!Publishing, M!MayClean, TypesFit
<1>3. \/ Ends(u) /\ data'[u] = data[u]
      \/ /\ worker'[u] \in Jobs /\ worker'[u].at = "probe" /\ worker'[u].hashed = Pieces /\ data'[u] = Pieces
         /\ worker'[u].stage = worker[u].stage
  <2>1. CASE M!Done(u)
    BY <1>1, <2>1, Workers DEF M!Check, M!End, Ends, Domains
  <2>2. CASE ~M!Done(u)
    <3> DEFINE h == IF worker[u].hashed # Nobody THEN worker[u].hashed ELSE M!EnsureHash(u, worker[u].runtime)
    <3>1. worker'[u] = [worker[u] EXCEPT !.at = "probe", !.hashed = h]
          /\ data' = IF worker[u].hashed # Nobody THEN data ELSE M!Grown(u, upload[u].received)
      BY <1>1, <2>2 DEF M!Check, Domains
    <3>2. M!EnsureHash(u, worker[u].runtime) = upload[u].received
      BY DEF M!EnsureHash
    <3>3. worker[u] \in Jobs /\ h = Pieces /\ data'[u] = Pieces
      BY <1>1, <1>2, <3>1, <3>2 DEF TypesFit, WorkerFits, M!Exists, M!Grown, Domains
    <3> HIDE DEF h
    <3>4. worker'[u] = [worker[u] EXCEPT !.at = "probe", !.hashed = Pieces]
      BY <3>1, <3>3, Zenon
    <3>5. Pieces \in 0..Pieces
      OBVIOUS
    <3>6. PICK n \in 0..Pieces : n = Pieces /\ worker'[u] = [worker[u] EXCEPT !.at = "probe", !.hashed = n]
      BY <3>4, <3>5, Zenon
    <3>7. worker'[u] \in Jobs /\ worker'[u].at = "probe" /\ worker'[u].hashed = n /\ worker'[u].stage = worker[u].stage
      BY <3>3, <3>6 DEF Jobs
    <3> QED BY <3>3, <3>6, <3>7
  <2> QED BY <2>1, <2>2
<1>4. UNCHANGED <<upload, object, receipt, patch, acked, canceled, deleting, dropped, made, files, metas>>
  BY DEF M!Check, M!pool, M!seen
<1>5. Only(u)
  BY <1>1, <1>2 DEF M!Check, Only, SameAt, Domains, TypesFit, M!pool, M!seen, M!End, M!Grown
<1> USE DEF Only, Confirms, Moves, Ends, Begins, StateStays, WorkerStays, M!Exists, M!InPhase, M!Done, TypesFit
<1>6. TypesFit(u)' BY <1>1, <1>2, <1>3, <1>4, <1>5 DEF Jobs, M!States, M!Receipts, LocalFits, PatchFits, WorkerFits
<1>7. PatchFits(u)' BY <1>1, <1>2, <1>3, <1>4, <1>5 DEF PatchFits, LocalFits
<1>8. LocalFits(u)'
  BY <1>1, <1>2, <1>3, <1>4, <1>5 DEF LocalFits, PublishingFits, M!Publishing, PatchFits, M!Workable, WorkerFits,
      Jobs, M!States
<1>9. WorkerFits(u)' BY <1>1, <1>2, <1>3, <1>4, <1>5 DEF WorkerFits, LocalFits, PatchFits, M!Workable, M!Stages
<1>10. PublishingFits(u)' BY <1>1, <1>2, <1>3, <1>4, <1>5 DEF PublishingFits, M!Publishing
<1>11. CancelFits(u)'
  BY <1>1, <1>2, <1>3, <1>4, <1>5 DEF CancelFits, LocalFits, StillToCome, PublishingFits, M!Publishing
<1>12. StillToCome(u)' BY <1>1, <1>2, <1>3, <1>4, <1>5 DEF StillToCome, PatchFits, M!Created
<1>13. KeptFits(u)' BY <1>1, <1>2, <1>3, <1>4, <1>5 DEF KeptFits, PatchFits, CancelFits, PublishingFits, LocalFits
<1> QED
  <2>1. UploadFits(u)' BY <1>6, <1>7, <1>8, <1>9, <1>10, <1>11, <1>12, <1>13 DEF UploadFits
  <2> QED BY <1>1, <1>2, <1>3, <1>4, <1>5, <2>1, Settles

LEMMA FailsSettles ==
  ASSUME UploadsInv, NEW u \in M!Uploads, NEW final \in BOOLEAN, M!Working(u), M!Fails(u, final)
  PROVE  UploadsInv'
<1> USE UploadConstants
<1>1. /\ TypesFit(u) /\ PatchFits(u) /\ LocalFits(u) /\ WorkerFits(u) /\ PublishingFits(u) /\ CancelFits(u)
      /\ StillToCome(u) /\ KeptFits(u) /\ Domains /\ files \subseteq Contents \cap metas
  BY DEF UploadsInv, UploadFits
<1>2. patch[u] = Nobody /\ worker[u].at \notin M!Publishing \cup {"none"}
  BY <1>1, Workers DEF M!Fails, M!Exists, M!InPhase, M!Locked, M!Alive, M!Publishing, M!MayClean, TypesFit, M!Working
<1>3. Ends(u)
  BY <1>1, <1>2, Workers DEF M!Fails, M!pool, M!seen, Domains, TypesFit, M!End, Ends
<1>4. \/ /\ kind[u] = "local" /\ upload[u] # Nobody /\ data'[u] = data[u]
         /\ Confirms(u, upload[u].received, upload[u].phase)
      \/ kind[u] # "local" /\ M!Done(u) /\ upload'[u] = Nobody /\ data'[u] = 0
      \/ /\ kind[u] # "local" /\ upload[u] # Nobody /\ upload[u].phase # "canceling" /\ data'[u] \in {0, data[u]}
         /\ \E n \in 0..Pieces : Confirms(u, n, "failed")
      \/ StateStays(u) /\ data'[u] = data[u]
  <2>1. CASE kind[u] = "local" /\ upload[u] # Nobody
    <3>1. upload'[u] = [upload[u] EXCEPT !.reserved = FALSE, !.stage = "none"] /\ data' = data
      BY <1>1, <2>1 DEF M!Fails, M!Failed, M!Exists, M!Wrote, Domains
    <3>2. upload[u] \in M!States
      BY <1>1, <2>1 DEF TypesFit
    <3> QED BY <2>1, <3>1, <3>2 DEF Confirms, M!States
  <2>2. CASE kind[u] # "local" /\ M!Done(u)
    BY <1>1, <2>2 DEF M!Fails, M!Failed, M!Discard, M!Wrote, M!Grown, Domains
  <2>3. CASE kind[u] # "local" /\ ~M!Done(u) /\ M!Alive(u) /\ ~M!InPhase(u, "canceling")
    <3>1. PICK n \in {0, worker[u].got} :
            upload'[u] = [upload[u] EXCEPT !.reserved = FALSE, !.stage = "none", !.phase = "failed", !.final = final,
                                           !.received = n]
      <4>1. CASE kind[u] = "r2" \/ final
        BY <1>1, <2>3, <4>1 DEF M!Fails, M!Failed, M!Wrote, Domains
      <4>2. CASE ~(kind[u] = "r2" \/ final)
        BY <1>1, <2>3, <4>2 DEF M!Fails, M!Failed, M!Wrote, Domains
      <4> QED BY <4>1, <4>2
    <3>2. data'[u] \in {0, data[u]}
      BY <1>1, <2>3 DEF M!Fails, M!Failed, M!Grown, Domains
    <3>3. upload[u] \in M!States /\ n \in 0..Pieces /\ upload[u].phase # "canceling" /\ upload[u] # Nobody
      BY <1>1, <2>3 DEF TypesFit, M!Alive, M!Exists, M!InPhase, Jobs
    <3>4. [upload[u] EXCEPT !.reserved = FALSE, !.stage = "none"] \in M!States
      BY <3>3 DEF M!States
    <3>5. upload'[u] \in M!States
      <4> DEFINE t == [upload[u] EXCEPT !.reserved = FALSE, !.stage = "none"]
      <4>1. upload'[u] = [t EXCEPT !.phase = "failed", !.final = final, !.received = n]
        BY <3>1
      <4>2. t \in M!States
        BY <3>4
      <4> HIDE DEF t
      <4> QED BY <3>3, <4>1, <4>2 DEF M!States
    <3>6. upload'[u].received = n /\ upload'[u].phase = "failed"
      BY <3>1, <3>3 DEF M!States
    <3>7. Confirms(u, n, "failed")
      BY <3>5, <3>6 DEF Confirms
    <3> QED BY <2>3, <3>2, <3>3, <3>7
  <2>4. CASE /\ ~(kind[u] = "local" /\ upload[u] # Nobody) /\ ~(kind[u] # "local" /\ M!Done(u))
             /\ ~(kind[u] # "local" /\ ~M!Done(u) /\ M!Alive(u) /\ ~M!InPhase(u, "canceling"))
    BY <2>4 DEF M!Fails, M!Failed, M!Exists, StateStays
  <2> QED BY <2>1, <2>2, <2>3, <2>4
<1>5. UNCHANGED <<object, receipt, patch, acked, canceled, deleting, dropped, made, files, metas>>
  BY DEF M!Fails, M!pool, M!seen
<1>6. Only(u)
  <2>1. UNCHANGED upload \/ \E s : M!Wrote(u, s)
    BY DEF M!Fails, M!Failed, M!Discard
  <2>2. UNCHANGED data \/ \E n : data' = M!Grown(u, n)
    BY DEF M!Fails, M!Failed, M!Discard
  <2> QED BY <1>1, <2>1, <2>2 DEF M!Fails, M!End, M!Wrote, M!Grown, Only, SameAt, Domains, M!pool, M!seen
<1> USE DEF Only, Confirms, Moves, Ends, Begins, StateStays, WorkerStays, M!Exists, M!InPhase, M!Done, TypesFit
<1>7. TypesFit(u)'
  BY <1>1, <1>2, <1>3, <1>4, <1>5, <1>6 DEF Jobs, M!States, M!Receipts, LocalFits, PatchFits, WorkerFits
<1>8. PatchFits(u)' BY <1>1, <1>2, <1>3, <1>4, <1>5, <1>6 DEF PatchFits, LocalFits
<1>9. LocalFits(u)'
  BY <1>1, <1>2, <1>3, <1>4, <1>5, <1>6 DEF LocalFits, PublishingFits, M!Publishing, PatchFits, M!Workable,
      WorkerFits, Jobs, M!States
<1>10. WorkerFits(u)' BY <1>1, <1>2, <1>3, <1>4, <1>5, <1>6 DEF WorkerFits, LocalFits, PatchFits, M!Workable, M!Stages
<1>11. PublishingFits(u)' BY <1>1, <1>2, <1>3, <1>4, <1>5, <1>6 DEF PublishingFits, M!Publishing
<1>12. CancelFits(u)'
  BY <1>1, <1>2, <1>3, <1>4, <1>5, <1>6 DEF CancelFits, LocalFits, StillToCome, PublishingFits, M!Publishing
<1>13. StillToCome(u)' BY <1>1, <1>2, <1>3, <1>4, <1>5, <1>6 DEF StillToCome, PatchFits, M!Created
<1>14. KeptFits(u)'
  BY <1>1, <1>2, <1>3, <1>4, <1>5, <1>6 DEF KeptFits, PatchFits, CancelFits, PublishingFits, LocalFits
<1> QED
  <2>1. UploadFits(u)' BY <1>7, <1>8, <1>9, <1>10, <1>11, <1>12, <1>13, <1>14 DEF UploadFits
  <2> QED BY <1>1, <1>2, <1>3, <1>4, <1>5, <1>6, <2>1, Settles

LEMMA CreateSettles ==
  ASSUME UploadsInv, NEW u \in M!Uploads, M!Create(u)
  PROVE  UploadsInv'
<1> USE UploadConstants
<1>1. /\ TypesFit(u) /\ PatchFits(u) /\ LocalFits(u) /\ WorkerFits(u) /\ PublishingFits(u) /\ CancelFits(u)
      /\ StillToCome(u) /\ KeptFits(u) /\ Domains /\ files \subseteq Contents \cap metas
  BY DEF UploadsInv, UploadFits
<1>2. /\ u \notin M!Created /\ M!Created' = M!Created \cup {u} /\ made' \in 0..Len(Order)
      /\ upload[u] = Nobody /\ worker[u].at = "none" /\ patch[u] = Nobody /\ acked[u] = 0 /\ u \notin canceled
  <2>1. made \in 0..Len(Order) /\ made < Len(Order) /\ made' = made + 1 /\ u = Order[made + 1]
    BY SafePartsAssumption DEF M!MediaUploadsAssumption, M!Create, UploadsInv
  <2>2. u \notin M!Created /\ M!Created' = M!Created \cup {u}
    BY <2>1, TheNextIsToCome
  <2> QED BY <1>1, <2>1, <2>2, SafePartsAssumption DEF StillToCome, M!Exists, M!MediaUploadsAssumption
<1>3. Confirms(u, 0, IF kind[u] = "drive" THEN "importing" ELSE "uploading")
  <2> DEFINE phase == IF kind[u] = "drive" THEN "importing" ELSE "uploading"
  <2>1. upload'[u] = [received |-> 0, reserved |-> TRUE, final |-> FALSE, stage |-> "none", phase |-> phase]
    BY <1>1 DEF M!Create, M!Wrote, Domains
  <2>2. phase \in {"importing", "uploading"}
    OBVIOUS
  <2> HIDE DEF phase
  <2>3. upload'[u] \in M!States /\ upload'[u].received = 0 /\ upload'[u].phase = phase
    BY <2>1, <2>2 DEF M!States
  <2>4. Confirms(u, 0, phase)
    BY <2>3 DEF Confirms
  <2> QED BY <2>4 DEF phase
<1>4. WorkerStays(u) \/ (kind[u] = "drive" /\ Begins(u))
  BY <1>1, <1>2, Starts DEF M!Create, M!pool, M!seen, Domains, TypesFit, WorkerStays
<1>5. UNCHANGED <<data, object, receipt, patch, acked, canceled, deleting, dropped, files, metas>>
  BY DEF M!Create, M!pool, M!seen
<1>6. Only(u)
  <2>1. DOMAIN worker' = M!Uploads /\ \A v \in M!Uploads \ {u} : worker'[v] = worker[v]
    BY <1>1, Starts DEF M!Create, Domains
  <2> QED BY <1>1, <2>1 DEF M!Create, M!Wrote, Only, SameAt, Domains, M!pool
<1> USE DEF Only, Confirms, Moves, Ends, Begins, StateStays, WorkerStays, M!Exists, M!InPhase, M!Done, TypesFit
<1>7. TypesFit(u)'
  BY <1>1, <1>2, <1>3, <1>4, <1>5, <1>6 DEF Jobs, M!States, M!Receipts, LocalFits, PatchFits, WorkerFits
<1>8. PatchFits(u)' BY <1>1, <1>2, <1>3, <1>4, <1>5, <1>6 DEF PatchFits, LocalFits
<1>9. LocalFits(u)'
  BY <1>1, <1>2, <1>3, <1>4, <1>5, <1>6 DEF LocalFits, PublishingFits, M!Publishing, PatchFits, M!Workable,
      WorkerFits, Jobs, M!States
<1>10. WorkerFits(u)' BY <1>1, <1>2, <1>3, <1>4, <1>5, <1>6 DEF WorkerFits, LocalFits, PatchFits, M!Workable, M!Stages
<1>11. PublishingFits(u)' BY <1>1, <1>2, <1>3, <1>4, <1>5, <1>6 DEF PublishingFits, M!Publishing
<1>12. CancelFits(u)'
  BY <1>1, <1>2, <1>3, <1>4, <1>5, <1>6 DEF CancelFits, LocalFits, StillToCome, PublishingFits, M!Publishing
<1>13. StillToCome(u)' BY <1>1, <1>2, <1>3, <1>4, <1>5, <1>6 DEF StillToCome, PatchFits, M!Created
<1>14. KeptFits(u)'
  BY <1>1, <1>2, <1>3, <1>4, <1>5, <1>6 DEF KeptFits, PatchFits, CancelFits, PublishingFits, LocalFits
<1> QED
  <2>1. UploadFits(u)' BY <1>7, <1>8, <1>9, <1>10, <1>11, <1>12, <1>13, <1>14 DEF UploadFits
  <2> QED BY <1>1, <1>2, <1>3, <1>4, <1>5, <1>6, <2>1, SettlesGrown DEF UploadsInv

LEMMA RestartSettles == ASSUME UploadsInv, M!Restart PROVE UploadsInv'
<1> USE UploadConstants
<1> DEFINE left == {u \in M!Uploads : M!Exists(u) /\ ~M!Done(u)}
           kept == [u \in M!Uploads |-> IF M!Done(u) THEN 0 ELSE data[u]]
           going == {u \in left : upload[u].phase \notin {"failed", "canceling"}}
           r == CHOOSE x \in Runtimes : TRUE
<1>1. PICK owners \in SUBSET going :
      /\ upload' = [u \in M!Uploads |-> IF u \in left THEN [upload[u] EXCEPT !.reserved = u \in owners] ELSE Nobody]
      /\ data' = kept
      /\ worker' = [u \in M!Uploads |-> IF u \in going /\ M!Workable(u) THEN M!NewJob(u, r) ELSE M!NoJob]
      /\ patch' = [u \in M!Uploads |-> Nobody] /\ deleting' = {}
  BY DEF M!Restart
<1>2. UNCHANGED <<object, receipt, files, metas, kind, content, made, acked, canceled, dropped>>
  BY DEF M!Restart, M!pool, M!seen
<1>3. r \in Runtimes
  BY SafePartsAssumption DEF M!MediaUploadsAssumption
<1> HIDE DEF r
<1>4. ASSUME NEW u \in M!Uploads PROVE UploadFits(u)'
  <2>1. /\ TypesFit(u) /\ PatchFits(u) /\ LocalFits(u) /\ WorkerFits(u) /\ PublishingFits(u) /\ CancelFits(u)
        /\ StillToCome(u) /\ KeptFits(u)
    BY DEF UploadsInv, UploadFits
  <2>2. M!Exists(u) /\ ~M!Done(u) =>
          Confirms(u, upload[u].received, upload[u].phase) /\ data'[u] = data[u] /\ upload[u] # Nobody
    <3>1. SUFFICES ASSUME M!Exists(u), ~M!Done(u)
                   PROVE  Confirms(u, upload[u].received, upload[u].phase) /\ data'[u] = data[u] /\ upload[u] # Nobody
      OBVIOUS
    <3>2. upload'[u] = [upload[u] EXCEPT !.reserved = u \in owners] /\ data'[u] = data[u]
      BY <1>1, <3>1
    <3>3. upload[u] \in M!States
      BY <2>1, <3>1 DEF TypesFit, M!Exists
    <3>4. CASE u \in owners
      <4>1. (u \in owners) = TRUE
        BY <3>4
      <4>2. upload'[u] = [upload[u] EXCEPT !.reserved = TRUE]
        BY <3>2, <4>1, ZenonT(40)
      <4> QED BY <3>1, <3>2, <3>3, <4>2 DEF Confirms, M!States, M!Exists
    <3>5. CASE u \notin owners
      <4>1. (u \in owners) = FALSE
        BY <3>5
      <4>2. upload'[u] = [upload[u] EXCEPT !.reserved = FALSE]
        BY <3>2, <4>1, ZenonT(40)
      <4> QED BY <3>1, <3>2, <3>3, <4>2 DEF Confirms, M!States, M!Exists
    <3> QED BY <3>4, <3>5
  <2>3. ~(M!Exists(u) /\ ~M!Done(u)) => upload'[u] = Nobody /\ data'[u] \in {0, data[u]}
    BY <1>1
  <2>4. \/ Ends(u)
        \/ Begins(u) /\ M!Exists(u) /\ ~M!Done(u) /\ upload[u].phase # "canceling" /\ M!Workable(u)
    <3>1. CASE u \in going /\ M!Workable(u)
      BY <1>1, <1>3, <3>1, Workers DEF Begins
    <3>2. CASE ~(u \in going /\ M!Workable(u))
      BY <1>1, <3>2, Workers DEF Ends
    <3> QED BY <3>1, <3>2
  <2>5. patch'[u] = Nobody /\ deleting' = {}
    BY <1>1
  <2> HIDE DEF left, kept, going
  <2>6. TypesFit(u)'
    BY <1>2, <2>1, <2>2, <2>3, <2>4, <2>5 DEF TypesFit, Confirms, Ends, Begins
  <2>7. PatchFits(u)'
    BY <2>5 DEF PatchFits
  <2>8. LocalFits(u)'
    BY <1>2, <2>1, <2>2, <2>3, <2>4 DEF LocalFits, Confirms, Ends, Begins, M!Exists, M!Done, M!Workable
  <2>9. WorkerFits(u)'
    BY <1>2, <2>1, <2>2, <2>3, <2>4 DEF WorkerFits, Confirms, Ends, Begins, M!Exists, M!Workable
  <2>10. PublishingFits(u)'
    BY <1>2, <2>1, <2>4 DEF PublishingFits, Ends, Begins, M!Publishing
  <2>11. CancelFits(u)'
    BY <1>2, <2>1, <2>2, <2>3, <2>4 DEF CancelFits, Confirms, Ends, Begins, M!Exists, M!InPhase, M!Done
  <2>12. StillToCome(u)'
    BY <1>2, <2>1, <2>2, <2>3, <2>4, <2>5 DEF StillToCome, Ends, Begins, M!Exists, M!Created
  <2>13. KeptFits(u)'
    BY <1>2, <2>1, <2>2 DEF KeptFits, Confirms, M!Exists, M!Done
  <2> QED BY <2>6, <2>7, <2>8, <2>9, <2>10, <2>11, <2>12, <2>13 DEF UploadFits
<1>5. Domains'
  BY <1>1, <1>2 DEF Domains, UploadsInv
<1> QED BY <1>2, <1>4, <1>5 DEF UploadsInv

LEMMA UploadsStart == ASSUME M!Init PROVE UploadsInv
<1> USE UploadConstants, SafePartsAssumption DEF M!Init
<1>1. Domains /\ made \in 0..Len(Order) /\ files \subseteq Contents \cap metas /\ canceled \subseteq M!Uploads
  BY DEF Domains, M!MediaUploadsAssumption
<1>2. ASSUME NEW u \in M!Uploads PROVE UploadFits(u)
  <2>1. /\ kind[u] \in {"local", "r2", "drive"} /\ content[u] \in Contents /\ upload[u] = Nobody /\ data[u] = 0
        /\ object[u] = "open" /\ receipt[u] = Nobody /\ worker[u] = M!NoJob /\ patch[u] = Nobody /\ acked[u] = 0
        /\ u \notin canceled \cup deleting
    OBVIOUS
  <2> QED BY <2>1, Workers DEF UploadFits, TypesFit, PatchFits, LocalFits, WorkerFits, PublishingFits, CancelFits,
             StillToCome, KeptFits, M!Exists, M!InPhase, M!Publishing
<1> QED BY <1>1, <1>2 DEF UploadsInv

LEMMA UploadsRest == ASSUME UploadsInv, UNCHANGED mVars PROVE UploadsInv'
<1>1. ASSUME NEW v \in M!Uploads PROVE UploadFits(v)'
  BY DEF mVars, UploadsInv, UploadFits, TypesFit, PatchFits, LocalFits, WorkerFits, PublishingFits, CancelFits,
         StillToCome, KeptFits, M!Exists, M!InPhase, M!Done, M!Created
<1> QED BY <1>1 DEF mVars, UploadsInv, Domains

LEMMA UploadsMove == ASSUME UploadsInv, M!Next PROVE UploadsInv'
<1>1. CASE M!Restart
  BY <1>1, RestartSettles
<1>2. ASSUME NEW u \in M!Uploads, M!Request(u) PROVE UploadsInv'
  BY <1>2, CreateSettles, PatchSavesSettles, PatchFailsSettles, SendPartsSettles, DeleteSettles, DeleteEntersSettles,
     PatchSettles, PollSettles, CompleteSettles, RetryDriveSettles DEF M!Request
<1>3. ASSUME NEW u \in M!Uploads, M!Work(u) PROVE UploadsInv'
  <2>1. CASE M!Stops(u)
    BY <2>1, FailsSettles DEF M!Stops
  <2>2. CASE M!Breaks(u)
    BY <2>2, FailsSettles DEF M!Breaks
  <2> QED BY <1>3, <2>1, <2>2, BeginSettles, WaitSettles, EnterSettles, OpenDownloadSettles, ReadSettles, EndDownloadSettles,
             CheckSettles, ProbeSettles, UnreadableSettles, PublishSettles, RegisterSettles, RenameSettles, RemoveUploadSettles
             DEF M!Work
<1>4. ASSUME NEW u \in M!Uploads, M!Clean(u) PROVE UploadsInv'
  BY <1>4, FinishCancelSettles, ExpireSettles, CleanRemoteSettles DEF M!Clean
<1> QED BY <1>1, <1>2, <1>3, <1>4 DEF M!Next

\* The invariant of the uploads holds whichever part runs.
LEMMA UploadsInvariance == SafeSpec => []UploadsInv
<1>1. SafeInit => UploadsInv
  BY UploadsStart DEF SafeInit
<1>2. UploadsInv /\ [SafeNext]_<<part, vars, pVars, mVars>> => UploadsInv'
  BY UploadsRest, UploadsMove DEF SafeNext
<1> QED BY <1>1, <1>2, PTL DEF SafeSpec

\* What lies in the pool under the hash of an upload is all of its bytes, for any number
\* of pieces, runtimes, restarts and failures (ensureHash, validate, publish).
THEOREM PoolIsWhole == SafeSpec => []MediaIsWhole
<1>1. UploadsInv => MediaIsWhole
  BY UploadConstants DEF UploadsInv, MediaIsWhole, M!MediaIsWhole
<1> QED BY <1>1, UploadsInvariance, PTL

\* No confirmed piece and no complete object is lost before the file is in the pool.
THEOREM NothingAcceptedIsLost == SafeSpec => []NothingIsLost
<1>1. ASSUME UploadsInv, NEW u \in M!Uploads \ (canceled \cup dropped)
      PROVE  /\ acked[u] > 0 /\ ~M!Done(u) =>
                  M!Exists(u) /\ upload[u].received >= acked[u] /\ data[u] >= acked[u]
             /\ object[u] = "gone" => content[u] \in files
  <2>1. TypesFit(u) /\ LocalFits(u) /\ KeptFits(u)
    BY <1>1 DEF UploadsInv, UploadFits
  <2>2. M!Exists(u) => upload[u].received \in Nat
    BY <2>1 DEF TypesFit, M!Exists, M!States
  <2> QED BY <2>1, <2>2, UploadConstants DEF TypesFit, LocalFits, KeptFits
<1>2. UploadsInv => NothingIsLost
  BY <1>1 DEF NothingIsLost, M!NothingIsLost
<1> QED BY <1>2, UploadsInvariance, PTL

LEMMA OnlyRegisterWrites ==
  ASSUME UploadsInv, M!Next, NEW u \in canceled, receipt[u] = Nobody
  PROVE  receipt'[u] = Nobody
<1>1. worker[u].at # "register"
  BY DEF UploadsInv, UploadFits, CancelFits
<1>2. ASSUME NEW v \in M!Uploads, M!Register(v) PROVE receipt'[u] = Nobody
  BY <1>1, <1>2 DEF M!Register
<1>3. ASSUME NEW v \in M!Uploads, M!CleanRemote(v) PROVE receipt'[u] = Nobody
  BY <1>3 DEF M!CleanRemote, M!MayClean, M!Done
<1>4. CASE M!Restart
  BY <1>4 DEF M!Restart
<1>5. ASSUME NEW v \in M!Uploads, M!Request(v) \/ M!FinishCancel(v) \/ M!Expire(v) PROVE receipt' = receipt
  BY <1>5 DEF M!Request, M!Create, M!PatchSaves, M!PatchFails, M!SendParts, M!Delete, M!DeleteEnters, M!Patch, M!Poll,
              M!Complete, M!RetryDrive, M!FinishCancel, M!Expire
<1>6. ASSUME NEW v \in M!Uploads, M!Work(v), ~M!Register(v) PROVE receipt' = receipt
  BY <1>6 DEF M!Work, M!Begin, M!Wait, M!Enter, M!OpenDownload, M!Read, M!EndDownload, M!Check, M!Probe, M!Unreadable,
              M!Publish, M!Rename, M!RemoveUpload, M!Stops, M!Breaks, M!Fails
<1> QED BY <1>2, <1>3, <1>4, <1>5, <1>6 DEF M!Next, M!Clean

\* After a DELETE took effect the upload is never published, whatever its worker was doing.
THEOREM CanceledIsNotPublished == SafeSpec => CanceledStaysOut
<1>1. ASSUME UploadsInv, [SafeNext]_<<part, vars, pVars, mVars>>
      PROVE  [\A u \in canceled : receipt[u] = Nobody => receipt'[u] = Nobody]_(M!vars)
  <2>1. CASE M!Next
    BY <1>1, <2>1, OnlyRegisterWrites
  <2>2. CASE UNCHANGED mVars
    BY <2>2 DEF mVars, M!vars
  <2> QED BY <1>1, <2>1, <2>2 DEF SafeNext
<1> QED BY <1>1, UploadsInvariance, PTL DEF CanceledStaysOut, M!CanceledStaysOut, SafeSpec

-----------------------------------------------------------------------------
(* The room on the disk.  A claim is what an upload may still come to take *)
(* up: its partial and a copy when it is reserved, its partial alone once  *)
(* the copy is there, what it has written otherwise.                       *)

Reserves(u) == M!Exists(u) /\ upload[u].reserved
Claim(u) == IF Reserves(u) THEN IF M!Done(u) THEN Pieces ELSE 2 * Pieces ELSE data[u]
Claims == [u \in M!Uploads |-> Claim(u)]
Levels == [M!Uploads -> 0..(2 * Pieces)]

\* The pieces under the levels of all uploads.
HeldBy(c) == {x \in M!Uploads \X (1..(2 * Pieces)) : x[2] <= c[x[1]]}

\* A worker that reads, checks or publishes has its reservation.
Holds(u) ==
  /\ worker[u].at \in {"read", "check", "probe", "publish", "register", "rename"} /\ M!Exists(u) => upload[u].reserved
  /\ worker[u].at \in {"register", "rename"} => M!Exists(u)

RoomInv ==
  /\ IsFiniteSet(files) /\ Cardinality(HeldBy(Claims)) + Pieces * Cardinality(files) <= Capacity
  /\ \A u \in M!Uploads : Holds(u)

LEMMA Counts == \A S : M!Cardinality(S) = Cardinality(S)
  BY Zenon DEF M!Cardinality, Cardinality

LEMMA UploadsAreFinite == IsFiniteSet(M!Uploads)
<1>1. Order \in Seq(M!Uploads) /\ M!Uploads = {Order[i] : i \in DOMAIN Order}
  BY SafePartsAssumption DEF M!MediaUploadsAssumption, M!Uploads, M!ToSet
<1>2. Len(Order) \in Nat /\ DOMAIN Order = 1..Len(Order) /\ Order \in [1..Len(Order) -> M!Uploads]
  BY <1>1
<1>3. Order \in Surjection(1..Len(Order), M!Uploads)
  BY <1>1, <1>2 DEF Surjection
<1>4. ExistsSurjection(1..Len(Order), M!Uploads)
  BY <1>3 DEF ExistsSurjection
<1> QED BY <1>2, <1>4, FS_NatSurjection

LEMMA PiecesAreFinite ==
  /\ IsFiniteSet(M!Uploads \X (1..(2 * Pieces)))
  /\ \A c : IsFiniteSet(HeldBy(c)) /\ Cardinality(HeldBy(c)) \in Nat
<1>1. IsFiniteSet(1..(2 * Pieces))
  BY UploadConstants, FS_Interval
<1>2. IsFiniteSet(M!Uploads \X (1..(2 * Pieces)))
  BY <1>1, UploadsAreFinite, FS_Product
<1>3. ASSUME NEW c PROVE IsFiniteSet(HeldBy(c)) /\ Cardinality(HeldBy(c)) \in Nat
  <2>1. HeldBy(c) \in SUBSET (M!Uploads \X (1..(2 * Pieces)))
    BY DEF HeldBy
  <2> QED BY <1>2, <2>1, FS_Subset, FS_CardinalityType
<1> QED BY <1>2, <1>3

\* Lower levels take up less room.
LEMMA LessIsHeld ==
  ASSUME NEW c \in Levels, NEW d \in Levels, \A u \in M!Uploads : c[u] <= d[u]
  PROVE  Cardinality(HeldBy(c)) <= Cardinality(HeldBy(d))
<1>1. HeldBy(c) \in SUBSET HeldBy(d)
  <2> SUFFICES ASSUME NEW x \in M!Uploads \X (1..(2 * Pieces)), x[2] <= c[x[1]] PROVE x[2] <= d[x[1]]
    BY DEF HeldBy
  <2>1. x[1] \in M!Uploads /\ x[2] \in 1..(2 * Pieces)
    OBVIOUS
  <2>2. c[x[1]] \in 0..(2 * Pieces) /\ d[x[1]] \in 0..(2 * Pieces) /\ c[x[1]] <= d[x[1]]
    BY <2>1 DEF Levels
  <2> QED BY <2>1, <2>2, UploadConstants
<1> QED BY <1>1, PiecesAreFinite, FS_Subset

\* What the check of the disk (assertClaims) says: the partials, all that the uploads in S
\* are owed and the copies in the pool fit together.
LEMMA CheckIsRoom ==
  ASSUME NEW d, NEW S \in SUBSET M!Uploads, NEW c \in Levels, IsFiniteSet(files),
         \A u \in M!Uploads : d[u] \in 0..Pieces /\ c[u] = IF u \in S THEN 2 * Pieces ELSE d[u]
  PROVE  M!Owed(d, S) <= M!Free(d) <=> Cardinality(HeldBy(c)) + Pieces * Cardinality(files) <= Capacity
<1>1. M!Written(d) \in SUBSET (M!Uploads \X (1..(2 * Pieces))) /\ M!Due(d, S) \in SUBSET (M!Uploads \X (1..(2 * Pieces)))
  BY DEF M!Written, M!Due
<1>2. IsFiniteSet(M!Written(d)) /\ IsFiniteSet(M!Due(d, S))
  BY <1>1, PiecesAreFinite, FS_Subset
<1>3. Cardinality(M!Written(d)) \in Nat /\ Cardinality(M!Due(d, S)) \in Nat
  BY <1>2, FS_CardinalityType
<1>4. ASSUME NEW x \in M!Uploads \X (1..(2 * Pieces))
      PROVE  /\ x \in HeldBy(c) <=> x \in M!Written(d) \/ x \in M!Due(d, S)
             /\ ~(x \in M!Written(d) /\ x \in M!Due(d, S))
  <2>1. x[1] \in M!Uploads /\ x[2] \in 1..(2 * Pieces) /\ d[x[1]] \in 0..Pieces
    OBVIOUS
  <2>2. c[x[1]] = IF x[1] \in S THEN 2 * Pieces ELSE d[x[1]]
    BY <2>1
  <2>3. (x \in HeldBy(c) <=> x[2] <= c[x[1]]) /\ (x \in M!Written(d) <=> x[2] <= d[x[1]])
    BY DEF HeldBy, M!Written
  <2>4. x \in M!Due(d, S) <=> x[1] \in S /\ x[2] > d[x[1]]
    <3>1. x = <<x[1], x[2]>>
      OBVIOUS
    <3> QED BY <2>1, <3>1 DEF M!Due
  <2> QED BY <2>1, <2>2, <2>3, <2>4, UploadConstants
<1>5. HeldBy(c) = M!Written(d) \cup M!Due(d, S) /\ M!Written(d) \cap M!Due(d, S) = {}
  <2>1. HeldBy(c) \subseteq M!Uploads \X (1..(2 * Pieces))
    BY DEF HeldBy
  <2> QED BY <1>1, <1>4, <2>1
<1>6. Cardinality(HeldBy(c)) = Cardinality(M!Written(d)) + Cardinality(M!Due(d, S))
  <2>1. Cardinality(M!Written(d) \cup M!Due(d, S))
          = Cardinality(M!Written(d)) + Cardinality(M!Due(d, S)) - Cardinality(M!Written(d) \cap M!Due(d, S))
    BY <1>2, FS_Union
  <2>2. Cardinality({}) = 0
    BY FS_EmptySet
  <2>3. Cardinality(M!Written(d) \cap M!Due(d, S)) = 0
    BY <1>5, <2>2, Zenon
  <2>4. Cardinality(HeldBy(c)) = Cardinality(M!Written(d) \cup M!Due(d, S))
    BY <1>5, Zenon
  <2>5. \A w, e, n : w \in Nat /\ e \in Nat /\ n = w + e - 0 => n = w + e
    OBVIOUS
  <2> QED BY <1>3, <2>1, <2>3, <2>4, <2>5, Zenon
<1>7. Pieces * Cardinality(files) \in Nat /\ Capacity \in Nat
  BY UploadConstants, FS_CardinalityType, SafePartsAssumption DEF M!MediaUploadsAssumption
<1>8. PICK k : k = Pieces * Cardinality(files)
  OBVIOUS
<1>9. M!Free(d) = Capacity - Cardinality(M!Written(d)) - k /\ M!Owed(d, S) = Cardinality(M!Due(d, S))
  BY <1>8, Counts, Zenon DEF M!Owed, M!Free
<1> QED BY <1>3, <1>6, <1>7, <1>8, <1>9

LEMMA ClaimsAreLevels ==
  /\ UploadsInv => Claims \in Levels /\ \A u \in M!Uploads : Claim(u) \in 0..(2 * Pieces) /\ Claims[u] = Claim(u)
  /\ UploadsInv' => Claims' \in Levels /\ \A u \in M!Uploads : Claim(u)' \in 0..(2 * Pieces) /\ Claims'[u] = Claim(u)'
<1>1. ASSUME UploadsInv PROVE \A u \in M!Uploads : data[u] \in 0..Pieces
  BY <1>1 DEF UploadsInv, UploadFits, TypesFit
<1>2. ASSUME UploadsInv' PROVE \A u \in M!Uploads : data'[u] \in 0..Pieces
  BY <1>2 DEF UploadsInv, UploadFits, TypesFit
<1> QED BY <1>1, <1>2, UploadConstants DEF Claims, Claim, Levels

\* What an action on one upload leaves alone; and one that takes up no more room.
Alone(u) ==
  /\ files' = files
  /\ \A v \in M!Uploads \ {u} : UNCHANGED <<upload[v], data[v], receipt[v], worker[v]>>
Lighter(u) ==
  /\ Reserves(u)' => Reserves(u)
  /\ M!Done(u) => M!Done(u)'
  /\ Reserves(u) \/ data'[u] <= data[u]

LEMMA ClaimGetsLess ==
  ASSUME UploadsInv, UploadsInv', NEW u \in M!Uploads, Lighter(u) PROVE Claim(u)' <= Claim(u)
<1>1. data[u] \in 0..Pieces /\ data'[u] \in 0..Pieces
  BY DEF UploadsInv, UploadFits, TypesFit
<1> QED BY <1>1, UploadConstants DEF Claim, Lighter

\* When no claim grows, what fitted still fits.
LEMMA LessFits ==
  ASSUME UploadsInv, UploadsInv', RoomInv, files' = files, \A u \in M!Uploads : Claim(u)' <= Claim(u)
  PROVE  IsFiniteSet(files') /\ Cardinality(HeldBy(Claims')) + Pieces * Cardinality(files') <= Capacity
<1>1. /\ Claims \in Levels /\ Claims' \in Levels
      /\ \A u \in M!Uploads : Claims[u] = Claim(u) /\ Claims'[u] = Claim(u)'
  BY ClaimsAreLevels
<1>2. Cardinality(HeldBy(Claims')) <= Cardinality(HeldBy(Claims))
  BY <1>1, LessIsHeld
<1>3. Cardinality(HeldBy(Claims')) \in Nat /\ Cardinality(HeldBy(Claims)) \in Nat
  BY PiecesAreFinite
<1>4. Pieces * Cardinality(files) \in Nat /\ Capacity \in Nat
  BY UploadConstants, FS_CardinalityType, SafePartsAssumption DEF M!MediaUploadsAssumption, RoomInv
<1>5. PICK k \in Nat : k = Pieces * Cardinality(files)
  BY <1>4
<1>6. Cardinality(HeldBy(Claims)) + k <= Capacity
  BY <1>5 DEF RoomInv
<1>7. Cardinality(HeldBy(Claims')) + k <= Capacity
  BY <1>2, <1>3, <1>4, <1>6
<1> QED BY <1>5, <1>7 DEF RoomInv

LEMMA OthersHold ==
  ASSUME RoomInv, NEW u \in M!Uploads, Alone(u), NEW v \in M!Uploads \ {u}
  PROVE  Holds(v)' /\ Claim(v)' = Claim(v) /\ (Reserves(v)' <=> Reserves(v))
  BY DEF RoomInv, Alone, Holds, Claim, Reserves, M!Exists, M!Done

LEMMA LighterFits ==
  ASSUME UploadsInv, UploadsInv', RoomInv, NEW u \in M!Uploads, Alone(u), Lighter(u), Holds(u)'
  PROVE  RoomInv'
<1>1. ASSUME NEW v \in M!Uploads PROVE Holds(v)' /\ Claim(v)' <= Claim(v)
  <2>1. Claim(v) \in 0..(2 * Pieces)
    BY ClaimsAreLevels
  <2> QED BY <2>1, OthersHold, ClaimGetsLess, UploadConstants
<1>2. IsFiniteSet(files') /\ Cardinality(HeldBy(Claims')) + Pieces * Cardinality(files') <= Capacity
  BY <1>1, LessFits DEF Alone
<1> QED BY <1>1, <1>2 DEF RoomInv

\* After a check of the disk (reserve) the upload may be reserved.
LEMMA CheckedFits ==
  ASSUME UploadsInv, UploadsInv', RoomInv, NEW u \in M!Uploads, Alone(u), Holds(u)',
         M!Fits(u, data) \/ M!Fits(u, data')
  PROVE  RoomInv'
<1> DEFINE S == M!Reserved \cup {u}
           c == [v \in M!Uploads |-> IF v \in S THEN 2 * Pieces ELSE data[v]]
<1>1. ASSUME NEW v \in M!Uploads
      PROVE  /\ data[v] \in 0..Pieces /\ data'[v] \in 0..Pieces /\ c[v] \in 0..(2 * Pieces)
             /\ v # u => data'[v] = data[v]
  <2>1. data[v] \in 0..Pieces /\ data'[v] \in 0..Pieces
    BY DEF UploadsInv, UploadFits, TypesFit
  <2> QED BY <2>1, UploadConstants DEF Alone
<1>2. S \in SUBSET M!Uploads /\ c \in Levels /\ u \in S /\ \A v \in M!Uploads : c[v] = IF v \in S THEN 2 * Pieces ELSE data[v]
  BY <1>1 DEF M!Reserved, Levels
<1>3. \A v \in M!Uploads : Reserves(v)' => v \in S
  BY OthersHold DEF M!Reserved, Reserves
<1>4. M!Owed(data, S) <= M!Free(data) \/ M!Owed(data', S) <= M!Free(data')
  BY DEF M!Fits
<1> HIDE DEF S, c
<1>5. Cardinality(HeldBy(c)) + Pieces * Cardinality(files) <= Capacity
  <2>1. CASE M!Owed(data, S) <= M!Free(data)
    BY <1>1, <1>2, <2>1, CheckIsRoom DEF RoomInv
  <2>2. CASE M!Owed(data', S) <= M!Free(data')
    BY <1>1, <1>2, <2>2, CheckIsRoom DEF RoomInv
  <2> QED BY <1>4, <2>1, <2>2
<1>6. Cardinality(HeldBy(Claims')) <= Cardinality(HeldBy(c))
  <2>1. ASSUME NEW v \in M!Uploads PROVE Claims'[v] <= c[v]
    <3>1. Claims'[v] = Claim(v)'
      BY ClaimsAreLevels
    <3> QED BY <1>1, <1>2, <1>3, <3>1, UploadConstants DEF Claim
  <2>2. Claims' \in Levels
    BY ClaimsAreLevels
  <2> QED BY <1>2, <2>1, <2>2, LessIsHeld
<1>7. Cardinality(HeldBy(Claims')) \in Nat /\ Cardinality(HeldBy(c)) \in Nat
  BY PiecesAreFinite
<1>8. Pieces * Cardinality(files) \in Nat /\ Capacity \in Nat
  BY UploadConstants, FS_CardinalityType, SafePartsAssumption DEF M!MediaUploadsAssumption, RoomInv
<1>9. PICK k \in Nat : k = Pieces * Cardinality(files)
  BY <1>8
<1>10. Cardinality(HeldBy(Claims')) + k <= Capacity
  BY <1>5, <1>6, <1>7, <1>8, <1>9
<1>11. \A v \in M!Uploads : Holds(v)'
  BY OthersHold
<1> QED BY <1>9, <1>10, <1>11 DEF RoomInv, Alone

LEMMA StepsAreAlone ==
  ASSUME UploadsInv, NEW u \in M!Uploads, M!Request(u) \/ (M!Work(u) /\ ~M!Rename(u)) \/ M!Clean(u)
  PROVE  Alone(u)
<1>0. Domains
  BY DEF UploadsInv
<1> USE DEF Alone, Domains, M!pool, M!seen, M!Wrote, M!Grown
<1>1. CASE M!Create(u)
  BY <1>0, <1>1 DEF M!Create, M!Start
<1>2. CASE \E r \in Runtimes : M!Patch(u, r)
  BY <1>0, <1>2 DEF M!Patch
<1>3. CASE M!PatchSaves(u)
  BY <1>0, <1>3 DEF M!PatchSaves, M!Start
<1>4. CASE M!PatchFails(u)
  BY <1>0, <1>4 DEF M!PatchFails
<1>5. CASE \E r \in Runtimes : M!Poll(u, r)
  BY <1>0, <1>5 DEF M!Poll, M!Start
<1>6. CASE M!SendParts(u)
  BY <1>0, <1>6 DEF M!SendParts
<1>7. CASE \E r \in Runtimes : M!Complete(u, r)
  BY <1>0, <1>7 DEF M!Complete, M!Start
<1>8. CASE \E r \in Runtimes : M!RetryDrive(u, r)
  BY <1>0, <1>8 DEF M!RetryDrive, M!Start
<1>9. CASE M!Delete(u)
  BY <1>0, <1>9 DEF M!Delete, M!Abort
<1>10. CASE M!DeleteEnters(u)
  BY <1>0, <1>10 DEF M!DeleteEnters, M!Discard, M!Marked, M!Abort
<1>11. CASE M!Begin(u)
  BY <1>0, <1>11 DEF M!Begin, M!Discard, M!End
<1>12. CASE M!Wait(u)
  BY <1>0, <1>12 DEF M!Wait, M!Goes
<1>13. CASE M!Enter(u)
  BY <1>0, <1>13 DEF M!Enter, M!Goes
<1>14. CASE M!OpenDownload(u)
  BY <1>0, <1>14 DEF M!OpenDownload
<1>15. CASE M!Read(u)
  BY <1>0, <1>15 DEF M!Read
<1>16. CASE M!EndDownload(u)
  BY <1>0, <1>16 DEF M!EndDownload
<1>17. CASE M!Check(u)
  BY <1>0, <1>17 DEF M!Check, M!End
<1>18. CASE M!Probe(u)
  BY <1>0, <1>18 DEF M!Probe, M!Goes
<1>19. CASE M!Unreadable(u)
  BY <1>0, <1>19 DEF M!Unreadable, M!Discard, M!End
<1>20. CASE M!Publish(u)
  BY <1>0, <1>20 DEF M!Publish
<1>21. CASE M!Register(u)
  BY <1>0, <1>21 DEF M!Register, M!Goes
<1>22. CASE M!RemoveUpload(u)
  BY <1>0, <1>22 DEF M!RemoveUpload, M!Discard, M!End
<1>23. ASSUME NEW final \in BOOLEAN, M!Fails(u, final) PROVE Alone(u)
  <2>1. upload' = upload \/ \E s : M!Wrote(u, s)
    BY <1>23 DEF M!Fails, M!Failed, M!Discard
  <2>2. data' = data \/ \E n : data' = M!Grown(u, n)
    BY <1>23 DEF M!Fails, M!Failed, M!Discard
  <2> QED BY <1>0, <1>23, <2>1, <2>2 DEF M!Fails, M!End
<1>24. CASE M!FinishCancel(u)
  BY <1>0, <1>24 DEF M!FinishCancel, M!Discard
<1>25. CASE M!Expire(u)
  BY <1>0, <1>25 DEF M!Expire, M!Discard, M!Abort
<1>26. CASE M!CleanRemote(u)
  BY <1>0, <1>26 DEF M!CleanRemote
<1> QED
  <2>1. CASE M!Request(u)
    BY <2>1, <1>1, <1>2, <1>3, <1>4, <1>5, <1>6, <1>7, <1>8, <1>9, <1>10 DEF M!Request
  <2>2. CASE M!Work(u) /\ ~M!Rename(u)
    <3>1. CASE M!Stops(u) \/ M!Breaks(u)
      <4>1. \E final \in BOOLEAN : M!Fails(u, final)
        BY <3>1 DEF M!Stops, M!Breaks
      <4> QED BY <4>1, <1>23
    <3> QED BY <2>2, <3>1, <1>11, <1>12, <1>13, <1>14, <1>15, <1>16, <1>17, <1>18, <1>19, <1>20, <1>21, <1>22
            DEF M!Work
  <2>3. CASE M!Clean(u)
    BY <2>3, <1>24, <1>25, <1>26 DEF M!Clean
  <2> QED BY <2>1, <2>2, <2>3

\* Every operation that reserves has asked for the room first.
LEMMA ReservingFits ==
  ASSUME UploadsInv, UploadsInv', RoomInv, NEW u \in M!Uploads, M!Request(u) \/ (M!Work(u) /\ ~M!Rename(u)),
         M!Fits(u, data) \/ M!Fits(u, data'), M!Exists(u)' => upload'[u].reserved,
         worker'[u].at \notin {"register", "rename"}
  PROVE  RoomInv'
<1>1. Alone(u)
  BY StepsAreAlone
<1>2. Holds(u)'
  BY DEF Holds
<1> QED BY <1>1, <1>2, CheckedFits

LEMMA RequestsFit ==
  ASSUME UploadsInv, UploadsInv', RoomInv, NEW u \in M!Uploads,
         M!Create(u) \/ M!SendParts(u) \/ \E r \in Runtimes : M!Patch(u, r) \/ M!RetryDrive(u, r)
  PROVE  RoomInv'
<1> USE UploadConstants
<1>1. /\ TypesFit(u) /\ PatchFits(u) /\ LocalFits(u) /\ WorkerFits(u) /\ PublishingFits(u) /\ StillToCome(u) /\ Domains
  BY DEF UploadsInv, UploadFits
<1>2. CASE M!Create(u)
  <2>1. made \in 0..Len(Order) /\ made < Len(Order) /\ made' = made + 1 /\ u = Order[made + 1]
    BY <1>2, SafePartsAssumption DEF M!MediaUploadsAssumption, M!Create, UploadsInv
  <2>2. worker[u].at = "none"
    BY <1>1, <2>1, TheNextIsToCome DEF StillToCome
  <2>3. WorkerStays(u) \/ Begins(u)
    BY <1>1, <1>2, Starts DEF M!Create, WorkerStays
  <2>4. worker'[u].at \notin {"register", "rename"}
    BY <2>2, <2>3 DEF WorkerStays, Begins
  <2>5. upload'[u].reserved /\ M!Fits(u, data')
    BY <1>1, <1>2 DEF M!Create, M!Wrote, Domains
  <2> QED BY <1>2, <2>4, <2>5, ReservingFits DEF M!Request
<1>3. CASE M!SendParts(u)
  <2>1. upload'[u] = [upload[u] EXCEPT !.reserved = TRUE] /\ upload[u] \in M!States
    BY <1>1, <1>3 DEF M!SendParts, M!InPhase, M!Exists, M!Wrote, Domains, TypesFit
  <2>2. upload'[u].reserved /\ data' = data /\ worker' = worker
    BY <1>3, <2>1 DEF M!SendParts, M!States
  <2>3. M!Fits(u, data') /\ worker'[u].at \notin {"register", "rename"}
    BY <1>3, <2>2, Workers DEF M!SendParts
  <2> QED BY <1>3, <2>2, <2>3, ReservingFits DEF M!Request
<1>4. ASSUME NEW r \in Runtimes, M!Patch(u, r) PROVE RoomInv'
  <2>1. upload'[u] = [upload[u] EXCEPT !.reserved = TRUE] /\ upload[u] \in M!States
    BY <1>1, <1>4 DEF M!Patch, M!InPhase, M!Exists, M!Wrote, Domains, TypesFit
  <2>2. upload'[u].reserved /\ worker' = worker /\ worker[u].at \notin M!Publishing
    BY <1>4, <2>1 DEF M!Patch, M!States, M!Locked
  <2>3. M!Fits(u, data) /\ worker'[u].at \notin {"register", "rename"}
    BY <1>4, <2>2 DEF M!Patch, M!Publishing
  <2> QED BY <1>4, <2>2, <2>3, ReservingFits DEF M!Request
<1>5. ASSUME NEW r \in Runtimes, M!RetryDrive(u, r) PROVE RoomInv'
  <2>1. /\ upload'[u] = [upload[u] EXCEPT !.phase = "importing", !.reserved = TRUE] /\ upload[u] \in M!States
    BY <1>1, <1>5 DEF M!RetryDrive, M!InPhase, M!Exists, M!Wrote, Domains, TypesFit
  <2>2. upload'[u].reserved /\ data' = data /\ M!Fits(u, data')
    BY <1>5, <2>1 DEF M!RetryDrive, M!States
  <2>3. worker[u].at \notin M!Publishing /\ (WorkerStays(u) \/ Begins(u))
    BY <1>1, <1>5, Starts DEF M!RetryDrive, M!Locked
  <2>4. worker'[u].at \notin {"register", "rename"}
    BY <2>3 DEF WorkerStays, Begins, M!Publishing
  <2> QED BY <1>5, <2>2, <2>4, ReservingFits DEF M!Request
<1> QED BY <1>2, <1>3, <1>4, <1>5

LEMMA LighterSteps ==
  ASSUME UploadsInv, UploadsInv', RoomInv, NEW u \in M!Uploads,
         M!Request(u) \/ (M!Work(u) /\ ~M!Rename(u)) \/ M!Clean(u), Lighter(u), Holds(u)'
  PROVE  RoomInv'
<1>1. Alone(u)
  BY StepsAreAlone
<1> QED BY <1>1, LighterFits

LEMMA CompleteFits ==
  ASSUME UploadsInv, UploadsInv', RoomInv, NEW u \in M!Uploads, NEW r \in Runtimes, M!Complete(u, r)
  PROVE  RoomInv'
<1> USE UploadConstants
<1>1. TypesFit(u) /\ Domains /\ Holds(u) /\ M!Request(u)
  BY DEF UploadsInv, UploadFits, RoomInv, M!Request
<1>2. /\ upload[u] \in M!States /\ worker[u].at \notin M!Publishing /\ M!Fits(u, data)
      /\ UNCHANGED <<data, receipt, files>>
  BY <1>1 DEF M!Complete, M!Exists, M!Locked, TypesFit, M!pool
<1>3. CASE upload' = upload /\ worker' = worker
  BY <1>1, <1>2, <1>3, LighterSteps DEF Lighter, Holds, Reserves, M!Exists, M!Done, TypesFit
<1>4. CASE M!Wrote(u, [upload[u] EXCEPT !.phase = "importing", !.reserved = TRUE]) /\ M!Start(u, r)
  <2>1. upload'[u] = [upload[u] EXCEPT !.phase = "importing", !.reserved = TRUE]
    BY <1>1, <1>4 DEF M!Wrote, Domains
  <2>2. upload'[u].reserved
    BY <1>2, <2>1 DEF M!States
  <2>3. WorkerStays(u) \/ Begins(u)
    BY <1>1, <1>4, Starts
  <2>4. worker'[u].at \notin {"register", "rename"}
    BY <1>2, <2>3 DEF WorkerStays, Begins, M!Publishing
  <2> QED BY <1>1, <1>2, <2>2, <2>4, ReservingFits
<1> QED BY <1>3, <1>4 DEF M!Complete

LEMMA AnswersFit ==
  ASSUME UploadsInv, UploadsInv', RoomInv, NEW u \in M!Uploads,
         M!PatchSaves(u) \/ M!PatchFails(u) \/ M!Delete(u) \/ M!DeleteEnters(u) \/ \E r \in Runtimes : M!Poll(u, r)
  PROVE  RoomInv'
<1> USE UploadConstants
<1>1. /\ TypesFit(u) /\ PatchFits(u) /\ Domains /\ Holds(u) /\ M!Request(u)
      /\ data[u] \in 0..Pieces /\ data'[u] \in 0..Pieces /\ UNCHANGED <<receipt, files>>
  BY DEF UploadsInv, UploadFits, RoomInv, M!Request, TypesFit, M!PatchSaves, M!PatchFails, M!Delete, M!DeleteEnters,
         M!Poll, M!pool, M!seen
<1>2. SUFFICES Lighter(u) /\ Holds(u)'
  BY <1>1, LighterSteps
<1> USE DEF Lighter, Holds, Reserves, M!Exists, M!Done
<1>3. CASE M!PatchSaves(u)
  <2>1. upload[u] \in M!States /\ worker[u].at = "none" /\ upload[u].received + 1 \in 0..Pieces
    BY <1>1, <1>3 DEF M!PatchSaves, PatchFits, TypesFit, M!States
  <2>2. PICK n \in 0..Pieces : upload'[u] = [upload[u] EXCEPT !.received = n]
    BY <1>1, <1>3, <2>1 DEF M!PatchSaves, M!Wrote, Domains
  <2>3. upload'[u].reserved = upload[u].reserved
    BY <2>1, <2>2 DEF M!States
  <2>4. patch[u] \in Runtimes /\ data' = data /\ (M!Start(u, patch[u]) \/ worker' = worker)
    BY <1>1, <1>3 DEF M!PatchSaves, TypesFit
  <2>5. WorkerStays(u) \/ Begins(u)
    BY <1>1, <2>4, Starts DEF WorkerStays
  <2>6. worker'[u].at \in {"none", "wait", "begin"}
    BY <2>1, <2>5 DEF WorkerStays, Begins
  <2>7. Holds(u)'
    BY <2>6
  <2> QED BY <1>1, <2>1, <2>3, <2>4, <2>7
<1>4. CASE M!PatchFails(u)
  <2>1. UNCHANGED <<upload, worker>> /\ data'[u] = upload[u].received /\ data[u] = upload[u].received + 1
    BY <1>1, <1>4 DEF M!PatchFails, PatchFits, M!Grown, Domains
  <2> QED BY <1>1, <2>1
<1>5. CASE M!Delete(u)
  <2>1. UNCHANGED <<upload, data>> /\ worker'[u].at = worker[u].at
    BY <1>1, <1>5 DEF M!Delete, M!Abort, Domains, TypesFit, Jobs
  <2> QED BY <1>1, <2>1
<1>6. CASE M!DeleteEnters(u)
  <2>1. worker[u].at \notin {"register", "rename"} /\ worker'[u].at = worker[u].at
    BY <1>1, <1>6 DEF M!DeleteEnters, M!Locked, M!Publishing, M!Abort, Domains, TypesFit, Jobs
  <2>2. CASE M!Discard(u)
    <3>1. upload'[u] = Nobody /\ data'[u] = 0
      BY <1>1, <2>2 DEF M!Discard, M!Wrote, M!Grown, Domains
    <3> QED BY <1>1, <2>1, <3>1
  <2>3. CASE upload' = upload /\ data' = data
    BY <1>1, <2>1, <2>3
  <2>4. CASE M!Exists(u) /\ M!Marked(u) /\ data' = data
    <3>1. upload[u] \in M!States /\ upload'[u] = [upload[u] EXCEPT !.phase = "canceling"]
      BY <1>1, <2>4 DEF M!Marked, M!Wrote, Domains, TypesFit
    <3>2. upload'[u].reserved = upload[u].reserved
      BY <3>1 DEF M!States
    <3> QED BY <1>1, <2>1, <2>4, <3>2
  <2> QED BY <1>6, <2>2, <2>3, <2>4 DEF M!DeleteEnters
<1>7. ASSUME NEW r \in Runtimes, M!Poll(u, r) PROVE Lighter(u) /\ Holds(u)'
  <2>1. upload[u] \in M!States /\ worker[u].at = "none" /\ data' = data
    BY <1>1, <1>7, Workers DEF M!Poll, TypesFit
  <2>2. WorkerStays(u) \/ Begins(u)
    BY <1>1, <1>7, Starts DEF M!Poll
  <2>3. worker'[u].at \in {"none", "wait", "begin"}
    BY <2>1, <2>2 DEF WorkerStays, Begins
  <2>4. upload'[u] = upload[u] \/ upload'[u] = [upload[u] EXCEPT !.phase = "importing"]
    BY <1>1, <1>7 DEF M!Poll, M!Wrote, Domains
  <2>5. upload'[u].reserved = upload[u].reserved
    BY <2>1, <2>4 DEF M!States
  <2> QED BY <1>1, <1>7, <2>1, <2>3, <2>5 DEF M!Poll
<1> QED BY <1>3, <1>4, <1>5, <1>6, <1>7

\* Whoever enters a stage of the worker has asked for the room again.
LEMMA StagesFit ==
  ASSUME UploadsInv, UploadsInv', RoomInv, NEW u \in M!Uploads, M!Wait(u) \/ M!Enter(u) \/ M!OpenDownload(u)
  PROVE  RoomInv'
<1> USE UploadConstants
<1>1. /\ TypesFit(u) /\ Domains /\ Holds(u) /\ M!Work(u) /\ ~M!Rename(u) /\ UNCHANGED <<receipt, files>>
      /\ upload[u] \in M!States /\ worker[u] \in Jobs
  BY DEF UploadsInv, UploadFits, RoomInv, M!Work, M!Rename, TypesFit, M!Wait, M!Enter, M!OpenDownload, M!pool, M!seen,
         M!Alive, M!Exists
<1>2. CASE M!Wait(u)
  <2>1. worker'[u].at \in {"wait", "queue"} /\ data' = data
    BY <1>1, <1>2 DEF M!Wait, M!Goes, Domains, Jobs
  <2>2. upload'[u] = [upload[u] EXCEPT !.stage = worker[u].stage, !.reserved = upload[u].reserved \/ M!Fits(u, data)]
    BY <1>1, <1>2 DEF M!Wait, M!Wrote, Domains
  <2>3. CASE M!Fits(u, data)
    <3>1. (upload[u].reserved \/ M!Fits(u, data)) = TRUE
      BY <2>3
    <3>2. upload'[u] = [upload[u] EXCEPT !.stage = worker[u].stage, !.reserved = TRUE]
      BY <2>2, <3>1, Zenon
    <3>3. upload'[u].reserved
      BY <1>1, <3>2 DEF M!States
    <3> QED BY <1>1, <2>1, <2>3, <3>3, ReservingFits
  <2>4. CASE ~M!Fits(u, data)
    <3>1. upload[u].reserved \in BOOLEAN
      BY <1>1 DEF M!States
    <3>2. (upload[u].reserved \/ M!Fits(u, data)) = upload[u].reserved
      BY <2>4, <3>1
    <3>3. upload'[u] = [upload[u] EXCEPT !.stage = worker[u].stage, !.reserved = upload[u].reserved]
      BY <2>2, <3>2, Zenon
    <3>4. upload'[u].reserved = upload[u].reserved
      BY <1>1, <3>3 DEF M!States
    <3>5. Lighter(u) /\ Holds(u)'
      BY <1>1, <1>2, <2>1, <3>4 DEF Lighter, Holds, Reserves, M!Exists, M!Done, TypesFit, M!Wait, M!Alive
    <3> QED BY <1>1, <3>5, LighterSteps
  <2> QED BY <2>3, <2>4
<1>3. CASE M!Enter(u)
  <2>1. CASE M!Fits(u, data)
    <3>1. upload'[u] = [upload[u] EXCEPT !.reserved = TRUE] /\ worker'[u].at \in {"open", "check"}
      BY <1>1, <1>3, <2>1 DEF M!Enter, M!Goes, M!Wrote, Domains, Jobs
    <3>2. upload'[u].reserved
      BY <1>1, <3>1 DEF M!States
    <3> QED BY <1>1, <2>1, <3>1, <3>2, ReservingFits
  <2>2. CASE ~M!Fits(u, data)
    <3>1. UNCHANGED <<upload, data>> /\ worker'[u].at = "wait"
      BY <1>1, <1>3, <2>2 DEF M!Enter, M!Goes, Domains, Jobs
    <3>2. Lighter(u) /\ Holds(u)'
      BY <1>1, <3>1 DEF Lighter, Holds, Reserves, M!Exists, M!Done, TypesFit
    <3> QED BY <1>1, <3>2, LighterSteps
  <2> QED BY <2>1, <2>2
<1>4. CASE M!OpenDownload(u)
  <2>1. PICK n \in {0, upload[u].received} :
          /\ data' = M!Grown(u, n) /\ M!Fits(u, data')
          /\ upload' = [upload EXCEPT ![u] = [upload[u] EXCEPT !.received = n, !.reserved = TRUE]]
          /\ worker' = [worker EXCEPT ![u] = [worker[u] EXCEPT !.at = "read", !.got = n, !.hashed = n]]
    BY <1>4 DEF M!OpenDownload, M!Wrote
  <2>2. upload'[u] = [upload[u] EXCEPT !.received = n, !.reserved = TRUE]
        /\ worker'[u] = [worker[u] EXCEPT !.at = "read", !.got = n, !.hashed = n]
    BY <1>1, <2>1 DEF Domains
  <2>3. upload'[u].reserved /\ worker'[u].at = "read"
    BY <1>1, <2>2 DEF M!States, Jobs
  <2> QED BY <1>1, <2>1, <2>3, ReservingFits
<1> QED BY <1>2, <1>3, <1>4

\* A worker that reads, checks or publishes stays within its reservation.
LEMMA WorkFits ==
  ASSUME UploadsInv, UploadsInv', RoomInv, NEW u \in M!Uploads,
         M!Read(u) \/ M!EndDownload(u) \/ M!Check(u) \/ M!Probe(u) \/ M!Publish(u) \/ M!Register(u)
  PROVE  RoomInv'
<1> USE UploadConstants
<1>1. /\ TypesFit(u) /\ PublishingFits(u) /\ Domains /\ Holds(u) /\ M!Work(u) /\ ~M!Rename(u) /\ files' = files
      /\ worker[u] \in Jobs
  BY DEF UploadsInv, UploadFits, RoomInv, M!Work, M!Rename, TypesFit, M!Read, M!EndDownload, M!Check, M!Probe,
         M!Publish, M!Register, M!pool, M!seen
<1>2. SUFFICES Lighter(u) /\ Holds(u)'
  BY <1>1, LighterSteps
<1> USE DEF Lighter, Holds, Reserves, M!Exists, M!Done
<1>3. CASE M!Read(u)
  <2>1. upload[u] \in M!States /\ upload[u].reserved /\ receipt' = receipt
    BY <1>1, <1>3 DEF M!Read, M!Alive, TypesFit
  <2>2. worker[u].got + 1 \in 0..Pieces
    BY <1>1, <1>3 DEF M!Read, Jobs
  <2>3. PICK n \in 0..Pieces : upload'[u] = upload[u] \/ upload'[u] = [upload[u] EXCEPT !.received = n]
    BY <1>1, <1>3, <2>2 DEF M!Read, M!Wrote, Domains
  <2>4. upload'[u].reserved
    BY <2>1, <2>3 DEF M!States
  <2>5. worker'[u] = [worker[u] EXCEPT !.got = worker[u].got + 1, !.hashed = worker[u].hashed + 1]
    BY <1>1, <1>3 DEF M!Read, Domains
  <2>6. worker'[u].at = "read"
    BY <1>1, <1>3, <2>5 DEF M!Read, Jobs
  <2> QED BY <1>1, <1>3, <2>1, <2>4, <2>6 DEF M!Read, M!Alive
<1>4. CASE M!EndDownload(u)
  <2>1. upload[u] \in M!States /\ UNCHANGED <<data, receipt>> /\ worker'[u].at = "wait"
    BY <1>1, <1>4 DEF M!EndDownload, M!Alive, TypesFit, Domains, Jobs
  <2>2. upload'[u] = upload[u] \/ upload'[u] = [upload[u] EXCEPT !.received = Pieces, !.stage = "validation"]
    BY <1>1, <1>4 DEF M!EndDownload, M!Wrote, Domains
  <2>3. upload'[u].reserved = upload[u].reserved
    BY <2>1, <2>2 DEF M!States
  <2> QED BY <1>1, <1>4, <2>1, <2>3 DEF M!EndDownload, M!Alive, TypesFit
<1>5. CASE M!Check(u)
  <2>1. upload[u].reserved /\ UNCHANGED <<upload, receipt>>
    BY <1>1, <1>5 DEF M!Check, M!Alive
  <2>2. worker'[u] \in Jobs /\ worker'[u].at \in {"none", "probe"}
    <3>1. CASE M!Done(u)
      BY <1>1, <1>5, <3>1, Workers DEF M!Check, M!End, Domains
    <3>2. CASE ~M!Done(u)
      <4>1. PICK h : worker'[u] = [worker[u] EXCEPT !.at = "probe", !.hashed = h]
        BY <1>1, <1>5, <3>2 DEF M!Check, Domains
      <4>2. worker'[u].at = "probe"
        BY <1>1, <4>1 DEF Jobs
      <4> QED BY <4>2 DEF UploadsInv, UploadFits, TypesFit
    <3> QED BY <3>1, <3>2
  <2> QED BY <1>1, <1>5, <2>1, <2>2 DEF M!Check, M!Alive
<1>6. CASE M!Probe(u)
  <2>1. UNCHANGED <<upload, data, receipt>> /\ worker[u].at = "probe" /\ worker'[u].at = "publish"
    BY <1>1, <1>6 DEF M!Probe, M!Goes, Domains, Jobs
  <2> QED BY <1>1, <2>1 DEF TypesFit
<1>7. CASE M!Publish(u)
  <2>1. UNCHANGED <<upload, data, receipt>> /\ worker[u].at = "publish"
    BY <1>7 DEF M!Publish, M!pool, M!seen
  <2>2. worker'[u].at = "register"
    BY <1>1, <1>7 DEF M!Publish, Domains, Jobs
  <2> QED BY <1>1, <1>7, <2>1, <2>2 DEF M!Publish, M!Alive, TypesFit
<1>8. CASE M!Register(u)
  <2>1. UNCHANGED <<upload, data>> /\ worker[u].at = "register" /\ worker[u].media = content[u]
    BY <1>1, <1>8 DEF M!Register, PublishingFits, M!Publishing, M!seen, M!pool
  <2>2. receipt'[u] = [media |-> content[u], remote |-> kind[u] = "r2"]
    BY <1>1, <1>8, <2>1 DEF M!Register, Domains
  <2>3. receipt'[u].media = content[u] /\ receipt'[u] # Nobody
    <3>1. receipt'[u] \in M!Receipts
      BY <1>1, <2>2 DEF TypesFit, M!Receipts
    <3> QED BY <2>2, <3>1
  <2>4. worker'[u].at \in {"remove", "rename"}
    BY <1>1, <1>8 DEF M!Register, M!Goes, Domains, Jobs
  <2> QED BY <1>1, <2>1, <2>3, <2>4 DEF PublishingFits, TypesFit
<1> QED BY <1>3, <1>4, <1>5, <1>6, <1>7, <1>8

\* What ends an upload or its worker gives room back.
LEMMA EndsFit ==
  ASSUME UploadsInv, UploadsInv', RoomInv, NEW u \in M!Uploads,
         M!Begin(u) \/ M!Unreadable(u) \/ M!RemoveUpload(u) \/ M!Clean(u)
  PROVE  RoomInv'
<1> USE UploadConstants
<1>1. /\ TypesFit(u) /\ Domains /\ Holds(u) /\ (M!Clean(u) \/ (M!Work(u) /\ ~M!Rename(u))) /\ files' = files
      /\ worker[u] \in Jobs /\ worker'[u] \in Jobs /\ data[u] \in 0..Pieces
  BY DEF UploadsInv, UploadFits, RoomInv, M!Work, M!Rename, TypesFit, M!Begin, M!Unreadable, M!RemoveUpload, M!Clean,
         M!FinishCancel, M!Expire, M!CleanRemote, M!pool, M!seen
<1>2. SUFFICES Lighter(u) /\ Holds(u)'
  BY <1>1, LighterSteps
<1>3. M!Discard(u) => upload'[u] = Nobody /\ data'[u] = 0
  BY <1>1 DEF M!Discard, M!Wrote, M!Grown, Domains
<1>4. M!End(u) => worker'[u].at = "none"
  BY <1>1, Workers DEF M!End, Domains
<1> USE DEF Lighter, Holds, Reserves, M!Exists, M!Done
<1>5. CASE M!Begin(u)
  <2>1. receipt' = receipt
    BY <1>5 DEF M!Begin
  <2>2. CASE M!Discard(u) /\ M!End(u)
    BY <1>1, <1>3, <1>4, <2>1, <2>2
  <2>3. CASE ~M!Done(u)
    <3>1. UNCHANGED <<upload, data>>
      BY <1>5, <2>3 DEF M!Begin
    <3>2. worker'[u].at \in {"none", "wait"}
      <4>1. CASE ~M!Alive(u) \/ ~M!Workable(u)
        BY <1>1, <1>5, <2>3, <4>1, Workers DEF M!Begin, Domains
      <4>2. CASE M!Alive(u) /\ M!Workable(u)
        <5>1. PICK n, s : worker'[u] = [worker[u] EXCEPT !.at = "wait", !.got = n, !.stage = s]
          BY <1>1, <1>5, <2>3, <4>2 DEF M!Begin, Domains
        <5> QED BY <1>1, <5>1 DEF Jobs
      <4> QED BY <4>1, <4>2
    <3> QED BY <1>1, <2>1, <3>1, <3>2
  <2> QED BY <1>5, <2>2, <2>3 DEF M!Begin
<1>6. CASE M!Unreadable(u)
  BY <1>1, <1>3, <1>4, <1>6 DEF M!Unreadable
<1>7. CASE M!RemoveUpload(u)
  BY <1>1, <1>3, <1>4, <1>7 DEF M!RemoveUpload
<1>8. CASE M!FinishCancel(u)
  <2>1. UNCHANGED <<receipt, worker>> /\ worker[u].at = "none"
    BY <1>8, Workers DEF M!FinishCancel
  <2>2. CASE M!Discard(u)
    BY <1>1, <1>3, <2>1, <2>2
  <2>3. CASE M!Wrote(u, [upload[u] EXCEPT !.reserved = FALSE, !.stage = "none"]) /\ data' = M!Grown(u, 0)
    <3>1. upload[u] \in M!States /\ upload'[u] = [upload[u] EXCEPT !.reserved = FALSE, !.stage = "none"] /\ data'[u] = 0
      BY <1>1, <1>8, <2>3 DEF M!FinishCancel, M!InPhase, M!Wrote, M!Grown, Domains, TypesFit
    <3>2. ~upload'[u].reserved
      BY <3>1 DEF M!States
    <3> QED BY <1>1, <2>1, <3>1, <3>2
  <2> QED BY <1>8, <2>2, <2>3 DEF M!FinishCancel
<1>9. CASE M!Expire(u)
  <2>1. receipt' = receipt /\ worker[u].at \notin {"register", "rename"}
    BY <1>9 DEF M!Expire, M!Locked, M!Publishing
  <2>2. worker'[u].at = worker[u].at
    BY <1>1, <1>9 DEF M!Expire, M!Abort, Domains, Jobs
  <2> QED BY <1>1, <1>3, <1>9, <2>1, <2>2 DEF M!Expire
<1>10. CASE M!CleanRemote(u)
  <2>1. UNCHANGED <<upload, data, worker>> /\ receipt[u] \in M!Receipts
    BY <1>1, <1>10 DEF M!CleanRemote, M!MayClean, TypesFit
  <2>2. PICK b \in BOOLEAN : receipt'[u] = [receipt[u] EXCEPT !.remote = b]
    BY <1>1, <1>10 DEF M!CleanRemote, Domains
  <2>3. receipt'[u].media = receipt[u].media /\ receipt'[u] \in M!Receipts
    BY <2>1, <2>2 DEF M!Receipts
  <2> QED BY <1>1, <2>1, <2>3
<1> QED BY <1>5, <1>6, <1>7, <1>8, <1>9, <1>10 DEF M!Clean

LEMMA FailuresFit ==
  ASSUME UploadsInv, UploadsInv', RoomInv, NEW u \in M!Uploads, M!Stops(u) \/ M!Breaks(u)
  PROVE  RoomInv'
<1> USE UploadConstants
<1>1. PICK final \in BOOLEAN : M!Fails(u, final)
  BY DEF M!Stops, M!Breaks
<1>2. /\ TypesFit(u) /\ Domains /\ M!Work(u) /\ ~M!Rename(u) /\ UNCHANGED <<receipt, files>> /\ data[u] \in 0..Pieces
  BY <1>1 DEF UploadsInv, UploadFits, M!Work, M!Rename, TypesFit, M!Fails, M!pool, M!Stops, M!Breaks, M!Working
<1>3. worker'[u].at = "none"
  BY <1>1, <1>2, Workers DEF M!Fails, M!End, Domains
<1>4. Lighter(u)
  <2> USE DEF Lighter, Reserves, M!Exists, M!Done
  <2>1. CASE kind[u] = "local" /\ upload[u] # Nobody
    <3>1. upload'[u] = [upload[u] EXCEPT !.reserved = FALSE, !.stage = "none"] /\ data' = data /\ upload[u] \in M!States
      BY <1>1, <1>2, <2>1 DEF M!Fails, M!Failed, M!Wrote, Domains, TypesFit
    <3>2. ~upload'[u].reserved
      BY <3>1 DEF M!States
    <3> QED BY <1>2, <3>1, <3>2
  <2>2. CASE kind[u] # "local" /\ M!Done(u)
    <3>1. upload'[u] = Nobody /\ data'[u] = 0
      BY <1>1, <1>2, <2>2 DEF M!Fails, M!Failed, M!Discard, M!Wrote, M!Grown, Domains
    <3> QED BY <1>2, <3>1
  <2>3. CASE kind[u] # "local" /\ ~M!Done(u) /\ M!Alive(u) /\ ~M!InPhase(u, "canceling")
    <3>1. PICK n :
            upload'[u] = [upload[u] EXCEPT !.reserved = FALSE, !.stage = "none", !.phase = "failed", !.final = final,
                                           !.received = n]
      <4>1. CASE kind[u] = "r2" \/ final
        BY <1>1, <1>2, <2>3, <4>1 DEF M!Fails, M!Failed, M!Wrote, Domains
      <4>2. CASE ~(kind[u] = "r2" \/ final)
        BY <1>1, <1>2, <2>3, <4>2 DEF M!Fails, M!Failed, M!Wrote, Domains
      <4> QED BY <4>1, <4>2
    <3>2. data'[u] \in {0, data[u]} /\ upload[u] \in M!States
      BY <1>1, <1>2, <2>3 DEF M!Fails, M!Failed, M!Grown, Domains, TypesFit, M!Alive
    <3>3. ~upload'[u].reserved
      BY <3>1, <3>2 DEF M!States
    <3> QED BY <1>2, <2>3, <3>2, <3>3
  <2>4. CASE /\ ~(kind[u] = "local" /\ upload[u] # Nobody) /\ ~(kind[u] # "local" /\ M!Done(u))
             /\ ~(kind[u] # "local" /\ ~M!Done(u) /\ M!Alive(u) /\ ~M!InPhase(u, "canceling"))
    <3>1. UNCHANGED <<upload, data>>
      BY <1>1, <2>4 DEF M!Fails, M!Failed
    <3> QED BY <1>2, <3>1
  <2> QED BY <2>1, <2>2, <2>3, <2>4
<1>5. Holds(u)'
  BY <1>3 DEF Holds
<1> QED BY <1>2, <1>4, <1>5, LighterSteps

\* A file that enters the pool takes the room of the copy that its upload was owed.
LEMMA RenameFits ==
  ASSUME UploadsInv, UploadsInv', RoomInv, NEW u \in M!Uploads, M!Rename(u)
  PROVE  RoomInv'
<1> USE UploadConstants
<1>1. /\ TypesFit(u) /\ PublishingFits(u) /\ Domains /\ Holds(u) /\ worker[u] \in Jobs
      /\ worker[u].at = "rename" /\ data'[u] = 0 /\ UNCHANGED <<upload, receipt>>
      /\ worker'[u].at = "remove" /\ \A v \in M!Uploads \ {u} : UNCHANGED <<data[v], worker[v]>>
  BY DEF UploadsInv, UploadFits, RoomInv, TypesFit, M!Rename, M!Goes, M!Grown, M!seen, Domains, Jobs
<1>2. /\ worker[u].media = content[u] /\ files' = files \cup {content[u]}
      /\ receipt[u] # Nobody /\ receipt[u].media = content[u]
  BY <1>1 DEF PublishingFits, M!Rename, M!Publishing
<1>3. Holds(u)' /\ Reserves(u) /\ data[u] \in 0..Pieces
  BY <1>1 DEF Holds, Reserves, M!Exists, TypesFit
<1>4. CASE content[u] \in files
  <2>1. Alone(u)
    BY <1>1, <1>2, <1>4 DEF Alone
  <2>2. Lighter(u)
    BY <1>1, <1>2, <1>3, <1>4 DEF Lighter, Reserves, M!Exists, M!Done
  <2> QED BY <1>3, <2>1, <2>2, LighterFits
<1>5. CASE content[u] \notin files
  <2> DEFINE D == {u} \X ((Pieces + 1)..(2 * Pieces))
  <2>1. Claim(u) = 2 * Pieces /\ Claim(u)' = Pieces
    <3>1. ~M!Done(u) /\ M!Done(u)' /\ Reserves(u)'
      BY <1>1, <1>2, <1>3, <1>5 DEF M!Done, Reserves, M!Exists
    <3> QED BY <1>3, <3>1 DEF Claim
  <2>2. ASSUME NEW v \in M!Uploads \ {u} PROVE Holds(v)' /\ Claim(v)' <= Claim(v)
    <3>1. data[v] \in 0..Pieces
      BY DEF UploadsInv, UploadFits, TypesFit
    <3>2. (Reserves(v)' <=> Reserves(v)) /\ (M!Done(v) => M!Done(v)') /\ data'[v] = data[v]
      BY <1>1, <1>2 DEF Reserves, M!Exists, M!Done
    <3> QED BY <1>1, <3>1, <3>2 DEF RoomInv, Holds, Claim, M!Exists
  <2>3. /\ \A v \in M!Uploads : Claims[v] = Claim(v) /\ Claims'[v] = Claim(v)'
        /\ \A v \in M!Uploads : Claim(v) \in 0..(2 * Pieces) /\ Claim(v)' \in 0..(2 * Pieces)
    BY ClaimsAreLevels
  <2>4. D \in SUBSET HeldBy(Claims) /\ HeldBy(Claims') \in SUBSET HeldBy(Claims) /\ HeldBy(Claims') \cap D = {}
    <3>1. ASSUME NEW x \in D PROVE x \in HeldBy(Claims) /\ x \notin HeldBy(Claims')
      <4>1. x \in M!Uploads \X (1..(2 * Pieces)) /\ x[1] = u /\ x[2] \in (Pieces + 1)..(2 * Pieces)
        OBVIOUS
      <4> QED BY <2>1, <2>3, <4>1 DEF HeldBy
    <3>2. ASSUME NEW x \in HeldBy(Claims') PROVE x \in HeldBy(Claims)
      <4>1. x \in M!Uploads \X (1..(2 * Pieces)) /\ x[2] <= Claims'[x[1]] /\ x[1] \in M!Uploads /\ x[2] \in Nat
        BY DEF HeldBy
      <4>2. Claim(x[1])' <= Claim(x[1]) /\ Claim(x[1]) \in Nat /\ Claim(x[1])' \in Nat
        BY <2>1, <2>2, <2>3, <4>1
      <4>3. x[2] <= Claims[x[1]]
        BY <2>3, <4>1, <4>2
      <4> QED BY <4>1, <4>3 DEF HeldBy
    <3> HIDE DEF D
    <3> QED BY <3>1, <3>2
  <2>5. IsFiniteSet(D) /\ Cardinality(D) = Pieces
    <3>1. IsFiniteSet((Pieces + 1)..(2 * Pieces)) /\ Cardinality((Pieces + 1)..(2 * Pieces)) = Pieces
      BY FS_Interval
    <3>2. IsFiniteSet({u}) /\ Cardinality({u}) = 1
      BY FS_Singleton
    <3>3. IsFiniteSet(D) /\ Cardinality(D) = Cardinality({u}) * Cardinality((Pieces + 1)..(2 * Pieces))
      BY <3>1, <3>2, FS_Product
    <3> QED BY <3>1, <3>2, <3>3
  <2> HIDE DEF D
  <2>6. Cardinality(HeldBy(Claims')) + Pieces <= Cardinality(HeldBy(Claims))
    <3>1. HeldBy(Claims') \cup D \in SUBSET HeldBy(Claims)
      BY <2>4
    <3>2. Cardinality(HeldBy(Claims') \cup D) <= Cardinality(HeldBy(Claims))
      BY <3>1, PiecesAreFinite, FS_Subset
    <3>3. Cardinality(HeldBy(Claims') \cup D)
            = Cardinality(HeldBy(Claims')) + Cardinality(D) - Cardinality(HeldBy(Claims') \cap D)
      BY <2>5, PiecesAreFinite, FS_Union
    <3>4. Cardinality({}) = 0
      BY FS_EmptySet
    <3>5. Cardinality(HeldBy(Claims') \cap D) = 0
      BY <2>4, <3>4, Zenon
    <3>6. Cardinality(HeldBy(Claims')) \in Nat
      BY PiecesAreFinite
    <3> QED BY <2>5, <3>2, <3>3, <3>5, <3>6
  <2>7. IsFiniteSet(files') /\ Cardinality(files') = Cardinality(files) + 1 /\ Cardinality(files) \in Nat
    BY <1>2, <1>5, FS_AddElement, FS_CardinalityType DEF RoomInv
  <2>8. Pieces * Cardinality(files') = Pieces * Cardinality(files) + Pieces /\ Pieces * Cardinality(files) \in Nat
    <3>1. \A n \in Nat : Pieces * (n + 1) = Pieces * n + Pieces /\ Pieces * n \in Nat
      OBVIOUS
    <3> QED BY <2>7, <3>1
  <2>9. Cardinality(HeldBy(Claims')) + Pieces * Cardinality(files') <= Capacity
    <3>1. Cardinality(HeldBy(Claims')) \in Nat /\ Cardinality(HeldBy(Claims)) \in Nat /\ Capacity \in Nat
      BY PiecesAreFinite, SafePartsAssumption DEF M!MediaUploadsAssumption
    <3>2. Cardinality(HeldBy(Claims)) + Pieces * Cardinality(files) <= Capacity
      BY DEF RoomInv
    <3>3. PICK k, l : k = Pieces * Cardinality(files) /\ l = Pieces * Cardinality(files')
      OBVIOUS
    <3>4. Cardinality(HeldBy(Claims')) + l <= Capacity
      BY <2>6, <2>8, <3>1, <3>2, <3>3
    <3> QED BY <3>3, <3>4
  <2>10. \A v \in M!Uploads : Holds(v)'
    BY <1>3, <2>2
  <2> QED BY <2>7, <2>9, <2>10 DEF RoomInv
<1> QED BY <1>4, <1>5

\* Among any uploads one was created last.
LEMMA OneIsLast ==
  ASSUME NEW S \in SUBSET M!Uploads, S # {}
  PROVE  \E u \in S : M!Earlier(u, S) \cup {u} = S
<1> DEFINE Places == {n \in Nat : \E i \in DOMAIN Order : Order[i] \in S /\ n = Len(Order) - i}
           R == OpToRel(<, Nat)
<1>1. /\ Len(Order) \in Nat /\ DOMAIN Order = 1..Len(Order) /\ M!Uploads = {Order[i] : i \in DOMAIN Order}
  BY SafePartsAssumption DEF M!MediaUploadsAssumption, M!Uploads, M!ToSet
<1>2. Places \in SUBSET Nat /\ Places # {}
  <2>1. PICK i \in 1..Len(Order) : Order[i] \in S
    BY <1>1
  <2>2. Len(Order) - i \in Places
    <3>1. Len(Order) - i \in Nat /\ i \in DOMAIN Order
      BY <1>1
    <3> QED BY <2>1, <3>1
  <2> QED BY <2>2
<1>3. \E x \in Places : \A y \in Places : <<y, x>> \notin R
  <2>1. IsWellFoundedOn(R, Nat)
    BY NatLessThanWellFounded
  <2> HIDE DEF R, Places
  <2> QED BY <1>2, <2>1, WFMin, Zenon
<1>4. ASSUME NEW y \in Nat, NEW x \in Nat, y < x PROVE <<y, x>> \in R
  <2>1. \A q \in Nat \X Nat : q[1] < q[2] => q \in R
    BY Zenon DEF OpToRel
  <2>2. <<y, x>> \in Nat \X Nat /\ <<y, x>>[1] = y /\ <<y, x>>[2] = x
    OBVIOUS
  <2> HIDE DEF R
  <2> QED BY <1>4, <2>1, <2>2
<1>5. PICK x \in Places : \A y \in Places : x <= y
  <2>1. PICK x \in Places : \A y \in Places : <<y, x>> \notin R
    BY <1>3
  <2> HIDE DEF R, Places
  <2>2. ASSUME NEW y \in Places PROVE x <= y
    <3>1. x \in Nat /\ y \in Nat /\ <<y, x>> \notin R
      BY <1>2, <2>1
    <3>2. ~(y < x)
      BY <1>4, <3>1
    <3> QED BY <3>1, <3>2
  <2> QED BY <2>2
<1>6. PICK i \in 1..Len(Order) : Order[i] \in S /\ x = Len(Order) - i
  BY <1>1
<1>7. ASSUME NEW v \in S, v # Order[i] PROVE v \in M!Earlier(Order[i], S)
  <2>1. PICK j \in 1..Len(Order) : Order[j] = v
    BY <1>1
  <2>2. Len(Order) - j \in Places
    <3>1. Len(Order) - j \in Nat /\ j \in DOMAIN Order /\ Order[j] \in S
      BY <1>1, <2>1
    <3> QED BY <3>1
  <2>3. j < i
    <3>1. x <= Len(Order) - j
      BY <1>5, <2>2
    <3>2. j # i
      BY <1>6, <1>7, <2>1
    <3>3. Len(Order) \in Nat
      BY <1>1
    <3> HIDE DEF Places
    <3> QED BY <1>6, <2>1, <3>1, <3>2, <3>3
  <2> QED BY <1>1, <2>1, <2>3 DEF M!Earlier
<1> QED BY <1>6, <1>7 DEF M!Earlier

\* After a restart the last of those that got a reservation was checked beside all others.
LEMMA RestartFits == ASSUME UploadsInv, UploadsInv', RoomInv, M!Restart PROVE RoomInv'
<1> USE UploadConstants
<1> DEFINE left == {u \in M!Uploads : M!Exists(u) /\ ~M!Done(u)}
           kept == [u \in M!Uploads |-> IF M!Done(u) THEN 0 ELSE data[u]]
           going == {u \in left : upload[u].phase \notin {"failed", "canceling"}}
           r == CHOOSE x \in Runtimes : TRUE
<1>1. PICK owners \in SUBSET going :
      /\ M!Own(owners, going, kept)
      /\ upload' = [u \in M!Uploads |-> IF u \in left THEN [upload[u] EXCEPT !.reserved = u \in owners] ELSE Nobody]
  BY DEF M!Restart
<1>2. /\ data' = kept /\ files' = files
      /\ worker' = [u \in M!Uploads |-> IF u \in going /\ M!Workable(u) THEN M!NewJob(u, r) ELSE M!NoJob]
  BY DEF M!Restart, M!pool
<1>3. r \in Runtimes
  BY SafePartsAssumption DEF M!MediaUploadsAssumption
<1>4. ASSUME NEW u \in M!Uploads PROVE Holds(u)'
  <2>1. worker'[u].at \in {"none", "wait", "begin"}
    BY <1>2, <1>3, Workers
  <2> QED BY <2>1 DEF Holds
<1>5. ASSUME NEW u \in M!Uploads
      PROVE  data[u] \in 0..Pieces /\ kept[u] \in 0..Pieces /\ kept[u] <= data[u] /\ kept[u] = data'[u]
  BY <1>2 DEF UploadsInv, UploadFits, TypesFit
<1>6. ASSUME NEW u \in M!Uploads, Reserves(u)' PROVE u \in owners
  <2>1. u \in left /\ upload[u] \in M!States
    BY <1>1, <1>6 DEF Reserves, M!Exists, UploadsInv, UploadFits, TypesFit
  <2>2. SUFFICES ASSUME u \notin owners PROVE FALSE
    OBVIOUS
  <2>3. upload'[u] = [upload[u] EXCEPT !.reserved = FALSE]
    <3>1. (u \in owners) = FALSE
      BY <2>2
    <3>2. upload'[u] = [upload[u] EXCEPT !.reserved = u \in owners]
      BY <1>1, <2>1
    <3> QED BY <3>1, <3>2, ZenonT(40)
  <2> QED BY <1>6, <2>1, <2>3 DEF Reserves, M!States
<1>7. owners \subseteq going /\ owners \in SUBSET M!Uploads
  BY <1>1
<1>8. IsFiniteSet(files') /\ Cardinality(HeldBy(Claims')) + Pieces * Cardinality(files') <= Capacity
  <2>1. CASE owners = {}
    <3>1. ASSUME NEW u \in M!Uploads PROVE Claim(u)' <= Claim(u)
      BY <1>5, <1>6, <2>1 DEF Claim
    <3> QED BY <1>2, <3>1, LessFits
  <2>2. CASE owners # {}
    <3> DEFINE c == [u \in M!Uploads |-> IF u \in owners THEN 2 * Pieces ELSE kept[u]]
    <3>1. PICK u \in owners : M!Earlier(u, owners) \cup {u} = owners
      BY <1>7, <2>2, OneIsLast
    <3>2. M!Owed(kept, owners) <= M!Free(kept)
      <4> HIDE DEF kept, going
      <4>1. M!Owed(kept, M!Earlier(u, owners) \cup {u}) <= M!Free(kept)
        BY <1>1, <1>7 DEF M!Own
      <4> QED BY <3>1, <4>1
    <3>3. c \in Levels /\ \A v \in M!Uploads : c[v] = IF v \in owners THEN 2 * Pieces ELSE kept[v]
      BY <1>5 DEF Levels
    <3>4. ASSUME NEW v \in M!Uploads PROVE Claims'[v] <= c[v]
      <4>1. Claims'[v] = Claim(v)'
        BY ClaimsAreLevels
      <4> QED BY <1>5, <1>6, <3>3, <4>1 DEF Claim
    <3> HIDE DEF c, kept, going, left
    <3>5. Cardinality(HeldBy(c)) + Pieces * Cardinality(files) <= Capacity
      BY <1>5, <1>7, <3>2, <3>3, CheckIsRoom DEF RoomInv
    <3>6. Cardinality(HeldBy(Claims')) <= Cardinality(HeldBy(c))
      BY <3>3, <3>4, ClaimsAreLevels, LessIsHeld
    <3>7. Cardinality(HeldBy(Claims')) \in Nat /\ Cardinality(HeldBy(c)) \in Nat /\ Capacity \in Nat
      BY PiecesAreFinite, SafePartsAssumption DEF M!MediaUploadsAssumption
    <3>8. PICK k \in Nat : k = Pieces * Cardinality(files)
      BY FS_CardinalityType DEF RoomInv
    <3>9. Cardinality(HeldBy(Claims')) + k <= Capacity
      BY <3>5, <3>6, <3>7, <3>8
    <3> QED BY <1>2, <3>8, <3>9 DEF RoomInv
  <2> QED BY <2>1, <2>2
<1> QED BY <1>4, <1>8 DEF RoomInv

LEMMA RoomStarts == ASSUME M!Init PROVE RoomInv
<1> USE UploadConstants
<1>1. ASSUME NEW u \in M!Uploads PROVE Holds(u) /\ Claims[u] = 0
  BY Workers DEF M!Init, Holds, Claims, Claim, Reserves, M!Exists
<1>2. HeldBy(Claims) = {}
  <2>1. ASSUME NEW x \in HeldBy(Claims) PROVE FALSE
    <3>1. x[1] \in M!Uploads /\ x[2] \in 1..(2 * Pieces) /\ x[2] <= Claims[x[1]]
      BY DEF HeldBy
    <3> QED BY <1>1, <3>1
  <2> QED BY <2>1
<1>3. files = {} /\ IsFiniteSet({}) /\ Cardinality({}) = 0 /\ Capacity \in Nat
  BY FS_EmptySet, SafePartsAssumption DEF M!Init, M!MediaUploadsAssumption
<1>4. Cardinality(HeldBy(Claims)) = 0 /\ Cardinality(files) = 0
  BY <1>2, <1>3, Zenon
<1> QED BY <1>1, <1>3, <1>4 DEF RoomInv

LEMMA RoomRests == ASSUME RoomInv, UNCHANGED mVars PROVE RoomInv'
<1>1. Claims' = Claims /\ files' = files
  BY DEF mVars, Claims, Claim, Reserves, M!Exists, M!Done
<1>2. \A u \in M!Uploads : Holds(u)'
  BY DEF mVars, RoomInv, Holds, M!Exists
<1> QED BY <1>1, <1>2 DEF RoomInv

LEMMA RoomMoves == ASSUME UploadsInv, UploadsInv', RoomInv, M!Next PROVE RoomInv'
<1>1. ASSUME NEW u \in M!Uploads, M!Request(u) PROVE RoomInv'
  BY <1>1, RequestsFit, CompleteFits, AnswersFit DEF M!Request
<1>2. ASSUME NEW u \in M!Uploads, M!Work(u) PROVE RoomInv'
  BY <1>2, StagesFit, WorkFits, EndsFit, FailuresFit, RenameFits DEF M!Work
<1>3. ASSUME NEW u \in M!Uploads, M!Clean(u) PROVE RoomInv'
  BY <1>3, EndsFit
<1> QED BY <1>1, <1>2, <1>3, RestartFits DEF M!Next

LEMMA RoomInvariance == SafeSpec => []RoomInv
<1>1. SafeInit => RoomInv
  BY RoomStarts DEF SafeInit
<1>2. UploadsInv /\ UploadsInv' /\ RoomInv /\ [SafeNext]_<<part, vars, pVars, mVars>> => RoomInv'
  BY RoomRests, RoomMoves DEF SafeNext
<1> QED BY <1>1, <1>2, UploadsInvariance, PTL DEF SafeSpec

\* What was promised to the uploads fits on the disk together with all that lies there, for
\* any number of uploads and any room, across retries, failures and restarts (assertClaims).
THEOREM PromisesAreKept == SafeSpec => []PromisesFit
<1> DEFINE S == {u \in M!Reserved : ~M!Done(u)}
           c == [u \in M!Uploads |-> IF u \in S THEN 2 * Pieces ELSE data[u]]
<1>1. ASSUME UploadsInv, RoomInv PROVE M!Owed(data, S) <= M!Free(data)
  <2>1. ASSUME NEW u \in M!Uploads PROVE data[u] \in 0..Pieces /\ c[u] \in 0..(2 * Pieces) /\ c[u] <= Claims[u]
    <3>1. data[u] \in 0..Pieces /\ Claims[u] = Claim(u)
      BY <1>1, ClaimsAreLevels DEF UploadsInv, UploadFits, TypesFit
    <3> QED BY <3>1, UploadConstants DEF Claim, M!Reserved, Reserves
  <2>2. S \in SUBSET M!Uploads /\ c \in Levels /\ \A u \in M!Uploads : c[u] = IF u \in S THEN 2 * Pieces ELSE data[u]
    BY <2>1 DEF M!Reserved, Levels
  <2> HIDE DEF S, c
  <2>3. Cardinality(HeldBy(c)) <= Cardinality(HeldBy(Claims))
    BY <1>1, <2>1, <2>2, ClaimsAreLevels, LessIsHeld
  <2>4. Cardinality(HeldBy(Claims)) \in Nat /\ Cardinality(HeldBy(c)) \in Nat /\ Capacity \in Nat
    BY PiecesAreFinite, SafePartsAssumption DEF M!MediaUploadsAssumption
  <2>5. PICK k \in Nat : k = Pieces * Cardinality(files)
    BY <1>1, UploadConstants, FS_CardinalityType DEF RoomInv
  <2>6. Cardinality(HeldBy(c)) + k <= Capacity
    BY <1>1, <2>3, <2>4, <2>5 DEF RoomInv
  <2> QED BY <1>1, <2>1, <2>2, <2>5, <2>6, CheckIsRoom DEF RoomInv
<1>2. UploadsInv /\ RoomInv => PromisesFit
  BY <1>1 DEF PromisesFit, M!PromisesFit
<1> QED BY <1>2, UploadsInvariance, RoomInvariance, PTL

==============================================================================
