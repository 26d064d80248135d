------------------------------ MODULE MediaUploads ------------------------------
(***************************************************************************)
(* media-runtime.ts: uploads of media to the pool, in parts through the    *)
(* server ("local"), through a bucket ("r2") or from Google Drive.  An     *)
(* upload has a state file, a partial file and, once published, a receipt. *)
(* Its lock is a chain of promises: a section is one step, or several when *)
(* a crash or a failure inside it leaves something behind.  Admission to   *)
(* the disk is one step (withCapacityLock).                                *)
(***************************************************************************)
EXTENDS Integers, FiniteSets, SequencesExt

CONSTANTS
  Order,      \* uploads, in the order in which they are created
  Contents,   \* what the bytes of an upload may be
  Wrong,      \* what bytes that nobody sent would hash to
  Runtimes,   \* runtimes of one process over one root
  Pieces,     \* pieces of every file
  Capacity,   \* pieces the disk has room for, beside its margin
  None, MaxFaults

Uploads == ToSet(Order)

Stages == {"download", "validation"}
States == [received : 0..Pieces, reserved : BOOLEAN, final : BOOLEAN, stage : Stages \cup {"none"},
           phase : {"uploading", "importing", "failed", "canceling"}]
Receipts == [media : Contents \cup {Wrong}, remote : BOOLEAN]

\* What the constants are assumed to be.
MediaUploadsAssumption ==
  /\ Order \in Seq(Uploads) /\ IsInjective(Order) /\ Runtimes # {} /\ Wrong \notin Contents
  /\ Pieces \in Nat \ {0} /\ Capacity \in Nat /\ MaxFaults \in Nat
  /\ None \notin Nat \cup Runtimes \cup Contents \cup {Wrong} \cup States \cup Receipts

VARIABLES
  kind, content,  \* per upload: its transport and what it brings, fixed
  state,      \* .tmp/<id>/state.json
  data,       \* .tmp/<id>/data: pieces in the partial file
  hash,       \* memory of each runtime: pieces its hash of a partial has seen, or None
  object,     \* the bucket: "open", "parts", "whole" or "gone"
  receipt,    \* .completed/<id>.json: the content, and whether the bucket is to be cleaned
  files, metas, \* the pool: contents, and contents with metadata
  job,        \* shared.jobs: the worker of each upload
  line,       \* per stage: uploads in the queue; the first one holds the place
  patch,      \* a PATCH between its write and its answer: its runtime, or None
  deleting,   \* DELETEs that have aborted the worker and wait for the lock
  made,       \* how many uploads were created
  acked,      \* local uploads: the last offset a client was told
  canceled, dropped, \* observation: DELETEs that took effect; uploads expired or found unreadable
  faults

vars == <<kind, content, state, data, hash, object, receipt, files, metas, job, line, patch,
          deleting, made, acked, canceled, dropped, faults>>
pool == <<files, metas>>
seen == <<kind, content, made, acked, canceled, dropped>>

Created == {Order[i] : i \in 1..made}

NoJob == [at |-> "none", stage |-> "download", aborted |-> FALSE, got |-> 0, hashed |-> None,
          runtime |-> None, media |-> None]

Init ==
  /\ kind \in [Uploads -> {"local", "r2", "drive"}] /\ content \in [Uploads -> Contents]
  /\ state = [u \in Uploads |-> None] /\ data = [u \in Uploads |-> 0]
  /\ hash = [r \in Runtimes |-> [u \in Uploads |-> None]]
  /\ object = [u \in Uploads |-> "open"] /\ receipt = [u \in Uploads |-> None]
  /\ files = {} /\ metas = {} /\ job = [u \in Uploads |-> NoJob]
  /\ line = [s \in Stages |-> <<>>] /\ patch = [u \in Uploads |-> None] /\ deleting = {}
  /\ made = 0 /\ acked = [u \in Uploads |-> 0] /\ canceled = {} /\ dropped = {} /\ faults = 0

Fault == faults < MaxFaults /\ faults' = faults + 1
Exists(u) == state[u] # None
InPhase(u, p) == Exists(u) /\ state[u].phase = p

\* Steps inside the upload's lock with a crash between them.
Publishing == {"register", "rename", "remove"}
Locked(u) == patch[u] # None \/ job[u].at \in Publishing

\* The receipt is written before the file is in the pool (readCompletion).
Done(u) == receipt[u] # None /\ receipt[u].media \in files

-----------------------------------------------------------------------------
\* Space (space.ts): a reserved upload is owed its partial and a copy in the pool.

\* The pieces in the partials, and those that S is still owed.
Written(d) == {x \in Uploads \X (1..2 * Pieces) : x[2] <= d[x[1]]}
Due(d, S) == {x \in S \X (1..2 * Pieces) : x[2] > d[x[1]]}

Free(d) == Capacity - Cardinality(Written(d)) - Pieces * Cardinality(files)
Owed(d, S) == Cardinality(Due(d, S))
Reserved == {u \in Uploads : Exists(u) /\ state[u].reserved}

\* Mutant: an upload is admitted whatever the others were promised.
FitsAlone(u, d) == Owed(d, {u}) <= Free(d)

Fits(u, d) == Owed(d, Reserved \cup {u}) <= Free(d)

Grown(u, n) == [data EXCEPT ![u] = n]
Wrote(u, s) == state' = [state EXCEPT ![u] = s]

Discard(u) ==
  /\ Wrote(u, None) /\ data' = Grown(u, 0)
  /\ hash' = [r \in Runtimes |-> [hash[r] EXCEPT ![u] = None]]

NewJob(u, r) == [NoJob EXCEPT !.at = IF kind[u] = "local" THEN "wait" ELSE "begin",
                              !.stage = IF kind[u] = "local" THEN "validation" ELSE "download", !.runtime = r]
Start(u, r) == job' = IF job[u] = NoJob THEN [job EXCEPT ![u] = NewJob(u, r)] ELSE job
End(u) == /\ job' = [job EXCEPT ![u] = NoJob]
          /\ line' = [s \in Stages |-> Remove(line[s], u)]

\* What a worker started for an upload in this state would take up.
Workable(u) == IF kind[u] = "local" THEN state[u].received = Pieces ELSE state[u].phase = "importing"

-----------------------------------------------------------------------------
\* Requests.

Create(u) ==
  /\ made < Len(Order) /\ u = Order[made + 1] /\ Fits(u, data) /\ made' = made + 1
  /\ Wrote(u, [received |-> 0, reserved |-> TRUE, final |-> FALSE, stage |-> "none",
               phase |-> IF kind[u] = "drive" THEN "importing" ELSE "uploading"])
  /\ \E r \in Runtimes : IF kind[u] = "drive" THEN Start(u, r) ELSE UNCHANGED job
  /\ UNCHANGED <<kind, content, data, hash, object, receipt, pool, line, patch, deleting, acked, canceled, dropped, faults>>

\* Mutant: the hash in memory is used whatever is in the file.
KnownHash(u, r) == IF hash[r][u] # None THEN hash[r][u] ELSE state[u].received

\* The hash in memory counts only for the bytes this runtime saw; otherwise the
\* partial is cut to what the state says, and read again (ensureHash).
EnsureHash(u, r) ==
  IF hash[r][u] = state[u].received /\ data[u] = state[u].received THEN hash[r][u] ELSE state[u].received

Patch(u, r) ==
  /\ kind[u] = "local" /\ Exists(u) /\ ~Locked(u) /\ ~Done(u)
  /\ state[u].received < Pieces /\ Fits(u, data)
  /\ Wrote(u, [state[u] EXCEPT !.reserved = TRUE])
  /\ data' = Grown(u, state[u].received + 1)
  /\ hash' = [hash EXCEPT ![r][u] = EnsureHash(u, r) + 1]
  /\ patch' = [patch EXCEPT ![u] = r]
  /\ UNCHANGED <<object, receipt, pool, job, line, deleting, seen, faults>>

PatchSaves(u) ==
  /\ patch[u] # None
  /\ Wrote(u, [state[u] EXCEPT !.received = @ + 1])
  /\ acked' = [acked EXCEPT ![u] = state[u].received + 1]
  /\ IF state[u].received + 1 = Pieces THEN Start(u, patch[u]) ELSE UNCHANGED job
  /\ patch' = [patch EXCEPT ![u] = None]
  /\ UNCHANGED <<kind, content, data, hash, object, receipt, pool, line, deleting, made, canceled, dropped, faults>>

\* A short body, or a write that fails: the partial goes back to what is confirmed.
PatchFails(u) ==
  /\ patch[u] # None /\ Fault
  /\ data' = Grown(u, state[u].received)
  /\ hash' = [hash EXCEPT ![patch[u]][u] = None]
  /\ patch' = [patch EXCEPT ![u] = None]
  /\ UNCHANGED <<state, object, receipt, pool, job, line, deleting, seen>>

\* GET, or a repeated PATCH: it starts the worker that a restart or a failure left out.
Poll(u, r) ==
  /\ Exists(u) /\ ~Locked(u) /\ ~Done(u) /\ job[u] = NoJob
  /\ \/ Workable(u) /\ UNCHANGED state
     \/ InPhase(u, "uploading") /\ kind[u] = "r2" /\ object[u] = "whole"
        /\ Wrote(u, [state[u] EXCEPT !.phase = "importing"])
  /\ Start(u, r)
  /\ UNCHANGED <<data, hash, object, receipt, pool, line, patch, deleting, seen, faults>>

\* The browser asks for an address and puts its parts in the bucket.
SendParts(u) ==
  /\ kind[u] = "r2" /\ InPhase(u, "uploading") /\ ~Done(u) /\ job[u] = NoJob /\ Fits(u, data)
  /\ object[u] = "open" /\ object' = [object EXCEPT ![u] = "parts"]
  /\ Wrote(u, [state[u] EXCEPT !.reserved = TRUE])
  /\ UNCHANGED <<data, hash, receipt, pool, job, line, patch, deleting, seen, faults>>

\* Completing may be repeated: the object that is already there counts. When the
\* state cannot be written afterwards, the reservation is as it was.
Complete(u, r) ==
  /\ kind[u] = "r2" /\ Exists(u) /\ ~InPhase(u, "canceling") /\ ~Locked(u) /\ ~Done(u)
  /\ job[u] = NoJob /\ Fits(u, data) /\ object[u] \in {"parts", "whole"}
  /\ object' = [object EXCEPT ![u] = "whole"]
  /\ \/ /\ Wrote(u, [state[u] EXCEPT !.phase = "importing", !.reserved = TRUE])
        /\ Start(u, r) /\ UNCHANGED faults
     \/ Fault /\ UNCHANGED <<state, job>>
  /\ UNCHANGED <<data, hash, receipt, pool, line, patch, deleting, seen>>

RetryDrive(u, r) ==
  /\ kind[u] = "drive" /\ InPhase(u, "failed") /\ ~state[u].final /\ ~Locked(u) /\ ~Done(u) /\ Fits(u, data)
  /\ Wrote(u, [state[u] EXCEPT !.phase = "importing", !.reserved = TRUE])
  /\ Start(u, r)
  /\ UNCHANGED <<data, hash, object, receipt, pool, line, patch, deleting, seen, faults>>

Abort(u) == [job EXCEPT ![u].aborted = job[u] # NoJob]

\* DELETE aborts the worker, then waits for the lock.
Delete(u) ==
  /\ u \in Created \ (deleting \cup canceled)
  /\ job' = Abort(u) /\ deleting' = deleting \cup {u}
  /\ UNCHANGED <<state, data, hash, object, receipt, pool, line, patch, seen, faults>>

\* Mutant: only the worker is told.
MarkedByAbort(u) == UNCHANGED state

Marked(u) == Wrote(u, [state[u] EXCEPT !.phase = "canceling"])

DeleteEnters(u) ==
  /\ u \in deleting /\ ~Locked(u) /\ deleting' = deleting \ {u}
  /\ canceled' = IF Done(u) THEN canceled ELSE canceled \cup {u}
  /\ IF kind[u] = "local" THEN Discard(u) /\ UNCHANGED job
     ELSE /\ IF Exists(u) THEN Marked(u) /\ job' = Abort(u) ELSE UNCHANGED <<state, job>>
          /\ UNCHANGED <<data, hash>>
  /\ UNCHANGED <<kind, content, object, receipt, pool, line, patch, made, acked, dropped, faults>>

-----------------------------------------------------------------------------
\* The worker of an upload.

Goes(u, at) == job' = [job EXCEPT ![u].at = at]
Alive(u) == ~job[u].aborted /\ Exists(u)

Begin(u) ==
  /\ job[u].at = "begin" /\ ~Locked(u)
  /\ IF Done(u) THEN Discard(u) /\ End(u)
     ELSE /\ UNCHANGED <<state, data, hash, line>>
          /\ job' = [job EXCEPT ![u] =
               IF ~Alive(u) \/ ~Workable(u) THEN NoJob
               ELSE [@ EXCEPT !.at = "wait", !.got = state[u].received,
                       !.stage = IF /\ state[u].received = Pieces /\ data[u] = Pieces
                                    /\ kind[u] = "drive" => state[u].stage = "validation"
                                 THEN "validation" ELSE "download"]]
  /\ UNCHANGED <<object, receipt, pool, patch, deleting, seen, faults>>

\* enterStage: wait for room on the disk, and only then in the queue.
Wait(u) ==
  /\ job[u].at = "wait" /\ Alive(u) /\ ~Locked(u)
  /\ Wrote(u, [state[u] EXCEPT !.stage = job[u].stage, !.reserved = @ \/ Fits(u, data)])
  /\ IF Fits(u, data)
     THEN Goes(u, "queue") /\ line' = [line EXCEPT ![job[u].stage] = Append(@, u)]
     ELSE UNCHANGED <<job, line>>
  /\ UNCHANGED <<data, hash, object, receipt, pool, patch, deleting, seen, faults>>

\* Its turn: when there is no room any more the place is given back.
Enter(u) ==
  /\ job[u].at = "queue" /\ Head(line[job[u].stage]) = u /\ Alive(u) /\ ~Locked(u)
  /\ IF Fits(u, data)
     THEN /\ Goes(u, IF job[u].stage = "download" THEN "open" ELSE "check")
          /\ Wrote(u, [state[u] EXCEPT !.reserved = TRUE]) /\ UNCHANGED line
     ELSE /\ Goes(u, "wait") /\ UNCHANGED state
          /\ line' = [line EXCEPT ![job[u].stage] = Tail(@)]
  /\ UNCHANGED <<data, hash, object, receipt, pool, patch, deleting, seen, faults>>

\* From the bucket a download starts again; from Drive it goes on where the state
\* says, when the partial has that much and Drive accepts it.
OpenDownload(u) ==
  /\ job[u].at = "open" /\ Alive(u) /\ ~Locked(u)
  /\ kind[u] = "r2" => object[u] = "whole"
  /\ \E n \in IF kind[u] = "r2" \/ data[u] < state[u].received THEN {0} ELSE {0, state[u].received} :
       /\ data' = Grown(u, n) /\ Fits(u, data')
       /\ Wrote(u, [state[u] EXCEPT !.received = n, !.reserved = TRUE])
       /\ job' = [job EXCEPT ![u] = [@ EXCEPT !.at = "read", !.got = n, !.hashed = n]]
  /\ UNCHANGED <<hash, object, receipt, pool, line, patch, deleting, seen, faults>>

\* A piece arrives; a download from Drive writes its progress down now and then.
Read(u) ==
  /\ job[u].at = "read" /\ Alive(u) /\ job[u].got < Pieces
  /\ job' = [job EXCEPT ![u] = [@ EXCEPT !.got = job[u].got + 1, !.hashed = job[u].hashed + 1]]
  /\ data' = Grown(u, job[u].got + 1)
  /\ \/ UNCHANGED state
     \/ kind[u] = "drive" /\ InPhase(u, "importing") /\ Wrote(u, [state[u] EXCEPT !.received = job[u].got + 1])
  /\ UNCHANGED <<hash, object, receipt, pool, line, patch, deleting, seen, faults>>

EndDownload(u) ==
  /\ job[u].at = "read" /\ job[u].got = Pieces /\ Alive(u) /\ ~Locked(u)
  /\ IF InPhase(u, "importing")
     THEN Wrote(u, [state[u] EXCEPT !.received = Pieces, !.stage = "validation"]) ELSE UNCHANGED state
  /\ job' = [job EXCEPT ![u] = [@ EXCEPT !.at = "wait", !.stage = "validation"]]
  /\ line' = [line EXCEPT !["download"] = Tail(@)]
  /\ UNCHANGED <<data, hash, object, receipt, pool, patch, deleting, seen, faults>>

\* validate: the hash of this very download, or the one of the partial.
Check(u) ==
  /\ job[u].at = "check" /\ Alive(u) /\ ~Locked(u)
  /\ IF Done(u) THEN End(u) /\ UNCHANGED <<data, hash>>
     ELSE /\ job' = [job EXCEPT ![u] = [@ EXCEPT !.at = "probe",
                 !.hashed = IF job[u].hashed # None THEN job[u].hashed ELSE EnsureHash(u, job[u].runtime)]]
          /\ data' = IF job[u].hashed # None THEN data ELSE Grown(u, state[u].received)
          /\ hash' = [hash EXCEPT ![job[u].runtime][u] = None]
          /\ UNCHANGED line
  /\ UNCHANGED <<state, object, receipt, pool, patch, deleting, seen, faults>>

\* ffprobe runs outside the lock.
Probe(u) ==
  /\ job[u].at = "probe" /\ ~job[u].aborted /\ Goes(u, "publish")
  /\ UNCHANGED <<state, data, hash, object, receipt, pool, line, patch, deleting, seen, faults>>

Unreadable(u) ==
  /\ job[u].at = "probe" /\ ~job[u].aborted /\ kind[u] = "local" /\ Fault
  /\ Discard(u) /\ End(u) /\ dropped' = dropped \cup {u}
  /\ UNCHANGED <<kind, content, object, receipt, pool, patch, deleting, made, acked, canceled>>

Media(u) == IF job[u].hashed = Pieces /\ data[u] = Pieces THEN content[u] ELSE Wrong

\* publish, in the lock of the upload and the one of its hash: metadata, receipt,
\* file, and the folder of the upload removed.
Publish(u) ==
  /\ job[u].at = "publish" /\ Alive(u) /\ ~InPhase(u, "canceling") /\ ~Locked(u)
  /\ \A v \in Uploads : job[v].at \in Publishing => job[v].media # Media(u)
  /\ job' = [job EXCEPT ![u] = [@ EXCEPT !.at = "register", !.media = Media(u)]]
  /\ metas' = metas \cup {Media(u)}
  /\ UNCHANGED <<state, data, hash, object, receipt, files, line, patch, deleting, seen, faults>>

Register(u) ==
  /\ job[u].at = "register" /\ Goes(u, IF job[u].media \in files THEN "remove" ELSE "rename")
  /\ receipt' = [receipt EXCEPT ![u] = [media |-> job[u].media, remote |-> kind[u] = "r2"]]
  /\ UNCHANGED <<state, data, hash, object, pool, line, patch, deleting, seen, faults>>

Rename(u) ==
  /\ job[u].at = "rename" /\ Goes(u, "remove")
  /\ files' = files \cup {job[u].media} /\ data' = Grown(u, 0)
  /\ UNCHANGED <<state, hash, object, receipt, metas, line, patch, deleting, seen, faults>>

RemoveUpload(u) ==
  /\ job[u].at = "remove" /\ Discard(u) /\ End(u)
  /\ UNCHANGED <<object, receipt, pool, patch, deleting, seen, faults>>

\* What a worker leaves when it breaks off: nothing when it was stopped, a failure to
\* retry otherwise. Only a failure of integrity is final, and only Drive's.
Failed(u, final) ==
  LET s == [state[u] EXCEPT !.reserved = FALSE, !.stage = "none"]
      gone == kind[u] = "r2" \/ final
  IN CASE kind[u] = "local" /\ Exists(u) -> Wrote(u, s) /\ UNCHANGED <<data, hash>>
       [] kind[u] # "local" /\ Done(u) -> Discard(u)
       [] kind[u] # "local" /\ ~Done(u) /\ Alive(u) /\ ~InPhase(u, "canceling") ->
            /\ Wrote(u, [s EXCEPT !.phase = "failed", !.final = final, !.received = IF gone THEN 0 ELSE job[u].got])
            /\ data' = IF gone THEN Grown(u, 0) ELSE data
            /\ UNCHANGED hash
       [] OTHER -> UNCHANGED <<state, data, hash>>

Fails(u, final) ==
  /\ Failed(u, final) /\ End(u)
  /\ UNCHANGED <<object, receipt, pool, patch, deleting, seen>>

Working(u) == job[u].at \in {"wait", "queue", "open", "read", "check", "probe", "publish"} /\ ~Locked(u)

\* Aborted, or its state is gone, or the object or the room for it is missing.
Stops(u) ==
  /\ Working(u)
  /\ \/ ~Alive(u) \/ InPhase(u, "canceling")
     \/ job[u].at = "open" /\ kind[u] = "r2" /\ object[u] # "whole"
     \/ job[u].at = "open" /\ ~Fits(u, Grown(u, 0))
  /\ Fails(u, FALSE) /\ UNCHANGED faults

\* The network, the integrity of the file, the disk.
Breaks(u) ==
  /\ Working(u) /\ Alive(u) /\ Fault
  /\ \E final \in IF kind[u] = "drive" THEN BOOLEAN ELSE {FALSE} : Fails(u, final)

-----------------------------------------------------------------------------
\* The periodic cleanup.

\* A cancellation is finished, the bucket first; a failure in between is repeated.
FinishCancel(u) ==
  /\ InPhase(u, "canceling") /\ job[u] = NoJob /\ ~Locked(u)
  /\ object' = [object EXCEPT ![u] = IF kind[u] = "r2" THEN "gone" ELSE @]
  /\ \/ Discard(u)
     \/ /\ kind[u] = "r2" /\ Wrote(u, [state[u] EXCEPT !.reserved = FALSE, !.stage = "none"])
        /\ data' = Grown(u, 0) /\ UNCHANGED hash
  /\ UNCHANGED <<receipt, pool, job, line, patch, deleting, seen, faults>>

\* Nothing for 24 hours. An object that is complete is imported instead.
Expire(u) ==
  /\ Exists(u) /\ ~Locked(u) /\ Fault
  /\ \/ kind[u] = "local"
     \/ kind[u] = "r2" /\ InPhase(u, "uploading") /\ object[u] # "whole"
     \/ kind[u] = "drive" /\ InPhase(u, "importing")
  /\ Discard(u) /\ dropped' = dropped \cup {u}
  /\ job' = IF kind[u] = "drive" THEN Abort(u) ELSE job
  /\ object' = IF kind[u] = "r2" THEN [object EXCEPT ![u] = "gone"] ELSE object
  /\ UNCHANGED <<kind, content, receipt, pool, line, patch, deleting, made, acked, canceled>>

\* Mutant: the bucket is cleaned as soon as there is a receipt.
MayCleanWritten(u) == receipt[u] # None /\ receipt[u].remote

MayClean(u) == Done(u) /\ receipt[u].remote

\* The receipt forgets the bucket once the object is deleted, or stays to repeat it.
CleanRemote(u) ==
  /\ MayClean(u)
  /\ object' = [object EXCEPT ![u] = "gone"]
  /\ \E again \in BOOLEAN : receipt' = [receipt EXCEPT ![u].remote = again]
  /\ UNCHANGED <<state, data, hash, pool, job, line, patch, deleting, seen, faults>>

\* Reservations are given anew in the order of creation: an upload that goes on gets one
\* when it fits beside those that came before it and got theirs.
Earlier(u, S) == {v \in S : \E i, j \in DOMAIN Order : Order[i] = v /\ Order[j] = u /\ i < j}
Own(owners, going, kept) ==
  \A u \in going : u \in owners <=> Owed(kept, Earlier(u, owners) \cup {u}) <= Free(kept)

\* The process dies and is started again, and what was under way goes on.
Restart ==
  LET left == {u \in Uploads : Exists(u) /\ ~Done(u)}
      kept == [u \in Uploads |-> IF Done(u) THEN 0 ELSE data[u]]
      going == {u \in left : state[u].phase \notin {"failed", "canceling"}}
      r == CHOOSE x \in Runtimes : TRUE
  IN /\ Fault
     /\ \E owners \in SUBSET going :
          /\ Own(owners, going, kept)
          /\ state' = [u \in Uploads |-> IF u \in left THEN [state[u] EXCEPT !.reserved = u \in owners] ELSE None]
     /\ data' = kept
     /\ hash' = [x \in Runtimes |-> [u \in Uploads |-> None]]
     /\ job' = [u \in Uploads |-> IF u \in going /\ Workable(u) THEN NewJob(u, r) ELSE NoJob]
     /\ line' = [s \in Stages |-> <<>>]
     /\ patch' = [u \in Uploads |-> None] /\ deleting' = {}
     /\ UNCHANGED <<object, receipt, pool, seen>>

Request(u) ==
  \/ Create(u) \/ PatchSaves(u) \/ PatchFails(u) \/ SendParts(u) \/ Delete(u) \/ DeleteEnters(u)
  \/ \E r \in Runtimes : Patch(u, r) \/ Poll(u, r) \/ Complete(u, r) \/ RetryDrive(u, r)
Work(u) ==
  \/ Begin(u) \/ Wait(u) \/ Enter(u) \/ OpenDownload(u) \/ Read(u) \/ EndDownload(u) \/ Check(u) \/ Probe(u)
  \/ Unreadable(u) \/ Publish(u) \/ Register(u) \/ Rename(u) \/ RemoveUpload(u) \/ Stops(u) \/ Breaks(u)
Clean(u) == FinishCancel(u) \/ Expire(u) \/ CleanRemote(u)

Next == Restart \/ \E u \in Uploads : Request(u) \/ Work(u) \/ Clean(u)

Spec == Init /\ [][Next]_vars

-----------------------------------------------------------------------------
\* Every file of the pool is under the hash of its own bytes, with its metadata.
MediaIsWhole == Wrong \notin files /\ files \subseteq metas

\* What the server has accepted is somewhere: a confirmed piece in the partial or in the
\* pool, a complete object in the bucket until its copy is in the pool.
NothingIsLost ==
  \A u \in Uploads \ (canceled \cup dropped) :
    /\ acked[u] > 0 /\ ~Done(u) => Exists(u) /\ state[u].received >= acked[u] /\ data[u] >= acked[u]
    /\ object[u] = "gone" => content[u] \in files

\* After a DELETE took effect the upload is not published.
CanceledStaysOut == [][\A u \in canceled : receipt[u] = None => receipt'[u] = None]_vars

\* What was promised to the uploads fits on the disk together.
PromisesFit ==
  LET promised == {u \in Reserved : ~Done(u)} IN Owed(data, promised) <= Free(data)
=============================================================================
