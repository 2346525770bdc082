---------------------------- MODULE ScanArtifact ----------------------------
(***************************************************************************)
(* The scan cache of one market: src/analysis/global_markets, the writers  *)
(* _write_scan_cache of scan_service.py and refresh, reprice and rebuild   *)
(* of benchmark_refresh.py and evidence_store.py.                          *)
(*                                                                         *)
(* Three files: the artifact, the one it replaced (.prev), and the scan    *)
(* its repricings start from (.base; .base.prev is never read).  The       *)
(* benchmark jobs take the market's file lock; scans do not.  Every write  *)
(* of a file is atomic, a publication writes up to three of them, and the  *)
(* scan or the quotes a job works from arrive long after it has read.      *)
(*                                                                         *)
(* A file stands for its cachedAt, whether its payload is a complete       *)
(* (ranking eligible) one, whether its benchmark was repriced, and whether *)
(* the prices it was repriced from already were.  Stamps are distinct;     *)
(* dry runs, and scans without rows, are left out.                         *)
(***************************************************************************)
EXTENDS Integers

CONSTANTS Jobs,          \* runs of the benchmark CLI
          Scanners,      \* scans: the scheduled children, the phone's
          NoFile,
          Window,        \* a phone's scan leaves a complete artifact younger than this
          MaxNow,        \* bound: stamps and ticks
          MaxCrashes,    \* bound: jobs killed, or failing to write
          MaxRollbacks   \* bound: mv of .prev over the artifact

ASSUME ArtifactAssumption ==
  /\ Jobs \cap Scanners = {}
  /\ Window \in Nat /\ MaxNow \in Nat \ {0} /\ MaxCrashes \in Nat /\ MaxRollbacks \in Nat
  /\ NoFile \notin [at : Nat, complete : BOOLEAN, repriced : BOOLEAN, compounded : BOOLEAN]

VARIABLES
  path, prev, base,   \* the files
  job,                \* the benchmark jobs; one at work holds the lock
  scan,               \* the scans that go on to write
  overtaken,          \* history: those at work whose read of the artifact is out of date
  cut,                \* history: a publication stopped between its writes
  now,
  budget              \* what is left of the bounds

files == <<path, prev, base>>
vars == <<path, prev, base, job, scan, overtaken, cut, now, budget>>

Idle == [stage |-> "idle"]

File == [at : 0..MaxNow, complete : BOOLEAN, repriced : BOOLEAN, compounded : BOOLEAN]

Init ==
  /\ path = NoFile /\ prev = NoFile /\ base = NoFile
  /\ job = [j \in Jobs |-> Idle]
  /\ scan = [s \in Scanners |-> Idle]
  /\ overtaken = {}
  /\ cut = FALSE
  /\ now = 1
  /\ budget = [crashes |-> MaxCrashes, rollbacks |-> MaxRollbacks]

Spend(bound) == budget[bound] > 0 /\ budget' = [budget EXCEPT ![bound] = @ - 1]

Passes == now < MaxNow /\ now' = now + 1

BusyScanners == {s \in Scanners : scan[s].stage # "idle"}
BusyJobs == {j \in Jobs : job[j].stage # "idle"}

\* Mutant: a job that finds the lock held goes on.
Unlocked == TRUE

\* refresh_lock: never waits; it is free again when its holder dies.
LockFree == BusyJobs = {}

\* A full scan's artifact, stamped now.
Scan(complete) == [at |-> now, complete |-> complete, repriced |-> FALSE, compounded |-> FALSE]

\* Its prices renewed: cachedAt and the ranking payload stay.
Repriced(f) == [f EXCEPT !.repriced = TRUE, !.compounded = @ \/ f.repriced]

\* Mutant: repricing goes on from the last repricing.
AsItIs(f) == f

\* Where a repricing starts: from .base when the artifact is itself a repricing
\* of it, and from the artifact otherwise.
Pristine(f) == IF f.repriced /\ base # NoFile /\ base.at = f.at THEN base ELSE f

\* The ledger's rows in the existing payload, or in one that is not for ranking.
FromLedger(f) ==
  IF f # NoFile
  THEN [f EXCEPT !.repriced = FALSE, !.compounded = FALSE]
  ELSE [at |-> 0, complete |-> FALSE, repriced |-> FALSE, compounded |-> FALSE]

------------------------------------------------------------------------------
(***************************************************************************)
(* Scans.                                                                  *)
(***************************************************************************)

\* Mutant: any payload may replace the artifact.
NeverRefused(origin, full, complete) == FALSE

\* A complete artifact is kept from a phone's scan while it is young, and from
\* an incomplete payload of a bounded scan.
Refused(origin, full, complete) ==
  /\ path # NoFile
  /\ path.complete
  /\ \/ origin = "interactive" /\ now - path.at < Window
     \/ ~full /\ ~complete

\* The scan is done and the existing artifact does not refuse it.  Scheduled
\* scans are full ones; the phone chooses.
Decide(s) ==
  /\ scan[s].stage = "idle"
  /\ Passes
  /\ \E origin \in {"scheduled", "interactive"}, full \in BOOLEAN, complete \in BOOLEAN :
       /\ origin = "scheduled" => full
       /\ ~Refused(origin, full, complete)
       /\ scan' = [scan EXCEPT ![s] =
            [stage |-> "decided", full |-> full, new |-> Scan(complete)]]
  /\ overtaken' = overtaken \ {s}
  /\ UNCHANGED <<path, prev, base, job, cut, budget>>

WriteScan(s) ==
  /\ scan[s].stage = "decided"
  /\ path' = scan[s].new
  /\ scan' = [scan EXCEPT ![s] = Idle]
  /\ overtaken' = overtaken \cup BusyJobs \cup BusyScanners
  /\ UNCHANGED <<prev, base, job, cut, now, budget>>

\* The write fails, which is not reported, or the scan is killed.
DropScan(s) ==
  /\ scan[s].stage = "decided"
  /\ scan' = [scan EXCEPT ![s] = Idle]
  /\ UNCHANGED <<path, prev, base, job, overtaken, cut, now, budget>>

------------------------------------------------------------------------------
(***************************************************************************)
(* Benchmark jobs: new is what the job publishes, source what .base is to  *)
(* hold (NoFile when it stays as it is), current the artifact it replaces. *)
(***************************************************************************)

Take(j, stage, new, source, current) ==
  /\ LockFree
  /\ job[j].stage = "idle"
  /\ job' = [job EXCEPT ![j] =
       [stage |-> stage, new |-> new, source |-> source, current |-> current]]
  /\ overtaken' = overtaken \ {j}
  /\ UNCHANGED <<path, prev, base, scan, cut, now, budget>>

StartRefresh(j) == Take(j, "scanning", NoFile, NoFile, path)

StartReprice(j) ==
  /\ path # NoFile
  /\ Take(j, "fetching", Repriced(Pristine(path)), IF path.repriced THEN NoFile ELSE path, path)

StartRebuild(j) == Take(j, "sourced", Repriced(FromLedger(path)), FromLedger(path), NoFile)

At(j, stage) == job[j].stage = stage

\* reprice_benchmark reads the artifact once more for a rebuild.
ReadCurrent(j) ==
  /\ At(j, "sourced")
  /\ job' = [job EXCEPT ![j].stage = "fetching", ![j].current = path]
  /\ UNCHANGED <<path, prev, base, scan, overtaken, cut, now, budget>>

\* The refresh's scan is in and valid, which takes a complete one.
Scanned(j) ==
  /\ At(j, "scanning")
  /\ Passes
  /\ job' = [job EXCEPT ![j].stage = "accepted", ![j].new = Scan(TRUE)]
  /\ UNCHANGED <<path, prev, base, scan, overtaken, cut, budget>>

\* The quotes are in and pass every gate.
Priced(j) ==
  /\ At(j, "fetching")
  /\ job' = [job EXCEPT ![j].stage = "accepted"]
  /\ UNCHANGED <<path, prev, base, scan, overtaken, cut, now, budget>>

\* A provider fails or a gate refuses: nothing is written.
Reject(j) ==
  /\ At(j, "scanning") \/ At(j, "fetching")
  /\ job' = [job EXCEPT ![j] = Idle]
  /\ UNCHANGED <<path, prev, base, scan, overtaken, cut, now, budget>>

\* A new base: the old one is moved away ...
RetireBase(j) ==
  /\ At(j, "accepted")
  /\ job[j].source # NoFile
  /\ base' = NoFile
  /\ job' = [job EXCEPT ![j].stage = "retired"]
  /\ UNCHANGED <<path, prev, scan, overtaken, cut, now, budget>>

\* ... and the source written.
WriteBase(j) ==
  /\ At(j, "retired")
  /\ base' = job[j].source
  /\ job' = [job EXCEPT ![j].stage = "based"]
  /\ UNCHANGED <<path, prev, scan, overtaken, cut, now, budget>>

\* What a rollback is to bring back.
KeepPrev(j) ==
  /\ At(j, "based") \/ (At(j, "accepted") /\ job[j].source = NoFile)
  /\ prev' = IF job[j].current # NoFile THEN job[j].current ELSE prev
  /\ job' = [job EXCEPT ![j].stage = "kept"]
  /\ UNCHANGED <<path, base, scan, overtaken, cut, now, budget>>

Publish(j) ==
  /\ At(j, "kept")
  /\ path' = job[j].new
  /\ job' = [job EXCEPT ![j] = Idle]
  /\ overtaken' = overtaken \cup BusyScanners
  /\ UNCHANGED <<prev, base, scan, cut, now, budget>>

\* Killed at any point, or failing to write.
Crash(j) ==
  /\ job[j].stage # "idle"
  /\ Spend("crashes")
  /\ job' = [job EXCEPT ![j] = Idle]
  /\ cut' = (cut \/ job[j].stage \in {"retired", "based", "kept"})
  /\ UNCHANGED <<path, prev, base, scan, overtaken, now>>

------------------------------------------------------------------------------
\* The operator undoes the last publication, while no job is running.
Rollback ==
  /\ BusyJobs = {}
  /\ prev # NoFile
  /\ Spend("rollbacks")
  /\ path' = prev
  /\ prev' = NoFile
  /\ overtaken' = overtaken \cup BusyScanners
  /\ UNCHANGED <<base, job, scan, cut, now>>

Tick ==
  /\ Passes
  /\ UNCHANGED <<path, prev, base, job, scan, overtaken, cut, budget>>

ScanStep(s) == Decide(s) \/ WriteScan(s) \/ DropScan(s)

JobStep(j) ==
  \/ StartRefresh(j) \/ StartReprice(j) \/ StartRebuild(j) \/ ReadCurrent(j)
  \/ Scanned(j) \/ Priced(j) \/ Reject(j)
  \/ RetireBase(j) \/ WriteBase(j) \/ KeepPrev(j) \/ Publish(j) \/ Crash(j)

Next ==
  \/ \E s \in Scanners : ScanStep(s)
  \/ \E j \in Jobs : JobStep(j)
  \/ Rollback
  \/ Tick

Spec == Init /\ [][Next]_vars

------------------------------------------------------------------------------
Stages == {"scanning", "sourced", "fetching", "accepted", "retired", "based", "kept"}

\* The types.
TypeOK ==
  /\ path \in File \cup {NoFile} /\ prev \in File \cup {NoFile} /\ base \in File \cup {NoFile}
  /\ job \in [Jobs -> {Idle} \cup
       [stage : Stages, new : File \cup {NoFile}, source : File \cup {NoFile}, current : File \cup {NoFile}]]
  /\ scan \in [Scanners -> {Idle} \cup [stage : {"decided"}, full : BOOLEAN, new : File]]
  /\ overtaken \subseteq Jobs \cup Scanners
  /\ cut \in BOOLEAN
  /\ now \in 1..MaxNow

\* Chained repricing restarts from the pristine scan: whatever scans, rebuilds
\* and rollbacks come between, prices are never renewed from renewed ones
\* unless a publication was stopped between its writes.
NoDrift == path # NoFile /\ path.compounded => cut

\* What comes after is older, or no longer complete.
Loses(old, new) == new.at < old.at \/ (old.complete /\ ~new.complete)

\* Only an artifact its writer has not seen is lost: a job never sets the market
\* back, nor a bounded scan, unless somebody outside the lock has written since
\* it read; a full scan may be less complete but never older.
SeenIsKept ==
  [][path # NoFile =>
      /\ \A j \in Jobs \ overtaken : Publish(j) => ~Loses(path, path')
      /\ \A s \in Scanners \ overtaken :
           WriteScan(s) => /\ path'.at > path.at
                           /\ scan[s].full \/ ~Loses(path, path')]_vars

\* One mv undoes a publication: .prev is then the very artifact replaced, unless
\* a scan has replaced that one first.
RollbackRestores ==
  [][\A j \in Jobs \ overtaken : path # NoFile /\ Publish(j) => prev = path]_vars

\* "Chained repricing always restarts from the pristine full scan ... no
\* cumulative drift": not after a publication was stopped between its writes.
NeverCompounded == path # NoFile => ~path.compounded
==============================================================================
