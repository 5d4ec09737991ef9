------------------------------ MODULE AudioCache ------------------------------
(***************************************************************************)
(* The private directories for recorded audio (src/main/audioCache.ts):    *)
(* made and leased at a start, repaired before audio is written, removed   *)
(* at the end, and those of dead processes removed at the next start.      *)
(*                                                                         *)
(* Several processes run, each with a PID the system may give again after  *)
(* its end; a lease is a file that holds one, and is empty between its     *)
(* creation and its writing.  The system may sweep a lease or a whole      *)
(* directory away at any time.  A directory's name is drawn anew and never *)
(* drawn twice; only its own process makes it again under the same name.   *)
(*                                                                         *)
(* A definition whose comment starts with "Mistake" is a plausible wrong   *)
(* version of the one after it; no specification uses it.                  *)
(***************************************************************************)
EXTENDS Naturals, FiniteSets

CONSTANTS
  Apps,       \* processes of the program
  Names,      \* directory names, one for each launch
  Requests,   \* requests to have the directory ready
  Pids,       \* process numbers
  MaxSweeps,  \* bound: sweeps of the system
  MaxFaults   \* bound: failing steps

ASSUME CacheAssumption ==
  Pids \subseteq Nat \ {0, 1} /\ Names \subseteq Nat \ {0} /\ {MaxSweeps, MaxFaults} \subseteq Nat

VARIABLES
  pid,      \* of each running process, or NoPid
  at,       \* where its start or its end is
  home,     \* its directory, or NoName
  there,    \* the directories that exist
  lease,    \* the lease in each
  drawn,    \* the names drawn so far
  look,     \* the cleaning of each name by each process
  seen,     \* the owner it saw
  repair,   \* where each request is
  stale,    \* the dead directories a cleaning found
  touched,  \* whether anything took from the directory since its repair began
  sweeps, faults

files == <<there, lease, drawn>>
vars  == <<pid, at, home, files, look, seen, repair, stale, touched, sweeps, faults>>

NoPid  == 0
NoName == 0
None   == 0   \* no lease file
Half   == 1   \* a lease file without its contents
Repairing == {"mkdir", "lease", "fill", "check", "last"}

TypeOK ==
  /\ pid \in [Apps -> Pids \union {NoPid}] /\ home \in [Apps -> Names \union {NoName}]
  /\ at \in [Apps -> {"down", "clean", "make", "lease", "fill", "check", "up", "leave", "rmdir"}]
  /\ there \subseteq drawn /\ drawn \subseteq Names
  /\ lease \in [Names -> Pids \union {None, Half}] /\ \A n \in Names \ there : lease[n] = None
  /\ look \in [Apps -> [Names -> {"none", "first", "second", "remove", "rmdir"}]]
  /\ repair \in [Apps -> [Requests -> {"none", "joined", "ready", "failed"} \union Repairing]]
  /\ \A a \in Apps : Cardinality({r \in Requests : repair[a][r] \in Repairing}) <= 1

Init ==
  /\ pid = [a \in Apps |-> NoPid] /\ at = [a \in Apps |-> "down"] /\ home = [a \in Apps |-> NoName]
  /\ there = {} /\ lease = [n \in Names |-> None] /\ drawn = {}
  /\ look = [a \in Apps |-> [n \in Names |-> "none"]] /\ seen = [a \in Apps |-> [n \in Names |-> NoPid]]
  /\ repair = [a \in Apps |-> [r \in Requests |-> "none"]]
  /\ stale = [a \in Apps |-> {}] /\ touched = [a \in Apps |-> FALSE]
  /\ sweeps = 0 /\ faults = 0

Running   == {a \in Apps : pid[a] # NoPid}
Alive(p)  == \E a \in Apps : pid[a] = p
Readable(n) == n \in there /\ lease[n] \in Pids
Take(n)   == touched' = [a \in Apps |-> touched[a] \/ home[a] = n]
Step(a, now, then) == at[a] = now /\ at' = [at EXCEPT ![a] = then]

-----------------------------------------------------------------------------
(* A start: the cleaning of what dead processes left.                      *)

\* A process starts and lists the temporary directory.
Launch(a, p) ==
  /\ at[a] = "down" /\ ~ Alive(p) /\ drawn # Names
  /\ pid' = [pid EXCEPT ![a] = p] /\ at' = [at EXCEPT ![a] = "clean"] /\ home' = [home EXCEPT ![a] = NoName]
  /\ look' = [look EXCEPT ![a] = [n \in Names |-> IF n \in there THEN "first" ELSE "none"]]
  /\ seen' = [seen EXCEPT ![a] = [n \in Names |-> NoPid]]
  /\ repair' = [repair EXCEPT ![a] = [r \in Requests |-> "none"]]
  /\ stale' = [b \in Apps |-> {n \in (IF b = a THEN there ELSE stale[b]) :
                                 Readable(n) /\ lease[n] # p /\ ~ Alive(lease[n])}]
  /\ touched' = [touched EXCEPT ![a] = FALSE]
  /\ UNCHANGED <<files, sweeps, faults>>

Looked(a, n, step) == look' = [look EXCEPT ![a][n] = step]

\* Mistake: a directory without a readable lease counts as one of a dead process.
DeadOrUnmarked(n) == n \in there /\ ~ Alive(lease[n])
Dead(n) == Readable(n) /\ ~ Alive(lease[n])

FirstLook(a, n) ==
  /\ look[a][n] = "first" /\ Dead(n) /\ Looked(a, n, "second") /\ seen' = [seen EXCEPT ![a][n] = lease[n]]
  /\ UNCHANGED <<pid, at, home, files, repair, stale, touched, sweeps, faults>>

SecondLook(a, n) ==
  /\ look[a][n] = "second" /\ Dead(n) /\ lease[n] = seen[a][n] /\ Looked(a, n, "remove")
  /\ UNCHANGED <<pid, at, home, files, seen, repair, stale, touched, sweeps, faults>>

\* Mistake: one directory it may not remove ends the whole cleaning.
LeaveAll(a, n) == look' = [look EXCEPT ![a] = [m \in Names |-> "none"]]
Leave(a, n) == Looked(a, n, "none")

LooksAlive(a, n) ==
  /\ \/ look[a][n] = "first" /\ ~ Dead(n)
     \/ look[a][n] = "second" /\ (~ Dead(n) \/ lease[n] # seen[a][n])
  /\ Leave(a, n)
  /\ UNCHANGED <<pid, at, home, files, seen, repair, stale, touched, sweeps, faults>>

\* A removal takes the contents, then the directory.
RemoveContents(a, n) ==
  /\ look[a][n] = "remove" /\ lease' = [lease EXCEPT ![n] = None] /\ Looked(a, n, "rmdir") /\ Take(n)
  /\ UNCHANGED <<pid, at, home, there, drawn, seen, repair, stale, sweeps, faults>>

RemoveDirectory(a, n) ==
  /\ look[a][n] = "rmdir" /\ there' = (IF lease[n] = None THEN there \ {n} ELSE there) /\ Leave(a, n) /\ Take(n)
  /\ UNCHANGED <<pid, at, home, lease, drawn, seen, repair, stale, sweeps, faults>>

CleaningFails(a, n) ==
  /\ look[a][n] # "none" /\ faults < MaxFaults /\ faults' = faults + 1 /\ Leave(a, n)
  /\ stale' = [stale EXCEPT ![a] = @ \ {n}]
  /\ UNCHANGED <<pid, at, home, files, seen, repair, touched, sweeps>>

Cleaned(a) ==
  /\ \A n \in Names : look[a][n] = "none"
  /\ Step(a, "clean", "make")
  /\ UNCHANGED <<pid, home, files, look, seen, repair, stale, touched, sweeps, faults>>

-----------------------------------------------------------------------------
(* A start: its own directory.                                             *)

Make(a) ==
  /\ Step(a, "make", "lease")
  /\ \E n \in Names \ drawn :
       /\ drawn' = drawn \union {n} /\ there' = there \union {n} /\ home' = [home EXCEPT ![a] = n]
  /\ UNCHANGED <<pid, lease, look, seen, repair, stale, touched, sweeps, faults>>

\* A lease file is only ever created, never opened for another's contents.
CreateLease(a) == lease' = [lease EXCEPT ![home[a]] = IF home[a] \in there /\ @ = None THEN Half ELSE @]
FillLease(a)   == lease' = [lease EXCEPT ![home[a]] = IF @ = Half THEN pid[a] ELSE @]
OwnsHome(a)    == Readable(home[a]) /\ lease[home[a]] = pid[a]

Lease(a) ==
  /\ \/ home[a] \in there /\ Step(a, "lease", "fill") /\ CreateLease(a)
     \/ Step(a, "fill", "check") /\ FillLease(a)
  /\ UNCHANGED <<pid, home, there, drawn, look, seen, repair, stale, touched, sweeps, faults>>

\* A start that finds its directory gone or not its own gives up.
Created(a) ==
  /\ \/ OwnsHome(a) /\ Step(a, "check", "up") /\ pid' = pid
     \/ ~ OwnsHome(a) /\ Step(a, "check", "down") /\ pid' = [pid EXCEPT ![a] = NoPid]
     \/ home[a] \notin there /\ Step(a, "lease", "down") /\ pid' = [pid EXCEPT ![a] = NoPid]
  /\ UNCHANGED <<home, files, look, seen, repair, stale, touched, sweeps, faults>>

-----------------------------------------------------------------------------
(* The repair before a recording is written.                               *)

\* Mistake: every request repairs by itself.
Unshared(a) == FALSE
Shared(a) == \E r \in Requests : repair[a][r] \in Repairing

Ask(a, r) ==
  /\ at[a] = "up" /\ repair[a][r] \in {"none", "ready", "failed"}
  /\ repair' = [repair EXCEPT ![a][r] = IF Shared(a) THEN "joined" ELSE "mkdir"]
  /\ touched' = [touched EXCEPT ![a] = @ /\ Shared(a)]
  /\ UNCHANGED <<pid, at, home, files, look, seen, stale, sweeps, faults>>

Goes(a, r, now, then) == repair[a][r] = now /\ repair' = [repair EXCEPT ![a][r] = then]

\* A repair settles for all the requests that joined it.
Settle(a, r, how) ==
  repair' = [repair EXCEPT ![a] = [q \in Requests |-> IF q = r \/ @[q] = "joined" THEN how ELSE @[q]]]

RepairDirectory(a, r) ==
  /\ Goes(a, r, "mkdir", "lease") /\ there' = there \union {home[a]}
  /\ UNCHANGED <<pid, at, home, lease, drawn, look, seen, stale, touched, sweeps, faults>>

\* Mistake: a directory that is there needs no lease.
NoLease(a, r) == Goes(a, r, "lease", "last") /\ lease' = lease
RepairLease(a, r) ==
  \/ home[a] \in there /\ lease[home[a]] = None /\ Goes(a, r, "lease", "fill") /\ CreateLease(a)
  \/ home[a] \in there /\ lease[home[a]] # None /\ Goes(a, r, "lease", "check") /\ lease' = lease
  \/ Goes(a, r, "fill", "check") /\ FillLease(a)

Repair(a, r) ==
  /\ \/ RepairLease(a, r)
     \/ OwnsHome(a) /\ Goes(a, r, "check", "last") /\ lease' = lease
     \/ home[a] \in there /\ repair[a][r] = "last" /\ Settle(a, r, "ready") /\ lease' = lease
  /\ UNCHANGED <<pid, at, home, there, drawn, look, seen, stale, touched, sweeps, faults>>

RepairFails(a, r) ==
  /\ \/ repair[a][r] \in {"lease", "last"} /\ home[a] \notin there
     \/ repair[a][r] = "check" /\ ~ OwnsHome(a)
  /\ Settle(a, r, "failed")
  /\ UNCHANGED <<pid, at, home, files, look, seen, stale, touched, sweeps, faults>>

-----------------------------------------------------------------------------
(* The end of a process, and the system's sweeps.                          *)

Quit(a) ==
  /\ Step(a, "up", "leave")
  /\ UNCHANGED <<pid, home, files, look, seen, repair, stale, touched, sweeps, faults>>

\* At the end a process removes the directory its lease names as its own.
LeaveHome(a) ==
  /\ \/ OwnsHome(a) /\ Step(a, "leave", "rmdir") /\ lease' = [lease EXCEPT ![home[a]] = None] /\ Take(home[a])
        /\ UNCHANGED <<there, pid, repair>>
     \/ Step(a, "rmdir", "down") /\ lease' = lease /\ Take(home[a])
        /\ there' = (IF lease[home[a]] = None THEN there \ {home[a]} ELSE there)
        /\ pid' = [pid EXCEPT ![a] = NoPid] /\ repair' = [repair EXCEPT ![a] = [r \in Requests |-> "none"]]
     \/ ~ OwnsHome(a) /\ Step(a, "leave", "down") /\ UNCHANGED <<there, lease, touched>>
        /\ pid' = [pid EXCEPT ![a] = NoPid] /\ repair' = [repair EXCEPT ![a] = [r \in Requests |-> "none"]]
  /\ UNCHANGED <<home, drawn, look, seen, stale, sweeps, faults>>

Crash(a) ==
  /\ a \in Running /\ faults < MaxFaults /\ faults' = faults + 1
  /\ pid' = [pid EXCEPT ![a] = NoPid] /\ at' = [at EXCEPT ![a] = "down"]
  /\ look' = [look EXCEPT ![a] = [n \in Names |-> "none"]]
  /\ repair' = [repair EXCEPT ![a] = [r \in Requests |-> "none"]] /\ stale' = [stale EXCEPT ![a] = {}]
  /\ UNCHANGED <<home, files, seen, touched, sweeps>>

SystemSweep(n) ==
  /\ n \in there /\ sweeps < MaxSweeps /\ sweeps' = sweeps + 1 /\ Take(n)
  /\ lease' = [lease EXCEPT ![n] = None] /\ there' \in {there, there \ {n}}
  /\ UNCHANGED <<pid, at, home, drawn, look, seen, repair, stale, faults>>

-----------------------------------------------------------------------------

Cleaning(a, n) == FirstLook(a, n) \/ SecondLook(a, n) \/ LooksAlive(a, n) \/ RemoveContents(a, n) \/ RemoveDirectory(a, n)
Repairs(a, r) == RepairDirectory(a, r) \/ Repair(a, r) \/ RepairFails(a, r)
Starting(a) == Cleaned(a) \/ Make(a) \/ Lease(a) \/ Created(a)

Next ==
  \/ \E a \in Apps, p \in Pids : Launch(a, p)
  \/ \E a \in Apps, n \in Names : Cleaning(a, n) \/ CleaningFails(a, n)
  \/ \E a \in Apps : Starting(a) \/ Quit(a) \/ LeaveHome(a) \/ Crash(a)
  \/ \E a \in Apps, r \in Requests : Ask(a, r) \/ Repairs(a, r)
  \/ \E n \in Names : SystemSweep(n)

Spec == Init /\ [][Next]_vars

-----------------------------------------------------------------------------

\* No cleaning removes the directory of a process that runs, also while that
\* process has only begun to mark it and whatever PIDs are given again.
LiveCacheStays == \A a \in Apps, b \in Running :
  home[b] \in Names => look[a][home[b]] \notin {"remove", "rmdir"}

\* A cleaning that ends has removed every directory it found with the lease of
\* a dead process, or another cleaning broke off in the middle of that.
CleaningIsComplete == \A a \in Apps :
  at[a] = "make" => \A n \in stale[a] : n \notin there \/ lease[n] = None

\* The cleaning of a start takes what dead processes left, all of it, and nothing
\* of one that runs (cleanupAbandoned).
CleaningIsSound == TypeOK /\ LiveCacheStays /\ CleaningIsComplete

\* A request for the directory fails only when something was taken from the
\* directory after its repair began: never because of another request.
RequestsDoNotCollide ==
     \A a \in Apps, r \in Requests :
       repair'[a][r] = "failed" /\ repair[a][r] # "failed" => touched[a]

\* A request that is granted finds the directory there with this process's
\* lease, unless something was taken from it meanwhile.
GrantedIsLeased ==
     \A a \in Apps, r \in Requests :
       repair'[a][r] = "ready" /\ repair[a][r] # "ready" /\ ~ touched[a] => OwnsHome(a)

\* Overlapping requests share one repair: none fails because of another, and what
\* is granted is leased (AudioCache.ensureReady).
RequestsAreServed == [][RequestsDoNotCollide /\ GrantedIsLeased]_vars

=============================================================================
