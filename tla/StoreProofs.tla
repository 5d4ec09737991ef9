------------------------------ MODULE StoreProofs ------------------------------
(***************************************************************************)
(* What holds of the stores, for any number of everything. They share no   *)
(* state, so each has its own part, with its own variables.                *)
(*                                                                         *)
(* The directory of recordings (AudioCache).  For any processes, names,    *)
(* PIDs and requests, however many sweeps and crashes: a cleaning never    *)
(* takes the directory of a process that runs and takes all that it found  *)
(* dead, no request for the directory fails because of another one, and    *)
(* what is granted is leased.                                              *)
(*                                                                         *)
(* The argument is about leases.  A process that runs has a name nobody    *)
(* else has, and the lease under it is none, half written or its own       *)
(* (Leases); so a lease that reads as a dead process's is under no such    *)
(* name, and stays so until its cleaning ends (Stale).  A half-written     *)
(* lease is being written by the one request that repairs (HalfLeases), so *)
(* a repair that nothing was taken from finds what it made (Repaired).     *)
(*                                                                         *)
(* The export of the history (HistoryExport).  The file at the target is   *)
(* whole and tells the truth about what was stored and readable when its   *)
(* place was chosen, and no file is left behind.  How far an export is     *)
(* says what its temporary file holds (Written), and whoever's file is     *)
(* anywhere has read just that (Told).                                     *)
(*                                                                         *)
(* The private records (SavedData).  A reset is alone with the records, so *)
(* what it deletes is what it copied; a deletion that reports success is   *)
(* one the checkpoint followed.                                            *)
(*                                                                         *)
(* The dictionary, the snippets and the profiles (TextRules).  A rule is   *)
(* saved only where it is the only one with its phrase, which needs a      *)
(* finite table, to count in; a profile only in place of all that have its *)
(* application.                                                            *)
(*                                                                         *)
(* The database of an older installation (StoreUpgrade).  Every migration  *)
(* that is in the ledger says where the notes, the rules, the profiles and *)
(* the settings are now (NotesAreSomewhere and the others), and a          *)
(* migration and its row of the ledger commit together.                    *)
(*                                                                         *)
(* The trail of diagnostics (DiagnosticsTrail).  The recorder's count of   *)
(* the file is wrong by no more than the lines it could not count          *)
(* (Counting), and the entry under way says which of the two files is      *)
(* empty or a copy (AtWork).                                               *)
(***************************************************************************)
EXTENDS AudioCache, Sequences, FiniteSetTheorems, SequenceTheorems, TLAPS

Sound ==
  /\ pid \in [Apps -> Pids \union {NoPid}] /\ home \in [Apps -> Names \union {NoName}]
  /\ at \in [Apps -> {"down", "clean", "make", "lease", "fill", "check", "up", "leave", "rmdir"}]
  /\ there \subseteq drawn /\ drawn \subseteq Names
  /\ lease \in [Names -> Pids \union {None, Half}] /\ \A n \in Names \ there : lease[n] = None
  /\ look \in [Apps -> [Names -> {"none", "first", "second", "remove", "rmdir"}]]
  /\ seen \in [Apps -> [Names -> Pids \union {NoPid}]]
  /\ repair \in [Apps -> [Requests -> {"none", "joined", "ready", "failed"} \union Repairing]]
  /\ stale \in [Apps -> SUBSET Names] /\ touched \in [Apps -> BOOLEAN]

\* Running processes have different PIDs and different names; one request repairs.
Processes ==
  /\ \A a \in Apps : at[a] = "down" <=> pid[a] = NoPid
  /\ \A a, b \in Running : pid[a] = pid[b] => a = b
  /\ \A a \in Running : IF at[a] \in {"clean", "make"} THEN home[a] = NoName ELSE home[a] \in drawn
  /\ \A a, b \in Running : home[a] = home[b] /\ home[a] # NoName => a = b
  /\ \A a \in Apps, r \in Requests : repair[a][r] \in Repairing => at[a] \in {"up", "leave", "rmdir"}
  /\ \A a \in Apps, q, r \in Requests :
       repair[a][q] \in Repairing /\ repair[a][r] \in Repairing => q = r

\* The lease under the name of a process that runs is its own, as far as it is written.
Leases ==
  /\ \A a \in Running : home[a] # NoName => lease[home[a]] \in {None, Half, pid[a]}
  /\ \A a \in Apps, n \in Names : look[a][n] # "none" => n \in drawn /\ at[a] = "clean"

\* What a cleaning found dead stays dead, and its lease stays what was seen, until removed.
Stale == \A a \in Apps : \A n \in stale[a] :
  /\ n \in drawn /\ \A b \in Running : home[b] # n
  /\ lease[n] # None => Dead(n)
  /\ at[a] \in {"clean", "make"} /\ lease[n] # None =>
       look[a][n] \notin {"none", "rmdir"} /\ (look[a][n] = "second" => lease[n] = seen[a][n])

HalfLeases == \A a \in Running :
  home[a] # NoName /\ lease[home[a]] = Half =>
    at[a] = "fill" \/ \E r \in Requests : repair[a][r] = "fill"

\* What a repair has made is there, unless something was taken from it.
Repaired == \A a \in Apps, r \in Requests :
  repair[a][r] \in Repairing \ {"mkdir"} /\ ~ touched[a] =>
     /\ home[a] \in there
     /\ repair[a][r] = "fill" => lease[home[a]] = Half
     /\ repair[a][r] \in {"check", "last"} => lease[home[a]] = pid[a]

Inv == Sound /\ Processes /\ Leases /\ LiveCacheStays /\ Stale /\ HalfLeases /\ Repaired

-----------------------------------------------------------------------------
\* A process beyond the making of its directory has a name, and the lease there.
LEMMA AtHome ==
  ASSUME Sound, Processes, Leases, NEW a \in Apps, at[a] \notin {"down", "clean", "make"}
  PROVE  /\ a \in Running /\ pid[a] \in Pids /\ pid[a] \notin {NoPid, None, Half}
         /\ home[a] \in Names /\ home[a] \in drawn /\ home[a] # NoName
         /\ lease[home[a]] \in {None, Half, pid[a]}
<1>1. pid[a] \in Pids /\ pid[a] # NoPid  BY DEF Sound, Processes
<1>2. a \in Running /\ home[a] \in drawn  BY <1>1 DEF Running, Processes
<1>3. home[a] \in Names /\ home[a] # NoName  BY <1>2, CacheAssumption DEF Sound, NoName
<1>4. pid[a] \notin {None, Half}  BY <1>1, CacheAssumption DEF None, Half
<1> QED  BY <1>1, <1>2, <1>3, <1>4 DEF Leases

\* A repair of another process is of another directory.
LEMMA Elsewhere ==
  ASSUME Sound, Processes, Leases, NEW a \in Running, home[a] # NoName,
         NEW b \in Apps, b # a, NEW r \in Requests, repair[b][r] \in Repairing
  PROVE  home[b] \in Names /\ home[b] # home[a]
<1>1. at[b] \notin {"down", "clean", "make"}  BY DEF Processes
<1> QED  BY <1>1, AtHome DEF Processes

\* What creating, filling, advancing and settling change, element by element.
LEMMA LeaseCreated ==
  ASSUME Sound, NEW a \in Apps, home[a] \in Names, CreateLease(a)
  PROVE  /\ lease' \in [Names -> Pids \union {None, Half}]
         /\ \A n \in Names : lease'[n] = IF n = home[a] /\ n \in there /\ lease[n] = None THEN Half ELSE lease[n]
BY DEF Sound, CreateLease

LEMMA LeaseFilled ==
  ASSUME Sound, NEW a \in Apps, home[a] \in Names, pid[a] \in Pids, FillLease(a)
  PROVE  /\ lease' \in [Names -> Pids \union {None, Half}]
         /\ \A n \in Names : lease'[n] = IF n = home[a] /\ lease[n] = Half THEN pid[a] ELSE lease[n]
BY DEF Sound, FillLease

LEMMA Gone ==
  ASSUME Sound, NEW a \in Apps, NEW r \in Requests, NEW now, NEW then \in Repairing, Goes(a, r, now, then)
  PROVE  /\ repair' \in [Apps -> [Requests -> {"none", "joined", "ready", "failed"} \union Repairing]]
         /\ \A b \in Apps, q \in Requests : repair'[b][q] = IF b = a /\ q = r THEN then ELSE repair[b][q]
BY DEF Sound, Goes

LEMMA Settled ==
  ASSUME Sound, NEW a \in Apps, NEW r \in Requests, NEW how \in {"ready", "failed"}, Settle(a, r, how)
  PROVE  /\ repair' \in [Apps -> [Requests -> {"none", "joined", "ready", "failed"} \union Repairing]]
         /\ \A b \in Apps, q \in Requests :
              repair'[b][q] = IF b = a /\ (q = r \/ repair[b][q] = "joined") THEN how ELSE repair[b][q]
<1>1. repair[a] \in [Requests -> {"none", "joined", "ready", "failed"} \union Repairing]  BY DEF Sound
<1>2. [q \in Requests |-> IF q = r \/ repair[a][q] = "joined" THEN how ELSE repair[a][q]]
        \in [Requests -> {"none", "joined", "ready", "failed"} \union Repairing]
  BY <1>1
<1> QED  BY <1>2 DEF Sound, Settle

-----------------------------------------------------------------------------
(* The invariant, action by action.                                        *)

LEMMA LeaseStep == ASSUME Inv, NEW a \in Apps, Lease(a) PROVE Inv'
<1> USE DEF Inv
<1>1. at[a] \in {"lease", "fill"} /\ UNCHANGED <<pid, home, there, drawn, look, seen, repair, stale, touched>>
  BY DEF Lease, Step
<1>2. /\ a \in Running /\ pid[a] \in Pids /\ pid[a] \notin {NoPid, None, Half}
      /\ home[a] \in Names /\ home[a] \in drawn /\ home[a] # NoName
      /\ lease[home[a]] \in {None, Half, pid[a]}
  BY <1>1, AtHome
<1>3. \E then \in {"fill", "check"} : at' = [at EXCEPT ![a] = then]  BY DEF Lease, Step
<1>4. /\ lease' \in [Names -> Pids \union {None, Half}] /\ \A n \in Names \ {home[a]} : lease'[n] = lease[n]
      /\ \/ at'[a] = "fill" /\ home[a] \in there /\ lease'[home[a]] = (IF lease[home[a]] = None THEN Half ELSE lease[home[a]])
         \/ lease'[home[a]] = (IF lease[home[a]] = Half THEN pid[a] ELSE lease[home[a]])
  BY <1>2, LeaseCreated, LeaseFilled DEF Lease, Step, Sound
<1>5. Sound'
  <2>1. \A n \in Names \ there : lease'[n] = None  BY <1>2, <1>4 DEF Sound, None, Half
  <2> QED  BY <1>1, <1>3, <1>4, <2>1 DEF Sound
<1>6. Processes'  BY <1>1, <1>3 DEF Sound, Processes, Running
<1>7. Leases'
  <2>1. \A b \in Running : b # a /\ home[b] # NoName => home[b] \in Names \ {home[a]}
    BY <1>2 DEF Sound, Processes, NoName
  <2>2. lease'[home[a]] \in {None, Half, pid[a]}  BY <1>2, <1>4
  <2>3. \A b \in Apps : at[b] = "clean" => at'[b] = "clean"  BY <1>1, <1>3 DEF Sound
  <2> QED  BY <1>1, <1>4, <2>1, <2>2, <2>3 DEF Leases, Running
<1>8. LiveCacheStays'  BY <1>1 DEF LiveCacheStays, Running
<1>9. Stale'
  <2>1. \A b \in Apps : \A n \in stale[b] : n \in Names \ {home[a]}  BY <1>2 DEF Stale, Sound
  <2> QED  BY <1>1, <1>2, <1>3, <1>4, <2>1 DEF Stale, Sound, Running, Dead, Readable, Alive
<1>10. HalfLeases'  BY <1>1, <1>2, <1>3, <1>4 DEF HalfLeases, Sound, Processes, Running
<1>11. Repaired'
  <2> SUFFICES ASSUME NEW b \in Apps, NEW r \in Requests, repair[b][r] \in Repairing
               PROVE  lease'[home[b]] = lease[home[b]]
    BY <1>1 DEF Repaired, Repairing
  <2>1. b # a  BY <1>1 DEF Processes
  <2>2. home[b] \in Names \ {home[a]}  BY <1>2, <2>1, Elsewhere
  <2> QED  BY <1>4, <2>2
<1> QED  BY <1>5, <1>6, <1>7, <1>8, <1>9, <1>10, <1>11

LEMMA RepairStep == ASSUME Inv, NEW a \in Apps, NEW r \in Requests, Repair(a, r) PROVE Inv'
<1> USE DEF Inv
<1>1. repair[a][r] \in Repairing /\ UNCHANGED <<pid, at, home, there, drawn, look, seen, stale, touched>>
  BY DEF Repair, RepairLease, Goes, Repairing
<1>2. at[a] \notin {"down", "clean", "make"}  BY <1>1 DEF Processes
<1>3. /\ a \in Running /\ pid[a] \in Pids /\ pid[a] \notin {NoPid, None, Half}
      /\ home[a] \in Names /\ home[a] \in drawn /\ home[a] # NoName
      /\ lease[home[a]] \in {None, Half, pid[a]}
  BY <1>2, AtHome
<1>4. /\ lease' \in [Names -> Pids \union {None, Half}] /\ \A n \in Names \ {home[a]} : lease'[n] = lease[n]
      /\ repair' \in [Apps -> [Requests -> {"none", "joined", "ready", "failed"} \union Repairing]]
      /\ \A b \in Apps, q \in Requests : b # a \/ (q # r /\ repair[b][q] # "joined") => repair'[b][q] = repair[b][q]
      /\ \A q \in Requests : q # r => repair'[a][q] \notin Repairing \/ repair[a][q] \in Repairing
      /\ \/ /\ repair[a][r] = "lease" /\ repair'[a][r] = "fill" /\ home[a] \in there
            /\ lease[home[a]] = None /\ lease'[home[a]] = Half
         \/ /\ repair[a][r] = "lease" /\ repair'[a][r] = "check" /\ home[a] \in there
            /\ lease[home[a]] # None /\ lease'[home[a]] = lease[home[a]]
         \/ /\ repair[a][r] = "fill" /\ repair'[a][r] = "check"
            /\ lease'[home[a]] = (IF lease[home[a]] = Half THEN pid[a] ELSE lease[home[a]])
         \/ /\ repair[a][r] = "check" /\ repair'[a][r] = "last" /\ lease'[home[a]] = lease[home[a]]
            /\ OwnsHome(a)
         \/ /\ repair[a][r] = "last" /\ repair'[a][r] = "ready" /\ lease'[home[a]] = lease[home[a]]
  <2>1. {"fill", "check", "last"} \subseteq Repairing /\ "ready" \notin Repairing /\ "joined" \notin Repairing
    BY DEF Repairing
  <2>2. CASE home[a] \in there /\ lease[home[a]] = None /\ Goes(a, r, "lease", "fill") /\ CreateLease(a)
    BY <1>3, <2>1, <2>2, Gone, LeaseCreated DEF Goes, Sound
  <2>3. CASE home[a] \in there /\ lease[home[a]] # None /\ Goes(a, r, "lease", "check") /\ lease' = lease
    BY <1>3, <2>1, <2>3, Gone DEF Goes, Sound
  <2>4. CASE Goes(a, r, "fill", "check") /\ FillLease(a)
    BY <1>3, <2>1, <2>4, Gone, LeaseFilled DEF Goes, Sound
  <2>5. CASE OwnsHome(a) /\ Goes(a, r, "check", "last") /\ lease' = lease
    BY <1>3, <2>1, <2>5, Gone DEF Goes, Sound
  <2>6. CASE home[a] \in there /\ repair[a][r] = "last" /\ Settle(a, r, "ready") /\ lease' = lease
    <3>1. \A b \in Apps, q \in Requests :
            repair'[b][q] = IF b = a /\ (q = r \/ repair[b][q] = "joined") THEN "ready" ELSE repair[b][q]
      BY <2>6, Settled
    <3>2. repair' \in [Apps -> [Requests -> {"none", "joined", "ready", "failed"} \union Repairing]]
      BY <2>6, Settled
    <3> QED  BY ZenonT(40), <1>3, <2>1, <2>6, <3>1, <3>2 DEF Sound
  <2> QED  BY <2>2, <2>3, <2>4, <2>5, <2>6 DEF Repair, RepairLease
<1>5. Sound'
  <2>1. \A n \in Names \ there : lease'[n] = None  BY <1>3, <1>4 DEF Sound, None, Half
  <2> QED  BY <1>1, <1>4, <2>1 DEF Sound
<1>6. Processes'
  <2>1. \A b \in Apps, q \in Requests : repair'[b][q] \in Repairing => repair[b][q] \in Repairing
    BY <1>1, <1>4 DEF Repairing
  <2> QED  BY <1>1, <2>1 DEF Sound, Processes, Running
<1>7. Leases'
  <2>1. \A b \in Running : b # a /\ home[b] # NoName => home[b] \in Names \ {home[a]}
    BY <1>3 DEF Sound, Processes, NoName
  <2>2. lease'[home[a]] \in {None, Half, pid[a]}  BY <1>3, <1>4
  <2> QED  BY <1>1, <1>4, <2>1, <2>2 DEF Leases, Running
<1>8. LiveCacheStays'  BY <1>1 DEF LiveCacheStays, Running
<1>9. Stale'
  <2>1. \A b \in Apps : \A n \in stale[b] : n \in Names \ {home[a]}  BY <1>3 DEF Stale, Sound
  <2> QED  BY <1>1, <1>4, <2>1 DEF Stale, Sound, Running, Dead, Readable, Alive
<1>10. HalfLeases'
  <2> SUFFICES ASSUME NEW b \in Running, home[b] # NoName, lease'[home[b]] = Half
               PROVE  at[b] = "fill" \/ \E q \in Requests : repair'[b][q] = "fill"
    BY <1>1 DEF HalfLeases, Running
  <2>1. CASE b = a
    <3>1. \A q \in Requests : repair[a][q] = "fill" => q = r  BY <1>1 DEF Processes, Repairing
    <3> QED  BY <1>3, <1>4, <2>1, <3>1 DEF HalfLeases
  <2>2. CASE b # a
    <3>1. home[b] \in Names \ {home[a]}  BY <1>3, <2>2 DEF Sound, Processes, NoName, Running
    <3> QED  BY <1>4, <2>2, <3>1 DEF HalfLeases, Running
  <2> QED  BY <2>1, <2>2
<1>11. Repaired'
  <2> SUFFICES ASSUME NEW b \in Apps, NEW q \in Requests,
                      repair'[b][q] \in Repairing \ {"mkdir"}, ~ touched[b]
               PROVE  /\ home[b] \in there
                      /\ repair'[b][q] = "fill" => lease'[home[b]] = Half
                      /\ repair'[b][q] \in {"check", "last"} => lease'[home[b]] = pid[b]
    BY <1>1 DEF Repaired
  <2>1. repair[b][q] \in Repairing  BY <1>1, <1>4 DEF Repairing
  <2>2. CASE b # a
    <3>1. home[b] \in Names \ {home[a]}  BY <1>3, <2>1, <2>2, Elsewhere
    <3> QED  BY <1>4, <2>2, <3>1 DEF Repaired
  <2>3. CASE b = a
    <3>1. q = r  BY <1>1, <2>1, <2>3 DEF Processes
    <3>2. lease[home[a]] = Half => repair[a][r] = "fill"
      <4>1. at[a] # "fill"  BY <1>1 DEF Processes
      <4>2. \A p \in Requests : repair[a][p] = "fill" => p = r  BY <1>1 DEF Processes, Repairing
      <4> QED  BY <1>3, <4>1, <4>2 DEF HalfLeases
    <3>3. repair[a][r] \in {"lease", "fill", "check"}  BY <1>4, <2>3, <3>1 DEF Repairing
    <3>4. home[a] \in there /\ (repair[a][r] = "fill" => lease[home[a]] = Half)
          /\ (repair[a][r] = "check" => lease[home[a]] = pid[a])
      BY <2>3, <3>3 DEF Repaired, Repairing
    <3> QED  BY <1>3, <1>4, <2>3, <3>1, <3>2, <3>3, <3>4
  <2> QED  BY <2>2, <2>3
<1> QED  BY <1>5, <1>6, <1>7, <1>8, <1>9, <1>10, <1>11

\* A new PID is no running process's, and a name found at a start is no running process's home
\* if its lease is of a dead one.
LEMMA LaunchStep == ASSUME Inv, NEW a \in Apps, NEW p \in Pids, Launch(a, p) PROVE Inv'
<1> USE DEF Inv, Launch, files
<1>1. Sound'  BY DEF Sound, Repairing, NoPid, None
<1>2. Processes'
  <2>1. a \notin Running /\ p # NoPid  BY CacheAssumption DEF Processes, Running, NoPid
  <2>2. Running' = Running \union {a}  BY <2>1 DEF Running, Sound
  <2>3. /\ pid'[a] = p /\ at'[a] = "clean" /\ home'[a] = NoName /\ \A r \in Requests : repair'[a][r] = "none"
        /\ \A b \in Apps \ {a} : UNCHANGED <<pid[b], at[b], home[b], repair[b]>>
    BY DEF Sound
  <2>4. \A b \in Apps : at'[b] = "down" <=> pid'[b] = NoPid  BY <2>1, <2>3 DEF Processes
  <2>5. \A b, c \in Running' : pid'[b] = pid'[c] => b = c
    BY <2>1, <2>2, <2>3 DEF Processes, Alive, Running
  <2>6. "none" \notin Repairing  BY DEF Repairing
  <2> QED  BY <2>1, <2>2, <2>3, <2>4, <2>5, <2>6 DEF Processes
<1>3. Leases'  BY DEF Sound, Processes, Leases, Running
<1>4. LiveCacheStays'
  <2>1. a \notin Running  BY DEF Processes, Running
  <2>2. Running' = Running \union {a} /\ home' = [home EXCEPT ![a] = NoName] /\ NoName \notin Names
    BY CacheAssumption DEF Running, NoPid, NoName, Sound
  <2>3. \A c \in Apps, n \in Names : look'[c][n] \in {look[c][n], "first", "none"}  BY DEF Sound
  <2> QED  BY <2>1, <2>2, <2>3 DEF LiveCacheStays, Sound
<1>5. Stale'
  <2>1. /\ \A b \in Apps \ {a} : at'[b] = at[b] /\ look'[b] = look[b] /\ seen'[b] = seen[b]
        /\ \A n \in Names : look'[a][n] = IF n \in there THEN "first" ELSE "none"
    BY DEF Sound
  <2>2. \A b \in Apps : \A n \in stale'[b] :
          Readable(n) /\ lease[n] # p /\ ~ Alive(lease[n]) /\ (b # a => n \in stale[b])
    OBVIOUS
  <2>3. \A n \in Names : ~ Alive(lease[n]) /\ lease[n] # p => ~ Alive(lease[n])'  BY DEF Alive, Sound
  <2>4. \A n \in Names : Readable(n) /\ ~ Alive(lease[n]) => \A b \in Running : home[b] # n
    <3> SUFFICES ASSUME NEW b \in Running, Readable(home[b]), home[b] \in Names PROVE Alive(lease[home[b]])
      OBVIOUS
    <3>1. home[b] # NoName /\ None \notin Pids /\ Half \notin Pids
      BY CacheAssumption DEF NoName, None, Half
    <3> QED  BY <3>1 DEF Leases, Readable, Alive, Running
  <2>5. Running' = Running \union {a} /\ \A n \in Names : home'[a] # n
        /\ \A b \in Apps \ {a} : home'[b] = home[b]
    BY CacheAssumption DEF Running, NoPid, NoName, Sound
  <2> QED  BY <2>1, <2>2, <2>3, <2>4, <2>5 DEF Stale, Sound, Dead, Readable
<1>6. HalfLeases'  BY DEF Sound, Processes, HalfLeases, Running, NoPid, NoName, None, Half
<1>7. Repaired'  BY DEF Sound, Processes, Repaired, Repairing, Running
<1> QED  BY <1>1, <1>2, <1>3, <1>4, <1>5, <1>6, <1>7

LEMMA FirstLookStep == ASSUME Inv, NEW a \in Apps, NEW n \in Names, FirstLook(a, n) PROVE Inv'
<1> USE DEF Inv, FirstLook, Looked, files
<1>1. Sound'  BY DEF Sound, Dead, Readable
<1>2. Processes'  BY DEF Sound, Processes, Repairing, Running, NoPid, NoName
<1>3. Leases'  BY DEF Sound, Processes, Leases, Running
<1>4. LiveCacheStays'  BY DEF Sound, LiveCacheStays, Running
<1>5. Stale'  BY DEF Sound, Stale, Running, Dead, Readable, Alive, NoPid, None
<1>6. HalfLeases'  BY DEF Sound, Processes, HalfLeases, Running, NoPid, NoName, None, Half
<1>7. Repaired'  BY DEF Sound, Processes, Repaired, Repairing, Running
<1> QED  BY <1>1, <1>2, <1>3, <1>4, <1>5, <1>6, <1>7

\* What is condemned has the lease of a dead process, so it is nobody's home.
LEMMA SecondLookStep == ASSUME Inv, NEW a \in Apps, NEW n \in Names, SecondLook(a, n) PROVE Inv'
<1> USE DEF Inv, SecondLook, Looked, files
<1>1. Sound'  BY DEF Sound, Repairing, NoPid, None
<1>2. Processes'  BY DEF Sound, Processes, Repairing, Running, NoPid, NoName
<1>3. Leases'  BY DEF Sound, Processes, Leases, Running
<1>4. LiveCacheStays'
  <2>1. \A b \in Running : home[b] # n
    <3> SUFFICES ASSUME NEW b \in Running, home[b] = n PROVE FALSE  OBVIOUS
    <3>1. n # NoName /\ None \notin Pids /\ Half \notin Pids
      BY CacheAssumption DEF NoName, None, Half
    <3> QED  BY <3>1 DEF Leases, Dead, Readable, Alive, Running
  <2> QED  BY <2>1 DEF Sound, LiveCacheStays, Running
<1>5. Stale'  BY DEF Sound, Stale, Running, Dead, Readable, Alive, NoPid, None
<1>6. HalfLeases'  BY DEF Sound, Processes, HalfLeases, Running, NoPid, NoName, None, Half
<1>7. Repaired'  BY DEF Sound, Processes, Repaired, Repairing, Running
<1> QED  BY <1>1, <1>2, <1>3, <1>4, <1>5, <1>6, <1>7

LEMMA LooksAliveStep == ASSUME Inv, NEW a \in Apps, NEW n \in Names, LooksAlive(a, n) PROVE Inv'
<1> USE DEF Inv, LooksAlive, Leave, Looked, files
<1>1. Sound'  BY DEF Sound, Repairing, NoPid, None
<1>2. Processes'  BY DEF Sound, Processes, Repairing, Running, NoPid, NoName
<1>3. Leases'  BY DEF Sound, Processes, Leases, Running
<1>4. LiveCacheStays'  BY DEF Sound, LiveCacheStays, Running
<1>5. Stale'  BY DEF Sound, Stale, Running, Dead, Readable, Alive, NoPid, None
<1>6. HalfLeases'  BY DEF Sound, Processes, HalfLeases, Running, NoPid, NoName, None, Half
<1>7. Repaired'  BY DEF Sound, Processes, Repaired, Repairing, Running
<1> QED  BY <1>1, <1>2, <1>3, <1>4, <1>5, <1>6, <1>7

LEMMA RemoveContentsStep ==
  ASSUME Inv, NEW a \in Apps, NEW n \in Names, RemoveContents(a, n)
  PROVE Inv'
<1> USE DEF Inv, RemoveContents, Looked, Take
<1>1. Sound'  BY DEF Sound, Repairing, NoPid, None
<1>2. Processes'  BY DEF Sound, Processes, Repairing, Running, NoPid, NoName
<1>3. Leases'  BY DEF Sound, Processes, Leases, Running
<1>4. LiveCacheStays'  BY DEF Sound, LiveCacheStays, Running
<1>5. Stale'  BY DEF Sound, Stale, Running, Dead, Readable, Alive, NoPid, None
<1>6. HalfLeases'  BY DEF Sound, Processes, HalfLeases, Running, NoPid, NoName, None, Half
<1>7. Repaired'  BY DEF Sound, Processes, Repaired, Repairing, Running
<1> QED  BY <1>1, <1>2, <1>3, <1>4, <1>5, <1>6, <1>7

LEMMA RemoveDirectoryStep ==
  ASSUME Inv, NEW a \in Apps, NEW n \in Names, RemoveDirectory(a, n)
  PROVE Inv'
<1> USE DEF Inv, RemoveDirectory, Leave, Looked, Take
<1>1. Sound'  BY DEF Sound, Repairing, NoPid, None
<1>2. Processes'  BY DEF Sound, Processes, Repairing, Running, NoPid, NoName
<1>3. Leases'  BY DEF Sound, Processes, Leases, Running
<1>4. LiveCacheStays'  BY DEF Sound, LiveCacheStays, Running
<1>5. Stale'  BY DEF Sound, Stale, Running, Dead, Readable, Alive, NoPid, None
<1>6. HalfLeases'  BY DEF Sound, Processes, HalfLeases, Running, NoPid, NoName, None, Half
<1>7. Repaired'  BY DEF Sound, Processes, Repaired, Repairing, Running
<1> QED  BY <1>1, <1>2, <1>3, <1>4, <1>5, <1>6, <1>7

LEMMA CleaningFailsStep ==
  ASSUME Inv, NEW a \in Apps, NEW n \in Names, CleaningFails(a, n)
  PROVE Inv'
<1> USE DEF Inv, CleaningFails, Leave, Looked, files
<1>1. Sound'  BY DEF Sound, Repairing, NoPid, None
<1>2. Processes'  BY DEF Sound, Processes, Repairing, Running, NoPid, NoName
<1>3. Leases'  BY DEF Sound, Processes, Leases, Running
<1>4. LiveCacheStays'  BY DEF Sound, LiveCacheStays, Running
<1>5. Stale'  BY DEF Sound, Stale, Running, Dead, Readable, Alive, NoPid, None
<1>6. HalfLeases'  BY DEF Sound, Processes, HalfLeases, Running, NoPid, NoName, None, Half
<1>7. Repaired'  BY DEF Sound, Processes, Repaired, Repairing, Running
<1> QED  BY <1>1, <1>2, <1>3, <1>4, <1>5, <1>6, <1>7

LEMMA CleanedStep == ASSUME Inv, NEW a \in Apps, Cleaned(a) PROVE Inv'
<1> USE DEF Inv, Cleaned, Step, files
<1>1. Sound'  BY DEF Sound, Repairing, NoPid, None
<1>2. Processes'  BY DEF Sound, Processes, Repairing, Running, NoPid, NoName
<1>3. Leases'  BY DEF Sound, Processes, Leases, Running
<1>4. LiveCacheStays'  BY DEF Sound, LiveCacheStays, Running
<1>5. Stale'  BY DEF Sound, Stale, Running, Dead, Readable, Alive, NoPid, None
<1>6. HalfLeases'  BY DEF Sound, Processes, HalfLeases, Running, NoPid, NoName, None, Half
<1>7. Repaired'  BY DEF Sound, Processes, Repaired, Repairing, Running
<1> QED  BY <1>1, <1>2, <1>3, <1>4, <1>5, <1>6, <1>7

LEMMA MakeStep == ASSUME Inv, NEW a \in Apps, Make(a) PROVE Inv'
<1> USE DEF Inv, Make, Step
<1>1. Sound'  BY DEF Sound, Repairing, NoPid, None
<1>2. Processes'  BY DEF Sound, Processes, Repairing, Running, NoPid, NoName
<1>3. Leases'  BY DEF Sound, Processes, Leases, Running
<1>4. LiveCacheStays'
  <2>1. \A b \in Apps : home'[b] = home[b] \/ home'[b] \notin drawn  BY DEF Sound
  <2>2. \A c \in Apps, n \in Names : look[c][n] # "none" => n \in drawn  BY DEF Leases
  <2> QED  BY <2>1, <2>2 DEF LiveCacheStays, Running
<1>5. Stale'  BY DEF Sound, Stale, Running, Dead, Readable, Alive, NoPid, None
<1>6. HalfLeases'  BY DEF Sound, Processes, HalfLeases, Running, NoPid, NoName, None, Half
<1>7. Repaired'
  <2> SUFFICES ASSUME NEW b \in Apps, NEW r \in Requests, repair[b][r] \in Repairing
               PROVE  home'[b] = home[b] /\ UNCHANGED <<pid, lease, repair, touched>> /\ there \subseteq there'
    BY DEF Repaired
  <2>1. b # a  BY DEF Processes
  <2> QED  BY <2>1 DEF Sound
<1> QED  BY <1>1, <1>2, <1>3, <1>4, <1>5, <1>6, <1>7

LEMMA CreatedStep == ASSUME Inv, NEW a \in Apps, Created(a) PROVE Inv'
<1> USE DEF Inv, Created, Step, files
<1>1. Sound'  BY DEF Sound, Repairing, NoPid, None
<1>2. Processes'
  <2>1. CASE pid' = pid /\ at' = [at EXCEPT ![a] = "up"]  BY <2>1 DEF Sound, Processes, Running
  <2>2. CASE pid' = [pid EXCEPT ![a] = NoPid] /\ at' = [at EXCEPT ![a] = "down"]
    <3>1. \A b \in Running' : b # a /\ b \in Running /\ pid'[b] = pid[b] /\ at'[b] = at[b]
      BY <2>2 DEF Running, Sound
    <3>2. \A b \in Apps : at'[b] = "down" <=> pid'[b] = NoPid  BY <2>2 DEF Sound, Processes
    <3>3. \A r \in Requests : repair[a][r] \notin Repairing  BY DEF Processes
    <3> QED  BY <2>2, <3>1, <3>2, <3>3 DEF Processes, Sound
  <2> QED  BY <2>1, <2>2
<1>3. Leases'
  <2>1. \A b \in Running' : b \in Running /\ pid'[b] = pid[b]  BY DEF Running, Sound
  <2>2. \A b \in Apps : at[b] = "clean" => at'[b] = "clean"  BY DEF Sound
  <2> QED  BY <2>1, <2>2 DEF Leases
<1>4. LiveCacheStays'
  <2>1. \A b \in Running' : b \in Running  BY DEF Running, NoPid, Sound
  <2> QED  BY <2>1 DEF LiveCacheStays
<1>5. Stale'  BY DEF Sound, Stale, Running, Dead, Readable, Alive, NoPid, None
<1>6. HalfLeases'  BY DEF Sound, Processes, HalfLeases, Running, NoPid, NoName, None, Half
<1>7. Repaired'  BY ZenonT(40) DEF Sound, Processes, Repaired, Repairing, Running
<1> QED  BY <1>1, <1>2, <1>3, <1>4, <1>5, <1>6, <1>7

LEMMA AskStep == ASSUME Inv, NEW a \in Apps, NEW r \in Requests, Ask(a, r) PROVE Inv'
<1> USE DEF Inv, Ask, Shared, files
<1>1. Sound'  BY DEF Sound, Repairing, NoPid, None
<1>2. Processes'
  <2>1. \A b \in Apps, q \in Requests :
          repair'[b][q] = IF b = a /\ q = r THEN (IF Shared(a) THEN "joined" ELSE "mkdir") ELSE repair[b][q]
    BY DEF Sound
  <2>2. "joined" \notin Repairing  BY DEF Repairing
  <2> QED  BY <2>1, <2>2 DEF Processes, Running
<1>3. Leases'  BY DEF Sound, Processes, Leases, Running
<1>4. LiveCacheStays'  BY DEF Sound, LiveCacheStays, Running
<1>5. Stale'  BY DEF Sound, Stale, Running, Dead, Readable, Alive, NoPid, None
<1>6. HalfLeases'  BY DEF Sound, Processes, HalfLeases, Running, NoPid, NoName, None, Half
<1>7. Repaired'  BY DEF Sound, Processes, Repaired, Repairing, Running
<1> QED  BY <1>1, <1>2, <1>3, <1>4, <1>5, <1>6, <1>7

LEMMA RepairDirectoryStep ==
  ASSUME Inv, NEW a \in Apps, NEW r \in Requests, RepairDirectory(a, r)
  PROVE Inv'
<1> USE DEF Inv, RepairDirectory, Goes
<1>1. Sound'
  <2>1. at[a] \notin {"down", "clean", "make"} /\ "lease" \in Repairing  BY DEF Processes, Repairing
  <2>2. home[a] \in drawn  BY <2>1, AtHome
  <2>3. repair' \in [Apps -> [Requests -> {"none", "joined", "ready", "failed"} \union Repairing]]
    BY <2>1, Gone DEF Goes
  <2> QED  BY <2>2, <2>3 DEF Sound
<1>2. Processes'  BY DEF Sound, Processes, Repairing, Running, NoPid, NoName
<1>3. Leases'  BY DEF Sound, Processes, Leases, Running
<1>4. LiveCacheStays'  BY DEF Sound, LiveCacheStays, Running
<1>5. Stale'  BY DEF Sound, Stale, Running, Dead, Readable, Alive, NoPid, None
<1>6. HalfLeases'  BY DEF Sound, Processes, HalfLeases, Running, NoPid, NoName, None, Half
<1>7. Repaired'  BY DEF Sound, Processes, Repaired, Repairing, Running
<1> QED  BY <1>1, <1>2, <1>3, <1>4, <1>5, <1>6, <1>7

LEMMA RepairFailsStep ==
  ASSUME Inv, NEW a \in Apps, NEW r \in Requests, RepairFails(a, r)
  PROVE Inv'
<1> USE DEF Inv, RepairFails, files
<1>1. Sound'
  <2>1. repair' \in [Apps -> [Requests -> {"none", "joined", "ready", "failed"} \union Repairing]]
    BY Settled
  <2> QED  BY <2>1 DEF Sound
<1>2. Processes'
  <2>1. \A b \in Apps, q \in Requests : repair'[b][q] \in Repairing => repair[b][q] \in Repairing
    BY Settled DEF Repairing
  <2> QED  BY <2>1 DEF Processes, Running
<1>3. Leases'  BY DEF Sound, Processes, Leases, Running
<1>4. LiveCacheStays'  BY DEF Sound, LiveCacheStays, Running
<1>5. Stale'  BY DEF Sound, Stale, Running, Dead, Readable, Alive, NoPid, None
<1>6. HalfLeases'
  <2>1. \A b \in Apps, q \in Requests : repair[b][q] = "fill" => repair'[b][q] = "fill"
    <3>1. \A q \in Requests : repair[a][q] = "fill" => q = r  BY DEF Processes, Repairing
    <3>2. repair[a][r] # "fill"  OBVIOUS
    <3> QED  BY <3>1, <3>2, Settled
  <2> QED  BY <2>1 DEF HalfLeases, Running
<1>7. Repaired'
  <2>1. \A b \in Apps, q \in Requests :
          repair'[b][q] \in Repairing => repair'[b][q] = repair[b][q]
    BY Settled DEF Repairing
  <2> QED  BY <2>1 DEF Repaired, Running
<1> QED  BY <1>1, <1>2, <1>3, <1>4, <1>5, <1>6, <1>7

LEMMA QuitStep == ASSUME Inv, NEW a \in Apps, Quit(a) PROVE Inv'
<1> USE DEF Inv, Quit, Step, files
<1>1. Sound'  BY DEF Sound, Repairing, NoPid, None
<1>2. Processes'  BY DEF Sound, Processes, Repairing, Running, NoPid, NoName
<1>3. Leases'  BY DEF Sound, Processes, Leases, Running
<1>4. LiveCacheStays'  BY DEF Sound, LiveCacheStays, Running
<1>5. Stale'  BY DEF Sound, Stale, Running, Dead, Readable, Alive, NoPid, None
<1>6. HalfLeases'  BY DEF Sound, Processes, HalfLeases, Running, NoPid, NoName, None, Half
<1>7. Repaired'  BY DEF Sound, Processes, Repaired, Repairing, Running
<1> QED  BY <1>1, <1>2, <1>3, <1>4, <1>5, <1>6, <1>7

\* The end of a process, in two steps or one.
LEMMA LeaveHomeStep == ASSUME Inv, NEW a \in Apps, LeaveHome(a) PROVE Inv'
<1> USE DEF Inv
<1>1. at[a] \in {"leave", "rmdir"} /\ UNCHANGED <<home, drawn, look, seen, stale>>
  BY DEF LeaveHome, Step
<1>2. /\ a \in Running /\ pid[a] \in Pids /\ pid[a] \notin {NoPid, None, Half}
      /\ home[a] \in Names /\ home[a] \in drawn /\ home[a] # NoName
      /\ lease[home[a]] \in {None, Half, pid[a]}
  BY <1>1, AtHome
<1>3. CASE OwnsHome(a) /\ Step(a, "leave", "rmdir") /\ lease' = [lease EXCEPT ![home[a]] = None]
           /\ Take(home[a]) /\ UNCHANGED <<there, pid, repair>>
  <2> USE <1>3 DEF Step, Take
  <2>1. Sound'  BY <1>1, <1>2 DEF Sound
  <2>2. Processes'  BY <1>1, <1>2 DEF Sound, Processes, Running
  <2>3. Leases'  BY <1>1, <1>2 DEF Sound, Processes, Leases, Running
  <2>4. LiveCacheStays'  BY <1>1 DEF LiveCacheStays, Running
  <2>5. Stale'  BY <1>1, <1>2 DEF Sound, Stale, Running, Dead, Readable, Alive
  <2>6. HalfLeases'  BY <1>1, <1>2 DEF Sound, Processes, HalfLeases, Running, None, Half
  <2>7. Repaired'  BY <1>1, <1>2 DEF Sound, Processes, Repaired, Repairing, Running
  <2> QED  BY <2>1, <2>2, <2>3, <2>4, <2>5, <2>6, <2>7
<1>4. CASE /\ at' = [at EXCEPT ![a] = "down"] /\ lease' = lease /\ there' \in {there, there \ {home[a]}}
           /\ (there' # there => lease[home[a]] = None) /\ touched' \in [Apps -> BOOLEAN]
           /\ (\A b \in Apps : touched[b] => touched'[b]) /\ (there' # there => touched'[a])
           /\ pid' = [pid EXCEPT ![a] = NoPid] /\ repair' = [repair EXCEPT ![a] = [r \in Requests |-> "none"]]
  <2> USE <1>4
  <2>0. \A b \in Running' : b # a /\ b \in Running /\ pid'[b] = pid[b] /\ at'[b] = at[b] /\ repair'[b] = repair[b]
    BY <1>1 DEF Running, Sound
  <2>1. Sound'  BY <1>1, <1>2 DEF Sound
  <2>2. Processes'
    <3>1. \A b \in Apps : at'[b] = "down" <=> pid'[b] = NoPid  BY DEF Sound, Processes
    <3>2. \A b \in Apps, r \in Requests : repair'[b][r] \in Repairing => b # a /\ repair[b][r] \in Repairing
      BY DEF Sound, Repairing
    <3> QED  BY <1>1, <2>0, <3>1, <3>2 DEF Processes, Sound
  <2>3. Leases'  BY <1>1, <2>0 DEF Leases
  <2>4. LiveCacheStays'  BY <1>1, <2>0 DEF LiveCacheStays
  <2>5. Stale'
    <3>1. \A n \in Names : Dead(n) /\ n # home[a] => Dead(n)'
      BY <1>2, CacheAssumption DEF Dead, Readable, Alive, Sound, NoPid
    <3> QED  BY <1>1, <1>2, <2>0, <3>1 DEF Sound, Stale
  <2>6. HalfLeases'  BY <1>1, <2>0 DEF HalfLeases
  <2>7. Repaired'
    <3> SUFFICES ASSUME NEW b \in Apps, NEW r \in Requests, repair'[b][r] \in Repairing, ~ touched'[b]
                 PROVE  b # a /\ repair'[b] = repair[b] /\ ~ touched[b] /\ pid'[b] = pid[b]
                        /\ (home[b] \in there => home[b] \in there')
      BY <1>1 DEF Repaired
    <3>1. b # a /\ repair'[b] = repair[b] /\ pid'[b] = pid[b]  BY DEF Sound, Repairing
    <3>2. home[b] # home[a]  BY <1>2, <3>1, Elsewhere
    <3> QED  BY <3>1, <3>2
  <2> QED  BY <2>1, <2>2, <2>3, <2>4, <2>5, <2>6, <2>7
<1>5. CASE Step(a, "rmdir", "down") /\ lease' = lease /\ Take(home[a])
           /\ there' = (IF lease[home[a]] = None THEN there \ {home[a]} ELSE there)
           /\ pid' = [pid EXCEPT ![a] = NoPid] /\ repair' = [repair EXCEPT ![a] = [r \in Requests |-> "none"]]
  BY <1>4, <1>5 DEF Step, Take, Sound
<1>6. CASE Step(a, "leave", "down") /\ UNCHANGED <<there, lease, touched>>
           /\ pid' = [pid EXCEPT ![a] = NoPid] /\ repair' = [repair EXCEPT ![a] = [r \in Requests |-> "none"]]
  BY <1>4, <1>6 DEF Step, Sound
<1> QED  BY <1>3, <1>5, <1>6 DEF LeaveHome

LEMMA CrashStep == ASSUME Inv, NEW a \in Apps, Crash(a) PROVE Inv'
<1> USE DEF Inv, Crash, files
<1>1. Sound'  BY DEF Sound, Repairing, NoPid, None
<1>2. Processes'  BY DEF Sound, Processes, Repairing, Running, NoPid, NoName
<1>3. Leases'  BY DEF Sound, Processes, Leases, Running
<1>4. LiveCacheStays'  BY DEF Sound, LiveCacheStays, Running
<1>5. Stale'  BY DEF Sound, Stale, Running, Dead, Readable, Alive, NoPid, None
<1>6. HalfLeases'  BY DEF Sound, Processes, HalfLeases, Running, NoPid, NoName, None, Half
<1>7. Repaired'  BY DEF Sound, Processes, Repaired, Repairing, Running
<1> QED  BY <1>1, <1>2, <1>3, <1>4, <1>5, <1>6, <1>7

LEMMA SystemSweepStep == ASSUME Inv, NEW n \in Names, SystemSweep(n) PROVE Inv'
<1> USE DEF Inv, SystemSweep, Take
<1>1. Sound'  BY DEF Sound, Repairing, NoPid, None
<1>2. Processes'  BY DEF Sound, Processes, Repairing, Running, NoPid, NoName
<1>3. Leases'  BY DEF Sound, Processes, Leases, Running
<1>4. LiveCacheStays'  BY DEF Sound, LiveCacheStays, Running
<1>5. Stale'  BY DEF Sound, Stale, Running, Dead, Readable, Alive, NoPid, None
<1>6. HalfLeases'  BY DEF Sound, Processes, HalfLeases, Running, NoPid, NoName, None, Half
<1>7. Repaired'  BY ZenonT(40) DEF Sound, Processes, Repaired, Repairing, Running
<1> QED  BY <1>1, <1>2, <1>3, <1>4, <1>5, <1>6, <1>7


-----------------------------------------------------------------------------

LEMMA InvInit == Init => Inv
<1> SUFFICES ASSUME Init PROVE Inv  OBVIOUS
<1>1. Sound  BY DEF Init, Sound
<1>2. Processes /\ Leases /\ LiveCacheStays  BY DEF Init, Processes, Leases, LiveCacheStays, Running, Repairing
<1>3. Stale /\ HalfLeases /\ Repaired  BY DEF Init, Stale, HalfLeases, Repaired, Running, Repairing
<1> QED  BY <1>1, <1>2, <1>3 DEF Inv

LEMMA InvNext == Inv /\ [Next]_vars => Inv'
<1> SUFFICES ASSUME Inv, [Next]_vars PROVE Inv'  OBVIOUS
<1>1. CASE \E a \in Apps, p \in Pids : Launch(a, p)  BY <1>1, LaunchStep
<1>2. CASE \E a \in Apps, n \in Names : Cleaning(a, n) \/ CleaningFails(a, n)
  BY <1>2, FirstLookStep, SecondLookStep, LooksAliveStep, RemoveContentsStep, RemoveDirectoryStep,
     CleaningFailsStep DEF Cleaning
<1>3. CASE \E a \in Apps : Starting(a) \/ Quit(a) \/ LeaveHome(a) \/ Crash(a)
  BY <1>3, CleanedStep, MakeStep, LeaseStep, CreatedStep, QuitStep, LeaveHomeStep, CrashStep DEF Starting
<1>4. CASE \E a \in Apps, r \in Requests : Ask(a, r) \/ Repairs(a, r)
  BY <1>4, AskStep, RepairDirectoryStep, RepairStep, RepairFailsStep DEF Repairs
<1>5. CASE \E n \in Names : SystemSweep(n)  BY <1>5, SystemSweepStep
<1>6. CASE UNCHANGED vars
  BY <1>6 DEF Inv, vars, files, Sound, Processes, Leases, LiveCacheStays, Stale, HalfLeases, Repaired, Running,
     Dead, Readable, Alive
<1> QED  BY <1>1, <1>2, <1>3, <1>4, <1>5, <1>6 DEF Next

\* At most one request repairs, counted.
LEMMA InvTypes == Inv => TypeOK
<1> SUFFICES ASSUME Inv, NEW a \in Apps
             PROVE  Cardinality({r \in Requests : repair[a][r] \in Repairing}) <= 1
  BY DEF Inv, Sound, TypeOK
<1>1. CASE {r \in Requests : repair[a][r] \in Repairing} = {}  BY <1>1, FS_EmptySet
<1>2. CASE \E r \in Requests : repair[a][r] \in Repairing
  <2>1. PICK r \in Requests : repair[a][r] \in Repairing  BY <1>2
  <2>2. {q \in Requests : repair[a][q] \in Repairing} = {r}  BY <2>1 DEF Inv, Processes
  <2>3. Cardinality({r}) = 1  BY FS_Singleton
  <2> QED  BY <2>2, <2>3
<1> QED  BY <1>1, <1>2

LEMMA InvComplete == Inv => CleaningIsComplete
<1> SUFFICES ASSUME Inv, NEW a \in Apps, at[a] = "make", NEW n \in stale[a], lease[n] # None PROVE FALSE
  BY DEF CleaningIsComplete
<1>1. n \in Names  BY DEF Inv, Sound
<1>2. look[a][n] = "none"  BY <1>1 DEF Inv, Leases, Sound
<1> QED  BY <1>2 DEF Inv, Stale

LEMMA InvAlways == Spec => []Inv
BY InvInit, InvNext, PTL DEF Spec

\* No start removes the directory of a process that runs, whatever PIDs are given
\* again, and a cleaning that ends leaves none of the dead ones it found
\* (audioCache.ts cleanupAbandoned).
THEOREM CleaningStaysSound == Spec => []CleaningIsSound
<1>1. Inv => CleaningIsSound  BY InvTypes, InvComplete DEF Inv, CleaningIsSound
<1> QED  BY <1>1, InvAlways, PTL

\* Requests are settled only by the last step of a repair or by its failure.
LEMMA NextSettles ==
  ASSUME Inv, Next, NEW b \in Apps, NEW q \in Requests,
         repair'[b][q] \in {"ready", "failed"}, repair'[b][q] # repair[b][q]
  PROVE  IF repair'[b][q] = "ready" THEN \E r \in Requests : Repair(b, r) /\ repair[b][r] = "last"
         ELSE \E r \in Requests : RepairFails(b, r)
<1> USE DEF Inv
<1>1. ASSUME NEW a \in Apps, NEW p \in Pids, Launch(a, p) PROVE FALSE  BY <1>1 DEF Launch, Sound
<1>2. ASSUME NEW a \in Apps, NEW n \in Names, Cleaning(a, n) \/ CleaningFails(a, n) PROVE FALSE
  BY <1>2 DEF Cleaning, CleaningFails, FirstLook, SecondLook, LooksAlive, RemoveContents, RemoveDirectory
<1>3. ASSUME NEW a \in Apps, Starting(a) \/ Quit(a) \/ LeaveHome(a) \/ Crash(a) PROVE FALSE
  <2>1. repair' = repair \/ repair' = [repair EXCEPT ![a] = [r \in Requests |-> "none"]]
    BY <1>3 DEF Starting, Cleaned, Make, Lease, Created, Quit, LeaveHome, Crash
  <2> QED  BY SMTT(30), <2>1 DEF Sound
<1>4. ASSUME NEW a \in Apps, NEW r \in Requests, Ask(a, r) PROVE FALSE  BY <1>4 DEF Ask, Sound
<1>5. ASSUME NEW a \in Apps, NEW r \in Requests, RepairDirectory(a, r) PROVE FALSE
  BY <1>5, Gone DEF RepairDirectory, Repairing
<1>6. ASSUME NEW a \in Apps, NEW r \in Requests, RepairFails(a, r)
      PROVE  b = a /\ repair'[b][q] = "failed"
  BY <1>6, Settled DEF RepairFails
<1>7. ASSUME NEW a \in Apps, NEW r \in Requests, Repair(a, r)
      PROVE  b = a /\ repair'[b][q] = "ready" /\ repair[a][r] = "last"
  <2>1. CASE RepairLease(a, r) \/ Goes(a, r, "check", "last")
    <3>1. \E now, then \in Repairing : Goes(a, r, now, then)  BY <2>1 DEF RepairLease, Goes, Repairing
    <3> QED  BY <3>1, Gone DEF Repairing
  <2>2. CASE repair[a][r] = "last" /\ Settle(a, r, "ready")
    <3>1. repair'[b][q] = IF b = a /\ (q = r \/ repair[b][q] = "joined") THEN "ready" ELSE repair[b][q]
      BY <2>2, Settled
    <3> QED  BY <2>2, <3>1
  <2> QED  BY <1>7, <2>1, <2>2 DEF Repair
<1>8. CASE \E a \in Apps, r \in Requests : Ask(a, r) \/ Repairs(a, r)
  <2>1. PICK a \in Apps, r \in Requests : Repair(a, r) \/ RepairFails(a, r)
    BY <1>4, <1>5, <1>8 DEF Repairs
  <2>2. CASE Repair(a, r)  BY <1>7, <2>2
  <2>3. CASE RepairFails(a, r)  BY <1>6, <2>3
  <2> QED  BY <2>1, <2>2, <2>3
<1>9. ASSUME NEW n \in Names, SystemSweep(n) PROVE FALSE  BY <1>9 DEF SystemSweep
<1> QED  BY <1>1, <1>2, <1>3, <1>8, <1>9 DEF Next

\* Requests that overlap share one repair: none fails because of another, and one
\* that is granted finds its lease in place (audioCache.ts ensureReady).
THEOREM ServesRequests == Spec => RequestsAreServed
<1>1. Inv /\ Next => RequestsDoNotCollide
  <2> SUFFICES ASSUME Inv, Next, NEW a \in Apps, NEW q \in Requests,
                      repair'[a][q] = "failed", repair[a][q] # "failed"
               PROVE  touched[a]
    BY DEF RequestsDoNotCollide
  <2>1. PICK r \in Requests : RepairFails(a, r)  BY NextSettles
  <2>2. repair[a][r] \in {"lease", "check", "last"} /\ (home[a] \in there => repair[a][r] = "check" /\ ~OwnsHome(a))
    BY <2>1 DEF RepairFails, OwnsHome, Readable
  <2>3. repair[a][r] = "check" /\ home[a] \in there /\ lease[home[a]] = pid[a] => OwnsHome(a)
    <3>1. at[a] \notin {"down", "clean", "make"}  BY <2>2 DEF Inv, Processes, Repairing
    <3>2. pid[a] \in Pids  BY <3>1, AtHome DEF Inv
    <3> QED  BY <3>2 DEF OwnsHome, Readable
  <2> QED  BY <2>2, <2>3 DEF Inv, Repaired, Repairing
<1>2. Inv /\ Next => GrantedIsLeased
  <2> SUFFICES ASSUME Inv, Next, NEW a \in Apps, NEW q \in Requests,
                      repair'[a][q] = "ready", repair[a][q] # "ready", ~ touched[a]
               PROVE  OwnsHome(a)
    BY DEF GrantedIsLeased
  <2>1. PICK r \in Requests : repair[a][r] = "last"  BY NextSettles
  <2>2. at[a] \notin {"down", "clean", "make"}  BY <2>1 DEF Inv, Processes, Repairing
  <2>3. pid[a] \in Pids  BY <2>2, AtHome DEF Inv
  <2> QED  BY <2>1, <2>3 DEF Inv, Repaired, Repairing, OwnsHome, Readable
<1> QED  BY <1>1, <1>2, InvAlways, PTL DEF Spec, RequestsAreServed

-----------------------------------------------------------------------------
(* The export of the history *)

CONSTANTS Records, Exports
VARIABLES exportHistory, readable, exportAt, payload, temp, target, outcome, due, exportFaults, down

Export == INSTANCE HistoryExport WITH history <- exportHistory, at <- exportAt, faults <- exportFaults

Files == [kind : {"none", "file", "odd"}, of : {"none", "old"} \union Exports,
          part : {"none", "some", "all"}, flushed : BOOLEAN]

\* Whose file is anywhere has read what was stored and readable when its place was chosen.
Told(e) ==
  exportAt[e] \in DOMAIN Export!Flow \ {"chosen"} \/ target.of = e =>
    payload[e] = [records |-> due[e][2], complete |-> due[e][1] = due[e][2]]

\* How far the writing is says what the temporary file holds.
Written(e) ==
  /\ exportAt[e] \in {"sync", "recheck", "rename"} =>
       temp[e].kind = "file" /\ temp[e].of = e /\ temp[e].part = "all"
  /\ exportAt[e] \in {"recheck", "rename"} => temp[e].flushed
  /\ exportAt[e] = "directory" => temp[e] = Export!NoFile
  /\ exportAt[e] = "dialog" => payload[e] = Export!NoRead

\* An export is asked for once, and its file takes the target's place at its end.
Once(e) ==
  /\ exportAt[e] # "idle" => outcome[e] = "none"
  /\ target.of = e => exportAt[e] = "directory" \/ outcome[e] # "none" \/ down

ExportInvariant ==
  /\ Export!TypeOK
  /\ temp \in [Exports -> Files] /\ target \in Files
  /\ due \in [Exports -> (SUBSET Records) \X (SUBSET Records)]
  /\ exportFaults \in Nat /\ down \in BOOLEAN
  /\ down => \A e \in Exports : exportAt[e] = "idle"
  /\ target.kind = "file" => target.part = "all"
  /\ target.flushed
  /\ Export!NothingIsLeft
  /\ \A e \in Exports : Told(e) /\ Written(e) /\ Once(e)

-----------------------------------------------------------------------------
LEMMA FlowGoesOn ==
  /\ DOMAIN Export!Flow = {"chosen", "check", "open", "write", "rest", "sync", "recheck", "rename",
                           "directory"}
  /\ Export!After["check"] = "open" /\ Export!After["open"] = "write"
  /\ Export!After["write"] = "rest" /\ Export!After["rest"] = "sync"
  /\ Export!After["sync"] = "recheck" /\ Export!After["recheck"] = "rename"
  /\ Export!After["rename"] = "directory" /\ Export!After["directory"] = "idle"
BY DEF Export!Flow, Export!After

LEMMA ExportStarts == ASSUME Export!ExportAssumption, Export!Init PROVE ExportInvariant
<1> USE DEF Export!ExportAssumption, Export!Init, Export!NoFile, Export!OldFile, Export!NoRead, Files
<1>1. Export!TypeOK BY FlowGoesOn DEF Export!TypeOK
<1>2. temp \in [Exports -> Files] /\ target.of \notin Exports OBVIOUS
<1>5. target \in Files /\ target.flushed /\ target.part \in {"none", "all"}
      /\ (target.kind = "file" => target.part = "all")
  <2>1. CASE target = Export!NoFile BY <2>1
  <2>2. CASE target = Export!OldFile BY <2>2
  <2> QED BY <2>1, <2>2
<1>3. due \in [Exports -> (SUBSET Records) \X (SUBSET Records)] OBVIOUS
<1>4. \A e \in Exports : Told(e) /\ Written(e) /\ Once(e)
  BY <1>2, FlowGoesOn DEF Told, Written, Once
<1> QED BY <1>1, <1>2, <1>3, <1>4, <1>5 DEF ExportInvariant, Export!NothingIsLeft

\* What one export does leaves the files and the records of the others.
LEMMA OneExportSteps ==
  ASSUME Export!ExportAssumption, ExportInvariant, NEW e \in Exports, ~down,
         Export!Ask(e) \/ Export!Cancel(e) \/ Export!Choose(e) \/ Export!Writing(e)
  PROVE  ExportInvariant'
<1> USE FlowGoesOn DEF ExportInvariant, Export!TypeOK
<1>0. {"none", "old"} \intersect Exports = {} BY DEF Export!ExportAssumption
<1>1. CASE Export!Ask(e)
  <2>1. exportAt' = [exportAt EXCEPT ![e] = "dialog"] /\ payload' = [payload EXCEPT ![e] = Export!NoRead]
        /\ exportAt[e] = "idle" /\ outcome[e] = "none"
    BY <1>1 DEF Export!Ask, Export!Nothing
  <2>2. UNCHANGED <<exportHistory, readable, temp, target, outcome, due, exportFaults, down>>
    BY <1>1 DEF Export!Ask
  <2>3. target.of # e BY <2>1 DEF Once
  <2>4. Export!TypeOK' BY <2>1, <2>2 DEF Export!NoRead
  <2>5. \A f \in Exports : Told(f)' /\ Written(f)' /\ Once(f)'
    BY <2>1, <2>2, <2>3 DEF Told, Written, Once
  <2> QED BY <2>1, <2>2, <2>4, <2>5 DEF Export!NothingIsLeft
<1>2. CASE Export!Cancel(e)
  <2>1. exportAt' = [exportAt EXCEPT ![e] = "idle"] /\ outcome' = [outcome EXCEPT ![e] = "done"]
        /\ exportAt[e] = "dialog"
        /\ UNCHANGED <<exportHistory, readable, payload, temp, target, due, exportFaults, down>>
    BY <1>2 DEF Export!Cancel
  <2>2. temp[e] = Export!NoFile BY <2>1
  <2>3. Export!TypeOK' BY <2>1, <2>2
  <2>4. \A f \in Exports : Told(f)' /\ Written(f)' /\ Once(f)'
    BY <2>1 DEF Told, Written, Once
  <2> QED BY <2>1, <2>2, <2>3, <2>4 DEF Export!NothingIsLeft
<1>3. CASE Export!Choose(e)
  <2>1. exportAt' = [exportAt EXCEPT ![e] = "check"] /\ exportAt[e] = "dialog"
        /\ due' = [due EXCEPT ![e] = <<exportHistory, exportHistory \intersect readable>>]
        /\ UNCHANGED <<exportHistory, readable, temp, target, outcome, exportFaults, down>>
    BY <1>3 DEF Export!Choose
  <2>2. payload' = [payload EXCEPT ![e] = Export!Read]
    <3>1. payload[e] = Export!NoRead BY <2>1 DEF Written
    <3> QED BY <1>3, <3>1 DEF Export!Choose, Export!ReadHistory
  <2>3. temp[e] = Export!NoFile /\ target.of # e BY <2>1 DEF Once
  <2>4. Export!TypeOK' BY <2>1, <2>2, <2>3 DEF Export!Read
  <2>5. due' \in [Exports -> (SUBSET Records) \X (SUBSET Records)] BY <2>1
  <2>6. Told(e)'
    <3>1. payload'[e] = Export!Read /\ due'[e][1] = exportHistory /\ due'[e][2] = exportHistory \intersect readable
      BY <2>1, <2>2
    <3> DEFINE stored == due'[e][1]  shown == due'[e][2]
    <3>2. CASE exportHistory \subseteq readable
      <4>1. stored = shown BY <3>1, <3>2
      <4>2. payload'[e] = [records |-> shown, complete |-> TRUE] BY <3>1, <3>2 DEF Export!Read
      <4> QED BY <4>1, <4>2 DEF Told
    <3>3. CASE ~(exportHistory \subseteq readable)
      <4>1. stored # shown BY <3>1, <3>3
      <4>2. payload'[e] = [records |-> shown, complete |-> FALSE] BY <3>1, <3>3 DEF Export!Read
      <4> QED BY <4>1, <4>2 DEF Told
    <3> QED BY <3>2, <3>3
  <2>7. \A f \in Exports \ {e} : Told(f)' BY <2>1, <2>2 DEF Told
  <2>8. \A f \in Exports : Written(f)' /\ Once(f)' BY <2>1, <2>2, <2>3 DEF Written, Once
  <2> QED BY <2>1, <2>2, <2>3, <2>4, <2>5, <2>6, <2>7, <2>8 DEF Export!NothingIsLeft
<1>4. CASE Export!Prepare(e)
  <2>0. UNCHANGED <<exportHistory, readable, payload, outcome, due, exportFaults, down>> BY <1>4 DEF Export!Prepare
  <2> DEFINE File(part, flushed) == [kind |-> "file", of |-> e, part |-> part, flushed |-> flushed]
  <2> USE DEF Export!Goes, Export!Aside, Export!Temp
  <2>1. target' = target /\ exportAt[e] \in {"check", "open", "write", "rest", "sync", "recheck"}
        /\ exportAt' = [exportAt EXCEPT ![e] = Export!After[exportAt[e]]]
    BY <1>4 DEF Export!Prepare
  <2>2. CASE exportAt[e] \in {"check", "recheck"}
    <3>1. temp' = temp BY <1>4, <2>2 DEF Export!Prepare
    <3>2. Export!TypeOK' BY <2>0, <2>1, <2>2, <3>1
    <3>3. \A f \in Exports : Told(f)' /\ Written(f)' /\ Once(f)'
      BY <2>0, <2>1, <2>2, <3>1 DEF Told, Written, Once
    <3> QED BY <2>0, <2>1, <3>1, <3>2, <3>3 DEF Export!NothingIsLeft
  <2>3. CASE exportAt[e] \in {"open", "write", "rest", "sync"}
    <3>1. PICK file \in Files :
            /\ temp' = [temp EXCEPT ![e] = file] /\ file.kind = "file" /\ file.of = e
            /\ exportAt[e] \in {"rest", "sync"} => file.part = "all"
            /\ exportAt[e] = "sync" => file.flushed
      <4>1. CASE exportAt[e] \in {"open", "write", "rest"}
        <5>1. PICK part \in {"none", "some", "all"} :
                /\ temp' = [temp EXCEPT ![e] = File(part, FALSE)]
                /\ exportAt[e] = "rest" => part = "all"
          BY <1>4, <4>1 DEF Export!Prepare
        <5>2. File(part, FALSE) \in Files BY DEF Files
        <5> QED BY <4>1, <5>1, <5>2
      <4>2. CASE exportAt[e] = "sync"
        <5>1. temp' = [temp EXCEPT ![e] = [temp[e] EXCEPT !.flushed = TRUE]] BY <1>4, <4>2 DEF Export!Prepare
        <5>2. temp[e] \in Files /\ temp[e].kind = "file" /\ temp[e].of = e /\ temp[e].part = "all"
          BY <4>2 DEF Written
        <5>3. PICK file \in Files : file = temp[e] BY <5>2
        <5>4. [file EXCEPT !.flushed = TRUE] \in Files BY DEF Files
        <5>5. [file EXCEPT !.flushed = TRUE].kind = "file" /\ [file EXCEPT !.flushed = TRUE].of = e
              /\ [file EXCEPT !.flushed = TRUE].part = "all" /\ [file EXCEPT !.flushed = TRUE].flushed
          BY <5>2, <5>3 DEF Files
        <5> QED BY <4>2, <5>1, <5>3, <5>4, <5>5
      <4> QED BY <2>3, <4>1, <4>2
    <3>2. file \in Files BY <3>1
    <3>3. temp' = [temp EXCEPT ![e] = file] BY <3>1
    <3>4. exportAt'[e] \in {"write", "rest", "sync", "recheck"} BY <2>1, <2>3
    <3>5. Export!TypeOK'
      <4>1. exportAt' \in [Exports -> {"idle", "dialog"} \union DOMAIN Export!Flow] BY <2>1, <3>4
      <4>2. \A f \in Exports :
              /\ temp'[f].of \in {"none", f} /\ temp'[f].kind \in {"none", "file"}
              /\ temp'[f] # Export!NoFile /\ ~ down'
                   => exportAt'[f] \in DOMAIN Export!Flow \ {"chosen", "check", "open"}
        BY <2>0, <2>1, <3>1, <3>4
      <4> QED BY <2>0, <4>1, <4>2
    <3>6. temp' \in [Exports -> Files] BY <3>2, <3>3
    <3>7. \A f \in Exports : Told(f)' BY <2>0, <2>1, <2>3 DEF Told
    <3>8. \A f \in Exports \ {e} : Written(f)' BY <2>0, <2>1, <3>3 DEF Written
    <3>9. Written(e)' BY <2>0, <2>1, <2>3, <3>1, <3>2, <3>3 DEF Written
    <3>10. \A f \in Exports : Once(f)' BY <2>0, <2>1, <2>3 DEF Once
    <3>11. outcome[e] = "none" BY <2>3 DEF Once
    <3> QED BY <2>0, <2>1, <3>3, <3>5, <3>6, <3>7, <3>8, <3>9, <3>10, <3>11 DEF Export!NothingIsLeft
  <2> QED BY <2>1, <2>2, <2>3
<1>5. CASE Export!Replace(e)
  <2>1. exportAt[e] = "rename" /\ exportAt' = [exportAt EXCEPT ![e] = "directory"]
        /\ target' = temp[e] /\ temp' = [temp EXCEPT ![e] = Export!NoFile]
        /\ UNCHANGED <<exportHistory, readable, payload, outcome, due, exportFaults, down>>
    BY <1>5 DEF Export!Replace, Export!Goes, Export!Temp
  <2>2. temp[e] \in Files /\ temp[e].kind = "file" /\ temp[e].of = e /\ temp[e].part = "all" /\ temp[e].flushed
    BY <2>1 DEF Written
  <2>3. Export!TypeOK' BY <2>1 DEF Export!NoFile
  <2>4. temp' \in [Exports -> Files] BY <2>1 DEF Files, Export!NoFile
  <2>5. \A f \in Exports : Told(f)' /\ Once(f)' BY <2>1, <2>2 DEF Told, Once
  <2>6. \A f \in Exports : Written(f)' BY <2>1 DEF Written
  <2> QED BY <2>1, <2>2, <2>3, <2>4, <2>5, <2>6 DEF Export!NothingIsLeft
<1>6. CASE Export!FlushDirectory(e)
  <2>1. exportAt[e] = "directory" /\ exportAt' = [exportAt EXCEPT ![e] = "idle"]
        /\ outcome' = [outcome EXCEPT ![e] = "done"]
        /\ UNCHANGED <<exportHistory, readable, payload, temp, target, due, exportFaults, down>>
    BY <1>6 DEF Export!FlushDirectory, Export!Goes
  <2>2. temp[e] = Export!NoFile BY <2>1 DEF Written
  <2>3. Export!TypeOK' BY <2>1, <2>2
  <2>4. \A f \in Exports : Told(f)' /\ Written(f)' /\ Once(f)' BY <2>1 DEF Told, Written, Once
  <2> QED BY <2>1, <2>2, <2>3, <2>4 DEF Export!NothingIsLeft
<1>7. CASE Export!Refuse(e)
  <2>1. exportAt[e] \in DOMAIN Export!Flow /\ exportAt' = [exportAt EXCEPT ![e] = "idle"]
        /\ outcome' = [outcome EXCEPT ![e] = "refused"] /\ temp' = [temp EXCEPT ![e] = Export!NoFile]
        /\ UNCHANGED <<exportHistory, readable, payload, target, due, down>> /\ exportFaults' \in Nat
    BY <1>7 DEF Export!Refuse, Export!TidyUp, Export!Temp
  <2>2. Export!TypeOK' BY <2>1 DEF Export!NoFile
  <2>3. temp' \in [Exports -> Files] BY <2>1 DEF Files, Export!NoFile
  <2>4. \A f \in Exports : Told(f)' /\ Written(f)' /\ Once(f)' BY <2>1 DEF Told, Written, Once
  <2> QED BY <2>1, <2>2, <2>3, <2>4 DEF Export!NothingIsLeft
<1> QED BY <1>1, <1>2, <1>3, <1>4, <1>5, <1>6, <1>7 DEF Export!Writing

LEMMA ExportStep ==
  ASSUME Export!ExportAssumption, ExportInvariant, [Export!Next]_(Export!vars) PROVE ExportInvariant'
<1> USE DEF ExportInvariant, Export!TypeOK
<1>1. CASE Export!RecordChanges
  <2>1. UNCHANGED <<exportAt, payload, temp, target, outcome, due, exportFaults, down>>
        /\ exportHistory' \subseteq Records /\ readable' \subseteq Records
    BY <1>1 DEF Export!RecordChanges
  <2> QED BY <2>1 DEF Export!NothingIsLeft, Told, Written, Once
<1>2. CASE Export!TargetChanges
  <2>1. UNCHANGED <<exportHistory, readable, exportAt, payload, temp, outcome, due, down>>
        /\ target' \in Files /\ target'.of = "old" /\ target'.part = "all" /\ target'.flushed
        /\ exportFaults' \in Nat
    <3>1. UNCHANGED <<exportHistory, readable, exportAt, payload, temp, outcome, due, down>>
          /\ exportFaults' \in Nat /\ target' \in {Export!OldFile, Export!Odd}
      BY <1>2 DEF Export!TargetChanges
    <3>2. PICK file \in {Export!OldFile, Export!Odd} : target' = file BY <3>1
    <3>3. file \in Files /\ file.of = "old" /\ file.part = "all" /\ file.flushed
      <4>1. CASE file = Export!OldFile BY <4>1 DEF Export!OldFile, Files
      <4>2. CASE file = Export!Odd BY <4>2 DEF Export!Odd, Files
      <4> QED BY <4>1, <4>2
    <3> QED BY <3>1, <3>2, <3>3
  <2>2. "old" \notin Exports BY DEF Export!ExportAssumption
  <2>3. \A f \in Exports : Told(f)' /\ Written(f)' /\ Once(f)' BY <2>1, <2>2 DEF Told, Written, Once
  <2> QED BY <2>1, <2>3 DEF Export!NothingIsLeft
<1>3. CASE Export!End
  <2>1. UNCHANGED <<exportHistory, readable, payload, temp, outcome, due>> /\ down' = TRUE
        /\ exportAt' = [e \in Exports |-> "idle"] /\ exportFaults' \in Nat
    BY <1>3 DEF Export!End
  <2>2. target' = target
    <3>1. [target EXCEPT !.part = IF target.flushed THEN @ ELSE "some"] = target BY DEF Files
    <3> QED BY <1>3, <3>1 DEF Export!End
  <2>3. Export!TypeOK' BY <2>1, FlowGoesOn
  <2>4. \A f \in Exports : Told(f)' /\ Written(f)' /\ Once(f)' BY <2>1, <2>2, FlowGoesOn DEF Told, Written, Once
  <2> QED BY <2>1, <2>2, <2>3, <2>4 DEF Export!NothingIsLeft
<1>4. CASE \E e \in Exports : ~ down /\ (Export!Ask(e) \/ Export!Cancel(e) \/ Export!Choose(e) \/ Export!Writing(e))
  BY <1>4, OneExportSteps
<1>5. CASE UNCHANGED Export!vars
  BY <1>5 DEF Export!vars, Export!NothingIsLeft, Told, Written, Once
<1> QED BY <1>1, <1>2, <1>3, <1>4, <1>5 DEF Export!Next

\* Two exports at once, failing steps, records that come and go, the end of the program
\* and of the power: the chosen file is whole, tells the truth and leaves no copy.
THEOREM ExportStaysWhole ==
  ASSUME Export!ExportAssumption PROVE Export!Spec => []Export!ExportIsWhole
<1>1. Export!Init => ExportInvariant BY ExportStarts
<1>2. ExportInvariant /\ [Export!Next]_(Export!vars) => ExportInvariant' BY ExportStep
<1>3. ExportInvariant => Export!ExportIsWhole
  BY FlowGoesOn DEF ExportInvariant, Export!ExportIsWhole, Export!TargetIsWhole, Export!FileTellsTheTruth, Told
<1> QED BY <1>1, <1>2, <1>3, PTL DEF Export!Spec

-----------------------------------------------------------------------------
(* The private records *)

CONSTANTS MaxRows, MaxTime, MaxReads, Legacy, CollectionLimit, PageSize, Limits, Retentions, Keys
VARIABLES history, library, disk, now, key, reader, nextId, unreadable, dictating, reset, copy, lost, answer

Saved == INSTANCE SavedData

\* From its start to its end a reset is alone with the records: no dictation is under way
\* and no other call changes them, so the copy is still what is deleted.
ResetInvariant ==
  /\ lost = {}
  /\ reset # "no" => dictating = FALSE
  /\ reset = "copied" => copy = history \union library

LEMMA ResetStep == ASSUME ResetInvariant, [Saved!Next]_(Saved!vars) PROVE ResetInvariant'
<1> USE DEF ResetInvariant
<1>1. ASSUME NEW op, NEW rows, Saved!MutationAllowed, Saved!RemoveRows(op, rows) PROVE ResetInvariant'
  BY <1>1 DEF Saved!MutationAllowed, Saved!RemoveRows
<1>2. CASE \/ \E limit \in Limits : Saved!List(limit)
           \/ Saved!Export
  BY <1>2 DEF Saved!List, Saved!Export
<1>3. CASE \/ \E row \in history : Saved!DeleteTranscription(row)
           \/ Saved!DeleteGone \/ Saved!ClearTranscriptions
           \/ \E days \in Retentions : Saved!Purge(days)
  BY <1>1, <1>3 DEF Saved!DeleteTranscription, Saved!DeleteGone, Saved!ClearTranscriptions, Saved!Purge
<1>4. CASE Saved!BeginListening \/ Saved!DictationFails
  BY <1>4 DEF Saved!BeginListening, Saved!DictationFails, Saved!storage, Saved!world
<1>5. CASE Saved!SaveToLibrary BY <1>5 DEF Saved!SaveToLibrary, Saved!MutationAllowed
<1>6. ASSUME NEW keep \in BOOLEAN, NEW days \in Retentions, Saved!CompleteDictation(keep, days)
      PROVE  ResetInvariant'
  BY <1>6 DEF Saved!CompleteDictation
<1>7. CASE Saved!AskReset BY <1>7 DEF Saved!AskReset
<1>8. CASE Saved!ResetCancelled \/ Saved!ResetConfirmed \/ Saved!CopyTaken
  BY <1>8 DEF Saved!ResetCancelled, Saved!ResetConfirmed, Saved!CopyTaken, Saved!storage
<1>9. CASE Saved!Reset BY <1>9 DEF Saved!Reset
<1>10. CASE Saved!Tick \/ Saved!KeyChanges \/ Saved!ReaderComesOrGoes
  BY <1>10 DEF Saved!Tick, Saved!KeyChanges, Saved!ReaderComesOrGoes, Saved!storage
<1>11. CASE UNCHANGED Saved!vars BY <1>11 DEF Saved!vars
<1> QED BY <1>2, <1>3, <1>4, <1>5, <1>6, <1>7, <1>8, <1>9, <1>10, <1>11 DEF Saved!Next

\* A reset removes nothing that its recovery copy has not, for any rows, whenever a
\* dictation, a deletion or a save is asked for meanwhile (resetSavedData(),
\* SAVED_DATA_MUTATIONS).
THEOREM ResetIsRecoverable == Saved!Spec => []Saved!ResetKeepsCopy
<1>1. Saved!Init => ResetInvariant BY DEF Saved!Init, ResetInvariant
<1>2. ResetInvariant /\ [Saved!Next]_(Saved!vars) => ResetInvariant' BY ResetStep
<1>3. ResetInvariant => Saved!ResetKeepsCopy BY DEF ResetInvariant, Saved!ResetKeepsCopy
<1> QED BY <1>1, <1>2, <1>3, PTL DEF Saved!Spec

\* A deletion or a reset that reports success has left nothing of what it removed on the
\* disk, and nothing of what an earlier one could not clean up.
THEOREM DeletionIsForGood == Saved!Spec => [][Saved!RemovedForGood]_(Saved!vars)
<1>1. ASSUME Saved!Next PROVE Saved!RemovedForGood
  <2> SUFFICES ASSUME ~(history \union library \subseteq history' \union library'),
                      dictating' = dictating, answer'.ok
               PROVE  disk' \subseteq history' \union library'
    BY DEF Saved!RemovedForGood
  <2> USE DEF Saved!storage, Saved!world
  <2>1. ASSUME NEW op, NEW rows, Saved!RemoveRows(op, rows) PROVE disk' \subseteq history' \union library'
    <3>1. rows # {} BY <2>1 DEF Saved!RemoveRows
    <3>2. library' = library /\ Saved!Checkpoint(history' \union library)
      BY <2>1, <3>1 DEF Saved!RemoveRows
    <3>3. ~reader BY <3>2 DEF Saved!Checkpoint
    <3> QED BY <3>2, <3>3 DEF Saved!Checkpoint
  <2>2. CASE \/ \E row \in history : Saved!DeleteTranscription(row)
             \/ Saved!DeleteGone \/ Saved!ClearTranscriptions
             \/ \E days \in Retentions : Saved!Purge(days)
    BY <2>1, <2>2 DEF Saved!DeleteTranscription, Saved!DeleteGone, Saved!ClearTranscriptions, Saved!Purge
  <2>3. ~\E limit \in Limits : Saved!List(limit) BY DEF Saved!List
  <2>4. ~(Saved!Export \/ Saved!BeginListening \/ Saved!DictationFails \/ Saved!SaveToLibrary)
    BY DEF Saved!Export, Saved!BeginListening, Saved!DictationFails, Saved!SaveToLibrary
  <2>5. ~\E keep \in BOOLEAN, days \in Retentions : Saved!CompleteDictation(keep, days)
    BY DEF Saved!CompleteDictation
  <2>6. ~(Saved!AskReset \/ Saved!ResetCancelled \/ Saved!ResetConfirmed \/ Saved!CopyTaken)
    BY DEF Saved!AskReset, Saved!ResetCancelled, Saved!ResetConfirmed, Saved!CopyTaken
  <2>7. CASE Saved!Reset
    <3>1. answer'.ok = ~reader /\ disk' = (IF reader THEN disk ELSE {})
      BY <2>7 DEF Saved!Reset, Saved!Checkpoint
    <3> QED BY <3>1
  <2>8. ~(Saved!Tick \/ Saved!KeyChanges \/ Saved!ReaderComesOrGoes)
    BY DEF Saved!Tick, Saved!KeyChanges, Saved!ReaderComesOrGoes
  <2> QED BY <1>1, <2>2, <2>3, <2>4, <2>5, <2>6, <2>7, <2>8 DEF Saved!Next
<1>2. [Saved!Next]_(Saved!vars) => [Saved!RemovedForGood]_(Saved!vars) BY <1>1
<1> QED BY <1>2, PTL DEF Saved!Spec

-----------------------------------------------------------------------------
(* The dictionary, the snippets and the profiles *)

CONSTANTS Phrases, Applications, Limit, MaxIds
VARIABLES rules, profiles, rulesKey, rulesNextId, editing, result

RuleStore == INSTANCE TextRules WITH Apps <- Applications, key <- rulesKey,
  nextId <- rulesNextId

RulesInvariant == RuleStore!TypeOK /\ IsFiniteSet(rules) /\ RuleStore!OneProfilePerApp

-----------------------------------------------------------------------------
LEMMA RulesStart == ASSUME RuleStore!TextRulesAssumption, RuleStore!Init PROVE RulesInvariant
<1>1. PICK n \in 0..Legacy, of \in [1..Legacy -> [phrase : Phrases, seal : Keys, bad : BOOLEAN]] :
        /\ rulesNextId = n + 1
        /\ rules = {[id |-> i, phrase |-> of[i].phrase, seal |-> of[i].seal, bad |-> of[i].bad] : i \in 1..n}
  BY DEF RuleStore!Init
<1>2. {MaxIds, Legacy} \subseteq Nat /\ Legacy <= MaxIds BY DEF RuleStore!TextRulesAssumption
<1>3. rules \subseteq RuleStore!Rules
  <2>1. ASSUME NEW i \in 1..n PROVE i \in 1..MaxIds /\ of[i] \in [phrase : Phrases, seal : Keys, bad : BOOLEAN]
    BY <1>2
  <2> QED BY <1>1, <2>1 DEF RuleStore!Rules
<1>4. IsFiniteSet(rules)
  <2> DEFINE row(i) == [id |-> i, phrase |-> of[i].phrase, seal |-> of[i].seal, bad |-> of[i].bad]
             f == [i \in 1..n |-> row(i)]
  <2>1. IsFiniteSet(1..n) BY <1>2, FS_Interval
  <2>2. rules = {f[i] : i \in 1..n} BY <1>1
  <2>3. f \in [1..n -> rules] BY <2>2
  <2> HIDE DEF f
  <2>4. f \in Surjection(1..n, rules) BY <2>2, <2>3 DEF Surjection
  <2> QED BY <2>1, <2>4, FS_Surjection
<1>5. profiles = {} /\ rulesKey \in Keys /\ editing = 0 /\ result = 0 BY DEF RuleStore!Init
<1>6. rulesNextId \in 1..(MaxIds + 1) /\ 0 \in 0..MaxIds BY <1>1, <1>2
<1> QED BY <1>3, <1>4, <1>5, <1>6 DEF RulesInvariant, RuleStore!TypeOK, RuleStore!OneProfilePerApp

\* What a rule is put into stays finite, and well typed.
LEMMA PutKeeps ==
  ASSUME RulesInvariant, NEW id \in 1..MaxIds, NEW phrase \in Phrases, RuleStore!Put(id, phrase)
  PROVE  rules' \subseteq RuleStore!Rules /\ IsFiniteSet(rules') /\ result' \in 0..MaxIds
<1> DEFINE others == {rule \in rules : rule.id # id}
<1>1. RuleStore!Sealed(id, phrase) \in RuleStore!Rules
  BY DEF RulesInvariant, RuleStore!TypeOK, RuleStore!Sealed, RuleStore!Rules
<1>2. others \subseteq RuleStore!Rules BY DEF RulesInvariant, RuleStore!TypeOK
<1>3. rules' = others \union {RuleStore!Sealed(id, phrase)} /\ result' = id BY DEF RuleStore!Put
<1>4. others \in SUBSET rules OBVIOUS
<1> HIDE DEF others
<1>5. IsFiniteSet(others) BY <1>4, FS_Subset DEF RulesInvariant
<1>6. IsFiniteSet(rules') BY <1>3, <1>5, FS_AddElement
<1> QED BY <1>1, <1>2, <1>3, <1>6

\* A save makes no second rule of a phrase when those of its phrase are the one it replaces.
LEMMA PutIsAlone ==
  ASSUME RulesInvariant, NEW id \in 1..MaxIds, NEW phrase \in Phrases, RuleStore!Put(id, phrase),
         \A rule \in rules : RuleStore!Canonical(rule.phrase) = RuleStore!Canonical(phrase) => rule.id = id,
         NEW canonical
  PROVE  Cardinality(RuleStore!RulesOf(rules', canonical))
           <= IF RuleStore!RulesOf(rules, canonical) = {} THEN 1
              ELSE Cardinality(RuleStore!RulesOf(rules, canonical))
<1> DEFINE before == RuleStore!RulesOf(rules, canonical)
           after  == RuleStore!RulesOf(rules', canonical)
<1>1. IsFiniteSet(before) /\ Cardinality(before) \in Nat /\ (before # {} => Cardinality(before) >= 1)
  <2>1. before \in SUBSET rules BY DEF RuleStore!RulesOf
  <2>2. IsFiniteSet(before) BY <2>1, FS_Subset DEF RulesInvariant
  <2> HIDE DEF before
  <2>3. Cardinality(before) \in Nat BY <2>2, FS_CardinalityType
  <2>4. Cardinality(before) = 0 <=> before = {} BY <2>2, FS_EmptySet
  <2> QED BY <2>2, <2>3, <2>4
<1>2. RuleStore!Sealed(id, phrase).phrase = phrase BY DEF RuleStore!Sealed
<1>3. CASE canonical = RuleStore!Canonical(phrase)
  <2>1. after = {RuleStore!Sealed(id, phrase)}
    BY <1>2, <1>3 DEF RuleStore!RulesOf, RuleStore!Put
  <2>2. Cardinality(after) = 1 BY <2>1, FS_Singleton
  <2> QED BY <1>1, <2>2
<1>4. CASE canonical # RuleStore!Canonical(phrase)
  <2>1. after \in SUBSET before
    BY <1>2, <1>4 DEF RuleStore!RulesOf, RuleStore!Put
  <2> HIDE DEF before, after
  <2>2. Cardinality(after) <= Cardinality(before) /\ Cardinality(after) \in Nat
    BY <1>1, <2>1, FS_Subset, FS_CardinalityType
  <2>3. before = {} => Cardinality(after) <= 1
    <3>1. ASSUME before = {} PROVE Cardinality(after) = 0 BY <2>1, <3>1, FS_EmptySet
    <3> QED BY <3>1
  <2> QED BY <2>2, <2>3 DEF before, after
<1> QED BY <1>3, <1>4

LEMMA RulesStep ==
  ASSUME RuleStore!TextRulesAssumption, RulesInvariant, [RuleStore!Next]_(RuleStore!vars) PROVE RulesInvariant'
<1> USE DEF RulesInvariant
<1>0. MaxIds \in Nat BY DEF RuleStore!TextRulesAssumption
<1>1. ASSUME NEW phrase \in Phrases, RuleStore!SaveEdited(phrase) PROVE RulesInvariant'
  <2>1. profiles' = profiles /\ rulesNextId' = rulesNextId /\ rulesKey' = rulesKey /\ editing' = 0
    BY <1>1 DEF RuleStore!SaveEdited, RuleStore!Refused
  <2>2. CASE rules' = rules /\ result' = 0
    BY <1>0, <2>1, <2>2 DEF RuleStore!TypeOK, RuleStore!OneProfilePerApp
  <2>3. CASE RuleStore!Put(editing, phrase)
    <3>1. editing \in 1..MaxIds BY <1>0, <1>1 DEF RuleStore!TypeOK, RuleStore!SaveEdited
    <3>2. rules' \subseteq RuleStore!Rules /\ IsFiniteSet(rules') /\ result' \in 0..MaxIds
      BY <2>3, <3>1, PutKeeps
    <3> QED BY <1>0, <2>1, <3>2 DEF RuleStore!TypeOK, RuleStore!OneProfilePerApp
  <2> QED BY <1>1, <2>2, <2>3 DEF RuleStore!SaveEdited, RuleStore!Refused
<1>2. ASSUME NEW phrase \in Phrases, RuleStore!SaveNew(phrase) PROVE RulesInvariant'
  <2>1. profiles' = profiles /\ rulesKey' = rulesKey /\ editing' = editing /\ rulesNextId' \in 1..(MaxIds + 1) /\ rulesNextId \in 1..MaxIds
    BY <1>0, <1>2 DEF RuleStore!SaveNew, RuleStore!Refused, RuleStore!TypeOK
  <2>2. CASE rules' = rules /\ result' = 0
    BY <1>0, <2>1, <2>2 DEF RuleStore!TypeOK, RuleStore!OneProfilePerApp
  <2>3. ASSUME NEW id \in 1..MaxIds, RuleStore!Put(id, phrase) PROVE RulesInvariant'
    <3>1. rules' \subseteq RuleStore!Rules /\ IsFiniteSet(rules') /\ result' \in 0..MaxIds
      BY <2>3, PutKeeps
    <3> QED BY <2>1, <3>1 DEF RuleStore!TypeOK, RuleStore!OneProfilePerApp
  <2>4. \A rule \in RuleStore!Matching(phrase) : rule.id \in 1..MaxIds
    BY DEF RuleStore!Matching, RuleStore!Listed, RuleStore!Read, RuleStore!TypeOK, RuleStore!Rules
  <2> QED BY <1>2, <2>1, <2>2, <2>3, <2>4 DEF RuleStore!SaveNew, RuleStore!Refused
<1>3. ASSUME NEW rule \in rules, RuleStore!DeleteRule(rule) PROVE RulesInvariant'
  <2>1. rules' \in SUBSET rules BY <1>3 DEF RuleStore!DeleteRule
  <2>2. IsFiniteSet(rules') BY <2>1, FS_Subset
  <2> QED BY <1>3, <2>1, <2>2 DEF RuleStore!DeleteRule, RuleStore!TypeOK, RuleStore!OneProfilePerApp
<1>4. ASSUME NEW rule \in RuleStore!Listed, RuleStore!OpenEditor(rule) PROVE RulesInvariant'
  <2>1. rule.id \in 0..MaxIds
    BY <1>0 DEF RuleStore!Listed, RuleStore!Read, RuleStore!TypeOK, RuleStore!Rules
  <2> QED BY <1>4, <2>1 DEF RuleStore!OpenEditor, RuleStore!TypeOK, RuleStore!OneProfilePerApp
<1>5. ASSUME NEW app \in Applications, RuleStore!SaveProfile(app) PROVE RulesInvariant'
  <2>1. PICK id \in 1..MaxIds :
          /\ profiles' = {profile \in profiles : profile.id # id} \union {[id |-> id, app |-> app, broken |-> FALSE]}
          /\ \A profile \in RuleStore!StoredFor(app) : profile.id = id
          /\ rulesNextId' \in 1..(MaxIds + 1) /\ result' \in 0..MaxIds
    <3> DEFINE stored == RuleStore!StoredFor(app)
               id == IF stored = {} THEN rulesNextId ELSE (CHOOSE profile \in stored : TRUE).id
    <3>1. /\ profiles' = {profile \in profiles : profile.id # id} \union {[id |-> id, app |-> app, broken |-> FALSE]}
          /\ rulesNextId' = (IF stored = {} THEN rulesNextId + 1 ELSE rulesNextId) /\ result' = id /\ rulesNextId <= MaxIds
      BY <1>5 DEF RuleStore!SaveProfile
    <3>2. \A one, other \in stored : one = other
      BY DEF RuleStore!StoredFor, RuleStore!OneProfilePerApp, RuleStore!SameApp
    <3>3. \A profile \in stored : profile.id \in 1..MaxIds
      BY DEF RuleStore!StoredFor, RuleStore!TypeOK, RuleStore!Profiles
    <3> HIDE DEF stored
    <3>4. \A profile \in stored : profile.id = id BY <3>2
    <3>5. id \in 1..MaxIds BY <1>0, <3>1, <3>3 DEF RuleStore!TypeOK
    <3> QED BY <1>0, <3>1, <3>4, <3>5 DEF stored, RuleStore!TypeOK
  <2>0. [id |-> id, app |-> app, broken |-> FALSE] \in RuleStore!Profiles
        /\ [id |-> id, app |-> app, broken |-> FALSE].app = app
    BY <2>1 DEF RuleStore!Profiles
  <2>2. profiles' \subseteq RuleStore!Profiles
    BY <2>0, <2>1 DEF RuleStore!TypeOK
  <2>3. \A profile \in profiles' : \/ profile \in profiles /\ ~RuleStore!SameApp(profile.app, app)
                                   \/ profile = [id |-> id, app |-> app, broken |-> FALSE]
    BY <2>1 DEF RuleStore!StoredFor
  <2>4. RuleStore!OneProfilePerApp'
    <3> DEFINE new == [id |-> id, app |-> app, broken |-> FALSE]
    <3>1. new.app = app BY <2>0
    <3>2. \A profile \in profiles' : \/ profile \in profiles /\ ~RuleStore!SameApp(profile.app, app)
                                     \/ profile = new
      BY <2>3
    <3> HIDE DEF new
    <3>3. ASSUME NEW one \in profiles', NEW other \in profiles', RuleStore!SameApp(one.app, other.app)
          PROVE  one = other
      <4>1. CASE one = new /\ other = new BY <4>1
      <4>2. CASE one = new /\ other # new BY <3>1, <3>2, <3>3, <4>2 DEF RuleStore!SameApp
      <4>3. CASE one # new /\ other = new BY <3>1, <3>2, <3>3, <4>3 DEF RuleStore!SameApp
      <4>4. CASE one # new /\ other # new BY <3>2, <3>3, <4>4 DEF RuleStore!OneProfilePerApp
      <4> QED BY <4>1, <4>2, <4>3, <4>4
    <3> QED BY <3>3 DEF RuleStore!OneProfilePerApp, RuleStore!SameApp
  <2> QED BY <1>5, <2>1, <2>2, <2>4 DEF RuleStore!SaveProfile, RuleStore!TypeOK
<1>6. ASSUME NEW profile \in profiles, RuleStore!DeleteProfile(profile) PROVE RulesInvariant'
  BY <1>6 DEF RuleStore!DeleteProfile, RuleStore!TypeOK, RuleStore!OneProfilePerApp
<1>7. ASSUME NEW profile \in profiles, RuleStore!ProfileDamaged(profile) PROVE RulesInvariant'
  <2>1. [profile EXCEPT !.broken = TRUE] \in RuleStore!Profiles /\ [profile EXCEPT !.broken = TRUE].app = profile.app
    BY DEF RuleStore!TypeOK, RuleStore!Profiles
  <2> DEFINE worn == [profile EXCEPT !.broken = TRUE]
  <2>2. profiles' = (profiles \ {profile}) \union {worn} BY <1>7 DEF RuleStore!ProfileDamaged
  <2>3. worn \in RuleStore!Profiles /\ worn.app = profile.app BY <2>1
  <2> HIDE DEF worn
  <2>4. profiles' \subseteq RuleStore!Profiles BY <2>2, <2>3 DEF RuleStore!TypeOK
  <2>5. RuleStore!OneProfilePerApp'
    BY <2>2, <2>3 DEF RuleStore!OneProfilePerApp, RuleStore!SameApp
  <2> QED BY <1>7, <2>4, <2>5 DEF RuleStore!ProfileDamaged, RuleStore!TypeOK
<1>8. CASE RuleStore!KeyChanges
  BY <1>8 DEF RuleStore!KeyChanges, RuleStore!TypeOK, RuleStore!OneProfilePerApp
<1>9. CASE UNCHANGED RuleStore!vars
  BY <1>9 DEF RuleStore!vars, RuleStore!TypeOK, RuleStore!OneProfilePerApp
<1> QED BY <1>1, <1>2, <1>3, <1>4, <1>5, <1>6, <1>7, <1>8, <1>9 DEF RuleStore!Next

\* An application has one profile, however its identity is spelt and however damaged the
\* stored row is (saveProfile()).
THEOREM ProfilesStaySingle ==
  ASSUME RuleStore!TextRulesAssumption
  PROVE  RuleStore!Spec => [](RuleStore!TypeOK /\ RuleStore!OneProfilePerApp)
<1>1. RuleStore!Init => RulesInvariant BY RulesStart
<1>2. RulesInvariant /\ [RuleStore!Next]_(RuleStore!vars) => RulesInvariant' BY RulesStep
<1>3. RulesInvariant => RuleStore!TypeOK /\ RuleStore!OneProfilePerApp BY DEF RulesInvariant
<1> QED BY <1>1, <1>2, <1>3, PTL DEF RuleStore!Spec

\* What a save and a deletion may do to the rules, for any rules, seals and limit: the
\* duplicates of an older installation only get fewer, and a rule deleted under its editor
\* stays deleted (saveDictionary(), saveSnippet()); a saved profile is found (findProfile()).
THEOREM SavesAreSound ==
  ASSUME RuleStore!TextRulesAssumption
  PROVE  RuleStore!Spec => [][/\ RuleStore!NoNewDuplicates /\ RuleStore!DeletedStaysDeleted
                              /\ RuleStore!SavedProfileIsFound]_(RuleStore!vars)
<1>1. RuleStore!Init => RulesInvariant BY RulesStart
<1>2. RulesInvariant /\ [RuleStore!Next]_(RuleStore!vars) => RulesInvariant' BY RulesStep
<1>3. ASSUME RulesInvariant, RuleStore!Next PROVE RuleStore!NoNewDuplicates
  <2> SUFFICES ASSUME NEW canonical
               PROVE  RuleStore!Cardinality(RuleStore!RulesOf(rules', canonical))
                        <= IF RuleStore!RulesOf(rules, canonical) = {} THEN 1
                           ELSE RuleStore!Cardinality(RuleStore!RulesOf(rules, canonical))
    BY DEF RuleStore!NoNewDuplicates
  <2>0. \A S : RuleStore!Cardinality(S) = Cardinality(S) BY DEF RuleStore!Cardinality, Cardinality
  <2>1. ASSUME NEW id \in 1..MaxIds, NEW phrase \in Phrases, RuleStore!Put(id, phrase),
               \A rule \in rules : RuleStore!Canonical(rule.phrase) = RuleStore!Canonical(phrase) => rule.id = id
        PROVE  Cardinality(RuleStore!RulesOf(rules', canonical))
                 <= IF RuleStore!RulesOf(rules, canonical) = {} THEN 1
                    ELSE Cardinality(RuleStore!RulesOf(rules, canonical))
    BY <1>3, <2>1, PutIsAlone
  <2>2. CASE rules' \in SUBSET rules
    <3>1. RuleStore!RulesOf(rules, canonical) \in SUBSET rules
          /\ RuleStore!RulesOf(rules', canonical) \in SUBSET RuleStore!RulesOf(rules, canonical)
      BY <2>2 DEF RuleStore!RulesOf
    <3>2. IsFiniteSet(RuleStore!RulesOf(rules, canonical)) BY <1>3, <3>1, FS_Subset DEF RulesInvariant
    <3> DEFINE before == RuleStore!RulesOf(rules, canonical)
               after  == RuleStore!RulesOf(rules', canonical)
    <3> HIDE DEF before, after
    <3>3. IsFiniteSet(before) /\ after \in SUBSET before BY <3>1, <3>2 DEF before, after
    <3>4. Cardinality(after) <= Cardinality(before) /\ Cardinality(after) \in Nat /\ IsFiniteSet(after)
      BY <3>3, FS_Subset, FS_CardinalityType
    <3>5. before = {} => Cardinality(after) <= 1
      <4>1. ASSUME before = {} PROVE Cardinality(after) = 0 BY <3>3, <4>1, FS_EmptySet
      <4> QED BY <4>1
    <3> QED BY <2>0, <3>4, <3>5 DEF before, after
  <2>3. ASSUME NEW phrase \in Phrases, RuleStore!SaveEdited(phrase)
        PROVE  \/ rules' = rules
               \/ /\ editing \in 1..MaxIds /\ RuleStore!Put(editing, phrase)
                  /\ \A rule \in rules : RuleStore!Canonical(rule.phrase) = RuleStore!Canonical(phrase)
                                         => rule.id = editing
    <3>1. editing \in 1..MaxIds
      BY <1>3, <2>3 DEF RulesInvariant, RuleStore!TypeOK, RuleStore!SaveEdited, RuleStore!TextRulesAssumption
    <3> QED BY <2>3, <3>1 DEF RuleStore!SaveEdited, RuleStore!Refused, RuleStore!EditAllowed, RuleStore!ListIsWhole,
               RuleStore!Matching
  <2>4. ASSUME NEW phrase \in Phrases, RuleStore!SaveNew(phrase)
        PROVE  \/ rules' = rules
               \/ \E id \in 1..MaxIds :
                    /\ RuleStore!Put(id, phrase)
                    /\ \A rule \in rules : RuleStore!Canonical(rule.phrase) = RuleStore!Canonical(phrase)
                                           => rule.id = id
    <3> DEFINE matches == RuleStore!Matching(phrase)
    <3>1. RuleStore!ListIsWhole =>
            matches = {rule \in rules : RuleStore!Canonical(rule.phrase) = RuleStore!Canonical(phrase)}
      BY DEF RuleStore!ListIsWhole, RuleStore!Matching
    <3>2. \A rule \in matches : rule.id \in 1..MaxIds /\ rule \in rules
      BY <1>3 DEF RulesInvariant, RuleStore!Matching, RuleStore!Listed, RuleStore!Read, RuleStore!TypeOK, RuleStore!Rules
    <3>3. rulesNextId \in 1..MaxIds
      BY <1>3, <2>4 DEF RulesInvariant, RuleStore!TypeOK, RuleStore!SaveNew, RuleStore!TextRulesAssumption
    <3>4. \/ rules' = rules
          \/ RuleStore!ListIsWhole /\ matches = {} /\ RuleStore!Put(rulesNextId, phrase)
          \/ RuleStore!ListIsWhole /\ RuleStore!Cardinality(matches) <= 1 /\ \E rule \in matches : RuleStore!Put(rule.id, phrase)
      BY <2>4 DEF RuleStore!SaveNew, RuleStore!Refused
    <3>5. ASSUME Cardinality(matches) <= 1, NEW a \in matches, NEW b \in matches PROVE a = b
      <4>1. matches \in SUBSET rules BY <3>2
      <4> HIDE DEF matches
      <4>2. IsFiniteSet(matches) BY <1>3, <4>1, FS_Subset DEF RulesInvariant
      <4>3. {a, b} \in SUBSET matches OBVIOUS
      <4>4. Cardinality({a, b}) <= Cardinality(matches) /\ Cardinality(matches) \in Nat
        BY <4>2, <4>3, FS_Subset, FS_CardinalityType
      <4>5. a # b => Cardinality({a, b}) = 2
        <5>1. ASSUME a # b PROVE Cardinality({a, b}) = 2
          <6>1. IsFiniteSet({a}) /\ Cardinality({a}) = 1 BY FS_Singleton
          <6>2. {a, b} = {a} \union {b} /\ b \notin {a} BY <5>1
          <6>3. Cardinality({a} \union {b}) = Cardinality({a}) + 1 BY <6>1, <6>2, FS_AddElement
          <6> QED BY <6>1, <6>2, <6>3
        <5> QED BY <5>1
      <4> QED BY <3>5, <4>4, <4>5
    <3> HIDE DEF matches
    <3> QED BY <2>0, <3>1, <3>2, <3>3, <3>4, <3>5
  <2>5. CASE \E phrase \in Phrases : RuleStore!SaveEdited(phrase) \/ RuleStore!SaveNew(phrase)
    BY <2>0, <2>1, <2>2, <2>3, <2>4, <2>5
  <2>6. CASE ~\E phrase \in Phrases : RuleStore!SaveEdited(phrase) \/ RuleStore!SaveNew(phrase)
    BY <1>3, <2>2, <2>6 DEF RuleStore!Next, RuleStore!DeleteRule, RuleStore!OpenEditor, RuleStore!SaveProfile,
       RuleStore!DeleteProfile, RuleStore!ProfileDamaged, RuleStore!KeyChanges
  <2> QED BY <2>5, <2>6
<1>4. ASSUME RulesInvariant, RuleStore!Next PROVE RuleStore!DeletedStaysDeleted
  <2> SUFFICES ASSUME NEW phrase \in Phrases, RuleStore!SaveEdited(phrase)
               PROVE  {rule.id : rule \in rules'} = {rule.id : rule \in rules}
    BY DEF RuleStore!DeletedStaysDeleted
  <2>1. CASE rules' = rules BY <2>1
  <2>2. CASE RuleStore!EditAllowed(editing, phrase) /\ RuleStore!Put(editing, phrase)
    <3> DEFINE new == RuleStore!Sealed(editing, phrase)
    <3>1. new.id = editing BY DEF RuleStore!Sealed
    <3>2. rules' = {rule \in rules : rule.id # editing} \union {new} BY <2>2 DEF RuleStore!Put
    <3>3. \E rule \in rules : rule.id = editing
      BY <2>2 DEF RuleStore!EditAllowed, RuleStore!Listed, RuleStore!Read
    <3> HIDE DEF new
    <3> QED BY <3>1, <3>2, <3>3
  <2> QED BY <2>1, <2>2 DEF RuleStore!SaveEdited, RuleStore!Refused
<1>5. ASSUME RulesInvariant, RuleStore!Next PROVE RuleStore!SavedProfileIsFound
  <2> SUFFICES ASSUME NEW app \in Applications, NEW other \in Applications, RuleStore!SaveProfile(app), RuleStore!SameApp(app, other),
                      RuleStore!WithinLimit(app)'
               PROVE  {profile.id : profile \in RuleStore!FindProfile(other)'} = {result'}
    BY DEF RuleStore!SavedProfileIsFound
  <2> DEFINE stored == RuleStore!StoredFor(app)
             id == IF stored = {} THEN rulesNextId ELSE (CHOOSE profile \in stored : TRUE).id
             new == [id |-> id, app |-> app, broken |-> FALSE]
  <2>1. profiles' = {profile \in profiles : profile.id # id} \union {new} /\ result' = id
    BY DEF RuleStore!SaveProfile
  <2>2. \A one, two \in stored : one = two
    BY <1>5 DEF RulesInvariant, RuleStore!StoredFor, RuleStore!OneProfilePerApp, RuleStore!SameApp
  <2>3. \A profile \in profiles : RuleStore!SameApp(profile.app, other) => profile \in stored
    BY DEF RuleStore!StoredFor, RuleStore!SameApp
  <2>0. PICK row : row = new OBVIOUS
  <2>4. row = new /\ row.id = id /\ row.app = app /\ row.broken = FALSE BY <2>0
  <2> HIDE DEF stored, new
  <2>5. \A profile \in stored : profile.id = id BY <2>2
  <2> HIDE DEF id
  <2>6. \A profile : profile \in profiles' /\ RuleStore!SameApp(profile.app, other) <=> profile = row
    BY <2>1, <2>3, <2>4, <2>5 DEF RuleStore!SameApp
  <2>7. RuleStore!WithinLimit(row.app)' BY <2>4
  <2>8. RuleStore!FindProfile(other)' = {row}
    BY <2>4, <2>6, <2>7 DEF RuleStore!FindProfile, RuleStore!SameApp
  <2> QED BY <2>1, <2>4, <2>8
<1>6. RulesInvariant /\ [RuleStore!Next]_(RuleStore!vars)
      => [/\ RuleStore!NoNewDuplicates /\ RuleStore!DeletedStaysDeleted
          /\ RuleStore!SavedProfileIsFound]_(RuleStore!vars)
  BY <1>3, <1>4, <1>5
<1> QED BY <1>1, <1>2, <1>6, PTL DEF RuleStore!Spec

-----------------------------------------------------------------------------
(* The database of an older installation *)

CONSTANTS Notes, Rules, ProfileRows, MaxInterrupts
VARIABLES phase, ledger, pad, notes, table, upgradeRules, staging, upgradeProfiles, recovered, settings,
  evidence, residue, upgradeReader, missed, sealing, legible, old, interrupts

Upgrade == INSTANCE StoreUpgrade WITH rules <- upgradeRules, profiles <- upgradeProfiles, reader <- upgradeReader

\* Migrations are applied in their order, and all of them before anything else.
InOrder ==
  /\ \A version \in ledger : 1..version \subseteq ledger
  /\ phase # "closed" => ledger \subseteq Upgrade!Versions
  /\ phase \in {"rules", "truncate", "settings", "open"} => ledger = Upgrade!Versions

\* Up to which migration a note is where.
NotesAreSomewhere ==
  /\ old.notes \subseteq notes
  /\ 3 \notin ledger => old.notes = {} /\ old.pad \subseteq pad
  /\ 3 \in ledger => old.pad \subseteq notes
  /\ 4 \in ledger => pad = {}

\* The rules stay as they are; they are staged as long as they are in plain text.
RulesAreSomewhere ==
  /\ upgradeRules = old.rules
  /\ 1 \notin ledger => upgradeRules = {} /\ table = "none"
  /\ table = "none" => upgradeRules = {}
  /\ staging => 5 \in ledger /\ table # "sealed"
  /\ table = "plain" /\ 5 \in ledger => staging
  /\ table = "sealed" => 5 \in ledger
  /\ phase \in {"truncate", "settings", "open"} => ~staging /\ table # "plain"

\* Plain text of a sealed rule is on the disk only until the log is truncated, or
\* where that was missed, which is no business of a newer build's database.
PlainTextIsBounded ==
  /\ table = "none" => residue = {}
  /\ table = "sealed" /\ residue # {} => phase = "truncate" \/ missed
  /\ missed => ledger \subseteq Upgrade!Versions

\* The profiles are the older installation's, or what migration 6 makes of them.
ProfilesAreSomewhere ==
  /\ old.profiles \subseteq ProfileRows
  /\ 1 \notin ledger => old.profiles = {}
  /\ \/ upgradeProfiles = old.profiles /\ recovered = {}
        /\ (6 \in ledger => \A row, other \in upgradeProfiles :
             row.app[1] # 0 /\ (row.app[1] = other.app[1] => row = other))
     \/ /\ 6 \in ledger /\ recovered = Upgrade!SetAside(old.profiles)
        /\ upgradeProfiles = {Upgrade!Canonical(row) : row \in Upgrade!LatestOf({row \in old.profiles : row.app[1] # 0})}

SettingsAreSomewhere ==
  /\ old.settings = "unparsable" => settings = "unparsable" \/ evidence
  /\ phase = "open" => settings \in {"none", "current"}

UpgradeInvariant ==
  /\ Upgrade!TypeOK /\ InOrder /\ NotesAreSomewhere /\ RulesAreSomewhere /\ PlainTextIsBounded
  /\ ProfilesAreSomewhere /\ SettingsAreSomewhere

-----------------------------------------------------------------------------
LEMMA UpgradeStarts == ASSUME Upgrade!StoreUpgradeAssumption, Upgrade!Init PROVE UpgradeInvariant
<1>1. PICK n \in 0..7, body \in SUBSET Notes, some \in SUBSET Notes, of \in SUBSET Rules, rows \in SUBSET ProfileRows :
        Upgrade!Init!(n, body, some, of, rows)
  BY DEF Upgrade!Init
<1>2. old.pad = (IF n = 2 THEN body ELSE {}) /\ old.notes = some /\ old.rules = of /\ old.profiles = rows
      /\ old.settings = settings
  BY <1>1
<1>3. Upgrade!TypeOK
  <2>1. /\ phase = "closed" /\ ledger \subseteq 1..7 /\ pad \subseteq Notes /\ notes \subseteq Notes
        /\ upgradeRules \subseteq Rules /\ residue \subseteq Rules
    BY <1>1
  <2>4. /\ table \in {"none", "plain", "sealed"}
        /\ settings \in {"none", "current", "older", "unparsable", "oversized"}
    BY <1>1
  <2>5. evidence \in BOOLEAN /\ upgradeReader \in BOOLEAN /\ missed \in BOOLEAN BY <1>1
  <2>6. sealing \in BOOLEAN /\ legible \in BOOLEAN BY <1>1
  <2>2. staging \in BOOLEAN BY <1>1
  <2>3. interrupts \in 0..MaxInterrupts BY <1>1 DEF Upgrade!StoreUpgradeAssumption
  <2> QED BY <2>1, <2>2, <2>3, <2>4, <2>5, <2>6 DEF Upgrade!TypeOK
<1>4. InOrder BY <1>1 DEF InOrder
<1>5. NotesAreSomewhere BY <1>1, <1>2 DEF NotesAreSomewhere
<1>6. RulesAreSomewhere
  <2>1. staging <=> n \in {5, 6} /\ table # "sealed" BY <1>1
  <2> QED BY <1>1, <1>2, <2>1 DEF RulesAreSomewhere
<1>7. PlainTextIsBounded BY <1>1 DEF PlainTextIsBounded
<1>8. ProfilesAreSomewhere BY <1>1, <1>2 DEF ProfilesAreSomewhere
<1>9. SettingsAreSomewhere BY <1>1, <1>2 DEF SettingsAreSomewhere
<1> QED BY <1>3, <1>4, <1>5, <1>6, <1>7, <1>8, <1>9 DEF UpgradeInvariant

LEMMA UpgradeStep ==
  ASSUME Upgrade!StoreUpgradeAssumption, UpgradeInvariant, [Upgrade!Next]_(Upgrade!vars) PROVE UpgradeInvariant'
<1> USE DEF UpgradeInvariant, Upgrade!tables, Upgrade!Versions
<1>1. CASE Upgrade!Launch
  <2> USE <1>1 DEF Upgrade!Launch, Upgrade!SupportedLedger
  <2>1. Upgrade!TypeOK' BY DEF Upgrade!TypeOK, InOrder
  <2>2. InOrder' BY DEF InOrder
  <2>3. NotesAreSomewhere' BY DEF InOrder, NotesAreSomewhere
  <2>4. RulesAreSomewhere' BY DEF InOrder, RulesAreSomewhere
  <2>5. PlainTextIsBounded' BY DEF InOrder, RulesAreSomewhere, Upgrade!TypeOK, PlainTextIsBounded
  <2>6. ProfilesAreSomewhere' BY DEF InOrder, ProfilesAreSomewhere
  <2>7. SettingsAreSomewhere' BY DEF Upgrade!TypeOK, SettingsAreSomewhere
  <2> QED BY <2>1, <2>2, <2>3, <2>4, <2>5, <2>6, <2>7
<1>2. CASE Upgrade!Migrate
  <2>1. PICK version \in 1..6 \ ledger :
          /\ \A other \in 1..6 \ ledger : version <= other
          /\ ledger' = ledger \union {version} /\ Upgrade!Step(version)
    BY <1>2 DEF Upgrade!Migrate
  <2>2. phase = "migrating" /\ UNCHANGED <<phase, evidence, residue, upgradeReader, missed, sealing, legible, old, interrupts>>
    BY <1>2 DEF Upgrade!Migrate
  <2>3. 1..version \subseteq ledger' /\ ledger \subseteq 1..6
    <3>1. ASSUME NEW u \in 1..version PROVE u \in ledger'
      BY <2>1 DEF Upgrade!TypeOK
    <3> QED BY <2>2, <3>1 DEF InOrder
  <2> USE <2>1, <2>2, <2>3
  <2>4. InOrder' BY DEF InOrder
  <2>5. CASE version = 1
    <3> USE <2>5 DEF Upgrade!Step, Upgrade!NoteCopied, Upgrade!Canonicalized
    <3>0. 1 \notin ledger /\ 3 \notin ledger /\ 4 \notin ledger /\ 5 \notin ledger /\ 6 \notin ledger
      BY DEF InOrder
    <3>1. Upgrade!TypeOK' BY DEF Upgrade!TypeOK
    <3>2. NotesAreSomewhere' BY <3>0 DEF InOrder, NotesAreSomewhere
    <3>3. RulesAreSomewhere' BY <3>0 DEF InOrder, RulesAreSomewhere
    <3>4. PlainTextIsBounded' BY <3>0 DEF InOrder, PlainTextIsBounded
    <3>5. ProfilesAreSomewhere'
      <4>1. upgradeProfiles' = old'.profiles /\ recovered' = {} /\ 6 \notin ledger' /\ old'.profiles = {}
        BY <3>0 DEF ProfilesAreSomewhere
      <4> QED BY <4>1 DEF ProfilesAreSomewhere
    <3>6. SettingsAreSomewhere' BY <3>0 DEF InOrder, SettingsAreSomewhere
    <3> QED BY <2>4, <3>1, <3>2, <3>3, <3>4, <3>5, <3>6
  <2>6. CASE version = 2
    <3> USE <2>6 DEF Upgrade!Step, Upgrade!NoteCopied, Upgrade!Canonicalized
    <3>1. Upgrade!TypeOK' BY DEF Upgrade!TypeOK
    <3>2. NotesAreSomewhere' BY DEF InOrder, NotesAreSomewhere
    <3>3. RulesAreSomewhere' BY DEF InOrder, RulesAreSomewhere
    <3>4. PlainTextIsBounded' BY DEF InOrder, PlainTextIsBounded
    <3>5. ProfilesAreSomewhere' BY DEF InOrder, ProfilesAreSomewhere
    <3>6. SettingsAreSomewhere' BY DEF InOrder, SettingsAreSomewhere
    <3> QED BY <2>4, <3>1, <3>2, <3>3, <3>4, <3>5, <3>6
  <2>7. CASE version = 3
    <3> USE <2>7 DEF Upgrade!Step, Upgrade!NoteCopied, Upgrade!Canonicalized
    <3>1. Upgrade!TypeOK' BY DEF Upgrade!TypeOK
    <3>2. NotesAreSomewhere' BY DEF InOrder, NotesAreSomewhere
    <3>3. RulesAreSomewhere' BY DEF InOrder, RulesAreSomewhere
    <3>4. PlainTextIsBounded' BY DEF InOrder, PlainTextIsBounded
    <3>5. ProfilesAreSomewhere' BY DEF InOrder, ProfilesAreSomewhere
    <3>6. SettingsAreSomewhere' BY DEF InOrder, SettingsAreSomewhere
    <3> QED BY <2>4, <3>1, <3>2, <3>3, <3>4, <3>5, <3>6
  <2>8. CASE version = 4
    <3> USE <2>8 DEF Upgrade!Step, Upgrade!NoteCopied, Upgrade!Canonicalized
    <3>1. Upgrade!TypeOK' BY DEF Upgrade!TypeOK
    <3>2. NotesAreSomewhere' BY DEF InOrder, NotesAreSomewhere
    <3>3. RulesAreSomewhere' BY DEF InOrder, RulesAreSomewhere
    <3>4. PlainTextIsBounded' BY DEF InOrder, PlainTextIsBounded
    <3>5. ProfilesAreSomewhere' BY DEF InOrder, ProfilesAreSomewhere
    <3>6. SettingsAreSomewhere' BY DEF InOrder, SettingsAreSomewhere
    <3> QED BY <2>4, <3>1, <3>2, <3>3, <3>4, <3>5, <3>6
  <2>9. CASE version = 5
    <3> USE <2>9 DEF Upgrade!Step, Upgrade!NoteCopied, Upgrade!Canonicalized
    <3>1. Upgrade!TypeOK' BY DEF Upgrade!TypeOK
    <3>2. NotesAreSomewhere' BY DEF InOrder, NotesAreSomewhere
    <3>3. RulesAreSomewhere' BY DEF InOrder, RulesAreSomewhere
    <3>4. PlainTextIsBounded' BY DEF InOrder, PlainTextIsBounded
    <3>5. ProfilesAreSomewhere' BY DEF InOrder, ProfilesAreSomewhere
    <3>6. SettingsAreSomewhere' BY DEF InOrder, SettingsAreSomewhere
    <3> QED BY <2>4, <3>1, <3>2, <3>3, <3>4, <3>5, <3>6
  <2>10. CASE version = 6
    <3> USE <2>10 DEF Upgrade!Step, Upgrade!NoteCopied, Upgrade!Canonicalized
    <3>1. Upgrade!TypeOK' BY DEF Upgrade!TypeOK
    <3>2. NotesAreSomewhere' BY DEF InOrder, NotesAreSomewhere
    <3>3. RulesAreSomewhere' BY DEF InOrder, RulesAreSomewhere
    <3>4. PlainTextIsBounded' BY DEF InOrder, PlainTextIsBounded
    <3>5. ProfilesAreSomewhere'
      <4>1. upgradeProfiles = old.profiles /\ recovered = {} /\ old' = old /\ 6 \in ledger'
            /\ 1 \in ledger' /\ old.profiles \subseteq ProfileRows
        BY DEF ProfilesAreSomewhere
      <4>2. recovered' = Upgrade!SetAside(old.profiles)
        BY <4>1
      <4>3. upgradeProfiles' = {Upgrade!Canonical(row) :
                          row \in Upgrade!LatestOf({row \in old.profiles : row.app[1] # 0})}
        BY <4>1
      <4>4. /\ Upgrade!SetAside(old'.profiles) = Upgrade!SetAside(old.profiles)
            /\ Upgrade!LatestOf({row \in old'.profiles : row.app[1] # 0})
               = Upgrade!LatestOf({row \in old.profiles : row.app[1] # 0})
        BY <4>1
      <4> QED BY <4>1, <4>2, <4>3, <4>4 DEF ProfilesAreSomewhere
    <3>6. SettingsAreSomewhere' BY DEF InOrder, SettingsAreSomewhere
    <3> QED BY <2>4, <3>1, <3>2, <3>3, <3>4, <3>5, <3>6
  <2> QED BY <2>5, <2>6, <2>7, <2>8, <2>9, <2>10
<1>3. CASE Upgrade!Migrated
  <2> USE <1>3 DEF Upgrade!Migrated
  <2>1. Upgrade!TypeOK' BY DEF Upgrade!TypeOK, InOrder
  <2>2. InOrder' BY DEF InOrder
  <2>3. NotesAreSomewhere' BY DEF InOrder, NotesAreSomewhere
  <2>4. RulesAreSomewhere' BY DEF InOrder, RulesAreSomewhere
  <2>5. PlainTextIsBounded' BY DEF InOrder, RulesAreSomewhere, Upgrade!TypeOK, PlainTextIsBounded
  <2>6. ProfilesAreSomewhere' BY DEF InOrder, ProfilesAreSomewhere
  <2>7. SettingsAreSomewhere' BY DEF Upgrade!TypeOK, SettingsAreSomewhere
  <2> QED BY <2>1, <2>2, <2>3, <2>4, <2>5, <2>6, <2>7
<1>4. CASE Upgrade!NothingStaged
  <2> USE <1>4 DEF Upgrade!NothingStaged
  <2>1. Upgrade!TypeOK' BY DEF Upgrade!TypeOK, InOrder
  <2>2. InOrder' BY DEF InOrder
  <2>3. NotesAreSomewhere' BY DEF InOrder, NotesAreSomewhere
  <2>4. RulesAreSomewhere' BY DEF InOrder, RulesAreSomewhere
  <2>5. PlainTextIsBounded' BY DEF InOrder, RulesAreSomewhere, Upgrade!TypeOK, PlainTextIsBounded
  <2>6. ProfilesAreSomewhere' BY DEF InOrder, ProfilesAreSomewhere
  <2>7. SettingsAreSomewhere' BY DEF Upgrade!TypeOK, SettingsAreSomewhere
  <2> QED BY <2>1, <2>2, <2>3, <2>4, <2>5, <2>6, <2>7
<1>5. CASE Upgrade!StagingDropped
  <2> USE <1>5 DEF Upgrade!StagingDropped
  <2>1. Upgrade!TypeOK' BY DEF Upgrade!TypeOK, InOrder
  <2>2. InOrder' BY DEF InOrder
  <2>3. NotesAreSomewhere' BY DEF InOrder, NotesAreSomewhere
  <2>4. RulesAreSomewhere' BY DEF InOrder, RulesAreSomewhere
  <2>5. PlainTextIsBounded' BY DEF InOrder, RulesAreSomewhere, Upgrade!TypeOK, PlainTextIsBounded
  <2>6. ProfilesAreSomewhere' BY DEF InOrder, ProfilesAreSomewhere
  <2>7. SettingsAreSomewhere' BY DEF Upgrade!TypeOK, SettingsAreSomewhere
  <2> QED BY <2>1, <2>2, <2>3, <2>4, <2>5, <2>6, <2>7
<1>6. CASE Upgrade!TablesExchanged
  <2> USE <1>6 DEF Upgrade!TablesExchanged, Upgrade!SealedAll
  <2>1. Upgrade!TypeOK' BY DEF Upgrade!TypeOK, InOrder
  <2>2. InOrder' BY DEF InOrder
  <2>3. NotesAreSomewhere' BY DEF InOrder, NotesAreSomewhere
  <2>4. RulesAreSomewhere' BY DEF InOrder, RulesAreSomewhere
  <2>5. PlainTextIsBounded' BY DEF InOrder, RulesAreSomewhere, Upgrade!TypeOK, PlainTextIsBounded
  <2>6. ProfilesAreSomewhere' BY DEF InOrder, ProfilesAreSomewhere
  <2>7. SettingsAreSomewhere' BY DEF Upgrade!TypeOK, SettingsAreSomewhere
  <2> QED BY <2>1, <2>2, <2>3, <2>4, <2>5, <2>6, <2>7
<1>7. CASE Upgrade!Truncate
  <2> USE <1>7 DEF Upgrade!Truncate, Upgrade!LogTruncated
  <2>1. Upgrade!TypeOK' BY DEF Upgrade!TypeOK, InOrder
  <2>2. InOrder' BY DEF InOrder
  <2>3. NotesAreSomewhere' BY DEF InOrder, NotesAreSomewhere
  <2>4. RulesAreSomewhere' BY DEF InOrder, RulesAreSomewhere
  <2>5. PlainTextIsBounded' BY DEF InOrder, RulesAreSomewhere, Upgrade!TypeOK, PlainTextIsBounded
  <2>6. ProfilesAreSomewhere' BY DEF InOrder, ProfilesAreSomewhere
  <2>7. SettingsAreSomewhere' BY DEF Upgrade!TypeOK, SettingsAreSomewhere
  <2> QED BY <2>1, <2>2, <2>3, <2>4, <2>5, <2>6, <2>7
<1>8. CASE Upgrade!NormalizeSettings
  <2> USE <1>8 DEF Upgrade!NormalizeSettings, Upgrade!Recovered
  <2>1. Upgrade!TypeOK' BY DEF Upgrade!TypeOK, InOrder
  <2>2. InOrder' BY DEF InOrder
  <2>3. NotesAreSomewhere' BY DEF InOrder, NotesAreSomewhere
  <2>4. RulesAreSomewhere' BY DEF InOrder, RulesAreSomewhere
  <2>5. PlainTextIsBounded' BY DEF InOrder, RulesAreSomewhere, Upgrade!TypeOK, PlainTextIsBounded
  <2>6. ProfilesAreSomewhere' BY DEF InOrder, ProfilesAreSomewhere
  <2>7. SettingsAreSomewhere' BY DEF Upgrade!TypeOK, SettingsAreSomewhere
  <2> QED BY <2>1, <2>2, <2>3, <2>4, <2>5, <2>6, <2>7
<1>9. CASE Upgrade!Refuse
  <2> USE <1>9 DEF Upgrade!Refuse, Upgrade!Closed, Upgrade!SealedAll
  <2>1. Upgrade!TypeOK' BY DEF Upgrade!TypeOK, InOrder
  <2>2. InOrder' BY DEF InOrder
  <2>3. NotesAreSomewhere' BY DEF InOrder, NotesAreSomewhere
  <2>4. RulesAreSomewhere' BY DEF InOrder, RulesAreSomewhere
  <2>5. PlainTextIsBounded' BY DEF InOrder, RulesAreSomewhere, Upgrade!TypeOK, PlainTextIsBounded
  <2>6. ProfilesAreSomewhere' BY DEF InOrder, ProfilesAreSomewhere
  <2>7. SettingsAreSomewhere' BY DEF Upgrade!TypeOK, SettingsAreSomewhere
  <2> QED BY <2>1, <2>2, <2>3, <2>4, <2>5, <2>6, <2>7
<1>10. CASE Upgrade!Quit
  <2> USE <1>10 DEF Upgrade!Quit, Upgrade!Closed
  <2>1. Upgrade!TypeOK' BY DEF Upgrade!TypeOK, InOrder
  <2>2. InOrder' BY DEF InOrder
  <2>3. NotesAreSomewhere' BY DEF InOrder, NotesAreSomewhere
  <2>4. RulesAreSomewhere' BY DEF InOrder, RulesAreSomewhere
  <2>5. PlainTextIsBounded' BY DEF InOrder, RulesAreSomewhere, Upgrade!TypeOK, PlainTextIsBounded
  <2>6. ProfilesAreSomewhere' BY DEF InOrder, ProfilesAreSomewhere
  <2>7. SettingsAreSomewhere' BY DEF Upgrade!TypeOK, SettingsAreSomewhere
  <2> QED BY <2>1, <2>2, <2>3, <2>4, <2>5, <2>6, <2>7
<1>11. CASE Upgrade!Interrupted
  <2> USE <1>11 DEF Upgrade!Interrupted
  <2>1. Upgrade!TypeOK' BY DEF Upgrade!TypeOK, Upgrade!StoreUpgradeAssumption
  <2>2. InOrder' BY DEF InOrder
  <2>3. NotesAreSomewhere' BY DEF InOrder, NotesAreSomewhere
  <2>4. RulesAreSomewhere' BY DEF InOrder, RulesAreSomewhere
  <2>5. PlainTextIsBounded' BY DEF InOrder, RulesAreSomewhere, Upgrade!TypeOK, PlainTextIsBounded
  <2>6. ProfilesAreSomewhere' BY DEF InOrder, ProfilesAreSomewhere
  <2>7. SettingsAreSomewhere' BY DEF Upgrade!TypeOK, SettingsAreSomewhere
  <2> QED BY <2>1, <2>2, <2>3, <2>4, <2>5, <2>6, <2>7
<1>12. CASE Upgrade!EncryptionComesOrGoes
  <2> USE <1>12 DEF Upgrade!EncryptionComesOrGoes
  <2>1. Upgrade!TypeOK' BY DEF Upgrade!TypeOK, InOrder
  <2>2. InOrder' BY DEF InOrder
  <2>3. NotesAreSomewhere' BY DEF InOrder, NotesAreSomewhere
  <2>4. RulesAreSomewhere' BY DEF InOrder, RulesAreSomewhere
  <2>5. PlainTextIsBounded' BY DEF InOrder, RulesAreSomewhere, Upgrade!TypeOK, PlainTextIsBounded
  <2>6. ProfilesAreSomewhere' BY DEF InOrder, ProfilesAreSomewhere
  <2>7. SettingsAreSomewhere' BY DEF Upgrade!TypeOK, SettingsAreSomewhere
  <2> QED BY <2>1, <2>2, <2>3, <2>4, <2>5, <2>6, <2>7
<1>13. CASE Upgrade!ReaderComesOrGoes
  <2> USE <1>13 DEF Upgrade!ReaderComesOrGoes
  <2>1. Upgrade!TypeOK' BY DEF Upgrade!TypeOK, InOrder
  <2>2. InOrder' BY DEF InOrder
  <2>3. NotesAreSomewhere' BY DEF InOrder, NotesAreSomewhere
  <2>4. RulesAreSomewhere' BY DEF InOrder, RulesAreSomewhere
  <2>5. PlainTextIsBounded' BY DEF PlainTextIsBounded
  <2>6. ProfilesAreSomewhere' BY DEF InOrder, ProfilesAreSomewhere
  <2>7. SettingsAreSomewhere' BY DEF Upgrade!TypeOK, SettingsAreSomewhere
  <2> QED BY <2>1, <2>2, <2>3, <2>4, <2>5, <2>6, <2>7
<1>14. CASE UNCHANGED Upgrade!vars
  BY <1>14 DEF Upgrade!vars, Upgrade!TypeOK, InOrder, NotesAreSomewhere, RulesAreSomewhere, PlainTextIsBounded, ProfilesAreSomewhere, SettingsAreSomewhere
<1> QED BY <1>1, <1>2, <1>3, <1>4, <1>5, <1>6, <1>7, <1>8, <1>9, <1>10, <1>11, <1>12, <1>13, <1>14 DEF Upgrade!Next

\* Of finitely many rows of an application, one is the latest: the set of the rows that
\* would win over it is the least, by inclusion.
LEMMA OneIsLatest ==
  ASSUME Upgrade!StoreUpgradeAssumption, NEW rows \in SUBSET ProfileRows, NEW row \in rows
  PROVE  \E latest \in Upgrade!LatestOf(rows) : latest.app[1] = row.app[1] /\ latest.at >= row.at
<1> DEFINE Wins(a, b) == a.at > b.at \/ (a.at = b.at /\ a.id <= b.id)
           same == {r \in rows : r.app[1] = row.app[1]}
           Over(r) == {a \in same : Wins(a, r)}
           T == {Over(r) : r \in same}
<1>1. \A r \in rows : r.at \in Nat /\ r.id \in Nat BY DEF Upgrade!StoreUpgradeAssumption
<1>2. T \subseteq FiniteSubsetsOf(ProfileRows)
  <2>1. ASSUME NEW r \in same PROVE Over(r) \in FiniteSubsetsOf(ProfileRows)
    <3>1. Over(r) \in SUBSET ProfileRows OBVIOUS
    <3> HIDE DEF Over
    <3>2. IsFiniteSet(ProfileRows) BY DEF Upgrade!StoreUpgradeAssumption, Upgrade!IsFiniteSet, IsFiniteSet
    <3>3. IsFiniteSet(Over(r)) BY <3>1, <3>2, FS_Subset
    <3> QED BY <3>1, <3>3 DEF FiniteSubsetsOf
  <2> QED BY <2>1
<1>3. Over(row) \in T OBVIOUS
<1> HIDE DEF T
<1>4. \E x \in T : \A y \in T : ~(<<y, x>> \in StrictSubsetOrdering(ProfileRows))
  BY <1>2, <1>3, FS_StrictSubsetOrderingWellFounded, WFMin
<1> USE DEF T
<1>5. PICK latest \in same : \A r \in same : ~(<<Over(r), Over(latest)>> \in StrictSubsetOrdering(ProfileRows))
  BY <1>4
<1>6. ASSUME NEW r \in same, ~Wins(latest, r) PROVE FALSE
  <2>1. latest \in Over(latest) /\ latest \notin Over(r) BY <1>1, <1>6
  <2>2. ASSUME NEW a \in Over(r) PROVE a \in Over(latest) BY <1>1, <1>6, <2>2
  <2>3. Over(r) \in SUBSET ProfileRows /\ Over(latest) \in SUBSET ProfileRows OBVIOUS
  <2>4. Over(r) \subseteq Over(latest) /\ Over(r) # Over(latest) BY <2>1, <2>2
  <2> HIDE DEF Over
  <2>5. <<Over(r), Over(latest)>> \in StrictSubsetOrdering(ProfileRows)
    BY <2>3, <2>4 DEF StrictSubsetOrdering
  <2> QED BY <1>5, <2>5
<1>7. latest \in Upgrade!LatestOf(rows) BY <1>6 DEF Upgrade!LatestOf
<1>8. latest.at >= row.at BY <1>1, <1>6
<1> QED BY <1>7, <1>8

\* One row of an identity is the latest: a tie is decided by the id.
LEMMA OnlyOneIsLatest ==
  ASSUME Upgrade!StoreUpgradeAssumption, NEW rows \in SUBSET ProfileRows,
         NEW a \in Upgrade!LatestOf(rows), NEW b \in Upgrade!LatestOf(rows), a.app[1] = b.app[1]
  PROVE  a = b
<1>1. a \in ProfileRows /\ b \in ProfileRows /\ a \in rows /\ b \in rows BY DEF Upgrade!LatestOf
<1>2. a.at \in Nat /\ a.id \in Nat /\ b.at \in Nat /\ b.id \in Nat BY <1>1 DEF Upgrade!StoreUpgradeAssumption
<1>3. a.id = b.id BY <1>1, <1>2 DEF Upgrade!LatestOf
<1> QED BY <1>1, <1>3 DEF Upgrade!StoreUpgradeAssumption

LEMMA CanonicalKeeps ==
  ASSUME Upgrade!StoreUpgradeAssumption, NEW row \in ProfileRows
  PROVE  /\ Upgrade!Canonical(row).id = row.id /\ Upgrade!Canonical(row).at = row.at
         /\ Upgrade!Canonical(row).app[1] = row.app[1]
BY DEF Upgrade!StoreUpgradeAssumption, Upgrade!Canonical

\* Wherever the launches end, and however often: nothing the older installation had is
\* lost, what opens is upgraded as a whole, and every identity has its latest profile.
THEOREM UpgradeKeepsAll ==
  ASSUME Upgrade!StoreUpgradeAssumption
  PROVE  Upgrade!Spec => []/\ Upgrade!TypeOK /\ Upgrade!NothingLost
                           /\ Upgrade!LatestProfileWins /\ Upgrade!OpenMeansUpgraded
<1>1. Upgrade!Init => UpgradeInvariant BY UpgradeStarts
<1>2. UpgradeInvariant /\ [Upgrade!Next]_(Upgrade!vars) => UpgradeInvariant' BY UpgradeStep
<1>3. ASSUME UpgradeInvariant PROVE Upgrade!NothingLost
  <2>1. old.pad \subseteq pad \union notes /\ old.notes \subseteq notes /\ old.rules \subseteq upgradeRules
        /\ (old.settings = "unparsable" => settings = "unparsable" \/ evidence)
    BY <1>3 DEF UpgradeInvariant, NotesAreSomewhere, RulesAreSomewhere, SettingsAreSomewhere
  <2>2. ASSUME NEW row \in old.profiles
        PROVE  \E kept \in upgradeProfiles \union recovered : kept.id = row.id /\ (kept \in recovered => kept = row)
    <3>1. row \in ProfileRows /\ old.profiles \in SUBSET ProfileRows
      BY <1>3 DEF UpgradeInvariant, ProfilesAreSomewhere
    <3>2. CASE upgradeProfiles = old.profiles /\ recovered = {} BY <3>2
    <3>3. CASE /\ recovered = Upgrade!SetAside(old.profiles)
               /\ upgradeProfiles = {Upgrade!Canonical(r) : r \in Upgrade!LatestOf({r \in old.profiles : r.app[1] # 0})}
      <4>1. CASE row \in Upgrade!SetAside(old.profiles) BY <3>3, <4>1
      <4>2. CASE row \notin Upgrade!SetAside(old.profiles)
        <5> DEFINE valid == {r \in old.profiles : r.app[1] # 0}
        <5>1. row.app[1] # 0 /\ row \in Upgrade!LatestOf(old.profiles) BY <4>2 DEF Upgrade!SetAside
        <5>2. row \in Upgrade!LatestOf(valid) BY <5>1 DEF Upgrade!LatestOf
        <5>3. Upgrade!Canonical(row) \in upgradeProfiles BY <3>3, <5>2
        <5>4. Upgrade!Canonical(row).id = row.id BY <3>1, CanonicalKeeps
        <5>5. Upgrade!Canonical(row) \in recovered => Upgrade!Canonical(row) = row
          <6>1. recovered \subseteq ProfileRows BY <3>1, <3>3 DEF Upgrade!SetAside
          <6> QED BY <3>1, <5>4, <6>1 DEF Upgrade!StoreUpgradeAssumption
        <5> QED BY <5>3, <5>4, <5>5
      <4> QED BY <4>1, <4>2
    <3> QED BY <1>3, <3>2, <3>3 DEF UpgradeInvariant, ProfilesAreSomewhere
  <2> QED BY <2>1, <2>2 DEF Upgrade!NothingLost
<1>4. ASSUME UpgradeInvariant PROVE Upgrade!LatestProfileWins
  <2> SUFFICES ASSUME phase = "open", NEW row \in old.profiles, row.app[1] # 0
               PROVE  \E kept \in upgradeProfiles :
                        /\ kept.app[1] = row.app[1] /\ kept.at >= row.at
                        /\ \A other \in upgradeProfiles : other.app[1] = kept.app[1] => other = kept
    BY DEF Upgrade!LatestProfileWins
  <2>1. 6 \in ledger /\ old.profiles \in SUBSET ProfileRows /\ row \in ProfileRows
    BY <1>4 DEF UpgradeInvariant, InOrder, ProfilesAreSomewhere, Upgrade!Versions
  <2>2. CASE /\ upgradeProfiles = old.profiles
             /\ \A a, b \in upgradeProfiles : a.app[1] # 0 /\ (a.app[1] = b.app[1] => a = b)
    <3>1. row.at >= row.at BY <2>1 DEF Upgrade!StoreUpgradeAssumption
    <3> QED BY <2>2, <3>1
  <2>3. CASE upgradeProfiles = {Upgrade!Canonical(r) : r \in Upgrade!LatestOf({r \in old.profiles : r.app[1] # 0})}
    <3> DEFINE valid == {r \in old.profiles : r.app[1] # 0}
    <3>1. valid \in SUBSET ProfileRows /\ row \in valid BY <2>1
    <3> HIDE DEF valid
    <3>2. PICK latest \in Upgrade!LatestOf(valid) : latest.app[1] = row.app[1] /\ latest.at >= row.at
      BY <3>1, OneIsLatest
    <3>3. Upgrade!LatestOf(valid) \subseteq ProfileRows BY <3>1 DEF Upgrade!LatestOf
    <3>4. upgradeProfiles = {Upgrade!Canonical(r) : r \in Upgrade!LatestOf(valid)} BY <2>3 DEF valid
    <3>5. Upgrade!Canonical(latest) \in upgradeProfiles BY <3>4
    <3>6. Upgrade!Canonical(latest).app[1] = row.app[1] /\ Upgrade!Canonical(latest).at >= row.at
      BY <3>2, <3>3, CanonicalKeeps
    <3>7. ASSUME NEW other \in upgradeProfiles, other.app[1] = Upgrade!Canonical(latest).app[1]
          PROVE  other = Upgrade!Canonical(latest)
      <4>1. PICK r \in Upgrade!LatestOf(valid) : other = Upgrade!Canonical(r) BY <3>4
      <4>2. r.app[1] = latest.app[1] BY <3>2, <3>3, <3>7, <4>1, CanonicalKeeps
      <4>3. r = latest BY <3>1, <4>2, OnlyOneIsLatest
      <4> QED BY <4>1, <4>3
    <3> QED BY <3>5, <3>6, <3>7
  <2> QED BY <1>4, <2>1, <2>2, <2>3 DEF UpgradeInvariant, ProfilesAreSomewhere
<1>5. ASSUME UpgradeInvariant PROVE Upgrade!OpenMeansUpgraded
  BY <1>5 DEF UpgradeInvariant, InOrder, NotesAreSomewhere, RulesAreSomewhere, SettingsAreSomewhere,
     Upgrade!OpenMeansUpgraded, Upgrade!Versions
<1>6. UpgradeInvariant => Upgrade!TypeOK BY DEF UpgradeInvariant
<1> QED BY <1>1, <1>2, <1>3, <1>4, <1>5, <1>6, PTL DEF Upgrade!Spec

\* However often launches end half way, and whoever else reads: plain text of a sealed
\* rule is left on the disk only where its truncation was missed, until the last
\* connection closes in order.
THEOREM PlainTextStaysOnlyIfMissed ==
  ASSUME Upgrade!StoreUpgradeAssumption PROVE Upgrade!Spec => []Upgrade!PlainTextOnlyIfMissed
<1>1. Upgrade!Init => UpgradeInvariant BY UpgradeStarts
<1>2. UpgradeInvariant /\ [Upgrade!Next]_(Upgrade!vars) => UpgradeInvariant' BY UpgradeStep
<1>3. UpgradeInvariant => Upgrade!PlainTextOnlyIfMissed
  BY DEF UpgradeInvariant, PlainTextIsBounded, Upgrade!PlainTextOnlyIfMissed
<1> QED BY <1>1, <1>2, <1>3, PTL DEF Upgrade!Spec

\* The database of a newer build is left as it is.
THEOREM NewerStaysUntouched ==
  ASSUME Upgrade!StoreUpgradeAssumption
  PROVE  Upgrade!Spec => [][Upgrade!NewerIsUntouched]_(Upgrade!vars)
<1>1. Upgrade!Init => UpgradeInvariant BY UpgradeStarts
<1>2. UpgradeInvariant /\ [Upgrade!Next]_(Upgrade!vars) => UpgradeInvariant' BY UpgradeStep
<1>3. UpgradeInvariant /\ [Upgrade!Next]_(Upgrade!vars) => [Upgrade!NewerIsUntouched]_(Upgrade!vars)
  BY DEF UpgradeInvariant, InOrder, PlainTextIsBounded, Upgrade!NewerIsUntouched, Upgrade!Next, Upgrade!Launch, Upgrade!SupportedLedger,
     Upgrade!Migrate, Upgrade!Migrated, Upgrade!NothingStaged, Upgrade!StagingDropped, Upgrade!TablesExchanged,
     Upgrade!Truncate, Upgrade!NormalizeSettings, Upgrade!Refuse, Upgrade!Quit, Upgrade!Closed, Upgrade!Interrupted,
     Upgrade!ReaderComesOrGoes, Upgrade!EncryptionComesOrGoes, Upgrade!tables
<1> QED BY <1>1, <1>2, <1>3, PTL DEF Upgrade!Spec

-----------------------------------------------------------------------------
(* The trail of diagnostics *)

CONSTANTS MaxBytes, MaxRecords, MaxClears, MaxFailures, MaxRestarts
VARIABLES current, previous, bytes, started, queue, pc, made, reading, awaits, asked, clears, failures,
  restarts, trailAnswer

Trail == INSTANCE DiagnosticsTrail WITH answer <- trailAnswer

Entries == {Trail!Clear} \union {Trail!Record(n) : n \in 1 .. made}

\* What the entry under way has done, and what is in the queue behind it.
AtWork ==
  /\ queue \in Seq(Entries) /\ made \in 0 .. MaxRecords
  /\ pc # "start" => queue # <<>>
  /\ pc \in {"room", "empty", "copy", "cut", "head", "append", "count"} => started /\ Head(queue).kind = "record"
  /\ pc = "cut" => previous = current
  /\ pc \in {"head", "second"} => current = <<>>
  /\ asked \in 0 .. made
  /\ reading = "waiting" =>
       \A i \in DOMAIN queue : i > awaits /\ queue[i].kind = "record" => queue[i].line > asked

\* The recorder is wrong about the file by the lines it could not count, and the file
\* exceeds its size by those and by the headers of new launches.
Counting ==
  /\ started => Len(current) <= bytes + failures + (IF pc = "count" THEN 1 ELSE 0)
  /\ pc \in {"append", "count"} => bytes + 1 <= MaxBytes
  /\ Len(current) <= MaxBytes + failures + restarts
  /\ ~started /\ current # <<>> => Len(current) + 1 <= MaxBytes + failures + restarts
  /\ Len(previous) <= MaxBytes + failures + restarts
  /\ failures \in Nat /\ restarts \in Nat

TrailInvariant == Trail!TypeOK /\ AtWork /\ Counting

-----------------------------------------------------------------------------
LEMMA TrailStarts == ASSUME Trail!TrailAssumption, Trail!Init PROVE TrailInvariant
<1>1. <<>> \in Seq(0 .. MaxRecords) /\ <<>> \in Seq(Entries) /\ Len(<<>>) = 0 /\ DOMAIN <<>> = {} OBVIOUS
<1>2. Trail!TypeOK
  <2>1. DOMAIN queue = {} /\ Len(queue) = 0 /\ awaits = 0 BY <1>1 DEF Trail!Init
  <2>3. started \in BOOLEAN BY DEF Trail!Init
  <2>4. \A i \in DOMAIN queue : queue[i] = Trail!Clear \/ \E n \in 1..made : queue[i] = Trail!Record(n)
    BY <2>1
  <2>2. current \in Seq(0 .. MaxRecords) /\ previous \in Seq(0 .. MaxRecords) BY <1>1 DEF Trail!Init
  <2> QED BY <2>1, <2>2, <2>3, <2>4 DEF Trail!Init, Trail!TypeOK
<1>3. AtWork BY <1>1 DEF Trail!Init, AtWork, Trail!TrailAssumption
<1>4. Counting BY <1>1 DEF Trail!Init, Counting, Trail!TrailAssumption
<1> QED BY <1>2, <1>3, <1>4 DEF TrailInvariant

\* The entry under way leaves the queue: the others and the reading move up.
LEMMA QueueMovesUp ==
  ASSUME TrailInvariant, queue # <<>>, Trail!Finish, UNCHANGED <<made, reading, asked>>
  PROVE  /\ queue' \in Seq(Entries') /\ pc' = "start" /\ awaits' \in 0 .. Len(queue')
         /\ \A i \in DOMAIN queue' : queue'[i] = Trail!Clear \/ \E n \in 1 .. made' : queue'[i] = Trail!Record(n)
         /\ asked' \in 0 .. made' /\ made' \in 0 .. MaxRecords /\ pc' = "start"
         /\ reading' = "waiting" =>
              \A i \in DOMAIN queue' : i > awaits' /\ queue'[i].kind = "record" => queue'[i].line > asked'
<1> USE DEF TrailInvariant, Trail!TypeOK, AtWork
<1>1. Entries' = Entries BY DEF Entries
<1>2. queue' = Tail(queue) /\ Len(queue') = Len(queue) - 1 /\ Len(queue) \in Nat \ {0}
      /\ queue' \in Seq(Entries) /\ \A i \in 1 .. Len(queue') : queue'[i] = queue[i + 1]
  BY DEF Trail!Finish
<1>3. awaits' = IF awaits > 0 THEN awaits - 1 ELSE 0 BY DEF Trail!Finish
<1>4. DOMAIN queue = 1 .. Len(queue) /\ DOMAIN queue' = 1 .. Len(queue') BY <1>2
<1>5. ASSUME NEW i \in DOMAIN queue' PROVE i + 1 \in DOMAIN queue /\ queue'[i] = queue[i + 1]
  BY <1>2, <1>4
<1>6. ASSUME NEW i \in DOMAIN queue'
      PROVE  queue'[i] = Trail!Clear \/ \E n \in 1 .. made' : queue'[i] = Trail!Record(n)
  BY <1>5
<1>7. ASSUME reading' = "waiting", NEW i \in DOMAIN queue', i > awaits', queue'[i].kind = "record"
      PROVE  queue'[i].line > asked'
  BY <1>3, <1>4, <1>5, <1>7
<1>8. awaits' \in 0 .. Len(queue') BY <1>2, <1>3
<1> QED BY <1>1, <1>2, <1>6, <1>7, <1>8 DEF Trail!Finish

LEMMA TrailStep ==
  ASSUME Trail!TrailAssumption, TrailInvariant, [Trail!Next]_(Trail!vars) PROVE TrailInvariant'
<1> USE DEF TrailInvariant, Trail!files, Trail!view, Trail!bounds
<1>0. MaxBytes \in Nat /\ MaxBytes > 1 /\ MaxRecords \in Nat BY DEF Trail!TrailAssumption
<1>a. /\ Len(current) \in Nat /\ Len(previous) \in Nat /\ Len(<<>>) = 0
      /\ Append(current, 0) \in Seq(0 .. MaxRecords) /\ <<>> \in Seq(0 .. MaxRecords)
      /\ Len(Append(current, 0)) = Len(current) + 1
      /\ made \in Nat /\ bytes \in Nat
  BY <1>0 DEF Trail!TypeOK, AtWork
<1> USE <1>0, <1>a
<1>1. CASE Trail!Make
  <2> USE <1>1 DEF Trail!Make
  <2>1. queue' = Append(queue, Trail!Record(made + 1)) /\ made' \in Nat /\ made' >= made /\ made' <= MaxRecords
        /\ Trail!Record(made + 1) \in Entries' /\ Entries \subseteq Entries'
    BY DEF Entries, AtWork
  <2>2. queue' \in Seq(Entries') /\ Len(queue') = Len(queue) + 1 /\ Len(queue) \in Nat /\ queue' # <<>>
        /\ (\A i \in 1 .. Len(queue) : queue'[i] = queue[i]) /\ queue'[Len(queue) + 1] = Trail!Record(made + 1)
        /\ DOMAIN queue = 1 .. Len(queue) /\ DOMAIN queue' = 1 .. (Len(queue) + 1)
    <3>1. queue \in Seq(Entries') BY <2>1 DEF AtWork
    <3> QED BY <2>1, <3>1
  <2>3. ASSUME NEW i \in DOMAIN queue'
        PROVE  queue'[i] = Trail!Clear \/ \E n \in 1 .. made' : queue'[i] = Trail!Record(n)
    BY <2>1, <2>2 DEF Trail!TypeOK
  <2>4. Trail!TypeOK' BY <2>2, <2>3 DEF Trail!TypeOK
  <2>5. Head(queue') = (IF queue = <<>> THEN Trail!Record(made + 1) ELSE Head(queue))
    BY <2>2 DEF AtWork
  <2>6. ASSUME reading' = "waiting", NEW i \in DOMAIN queue', i > awaits', queue'[i].kind = "record"
        PROVE  queue'[i].line > asked'
    BY <2>1, <2>2, <2>6 DEF AtWork, Trail!Clear, Trail!Record
  <2>7. AtWork' BY <2>1, <2>2, <2>5, <2>6 DEF AtWork
  <2>8. Counting' BY DEF Counting
  <2> QED BY <2>4, <2>7, <2>8
<1>2. CASE Trail!AskClear
  <2> USE <1>2 DEF Trail!AskClear
  <2>1. queue' = Append(queue, Trail!Clear) /\ made' \in Nat /\ made' >= made /\ made' <= MaxRecords
        /\ Trail!Clear \in Entries' /\ Entries \subseteq Entries'
    BY DEF Entries, AtWork
  <2>2. queue' \in Seq(Entries') /\ Len(queue') = Len(queue) + 1 /\ Len(queue) \in Nat /\ queue' # <<>>
        /\ (\A i \in 1 .. Len(queue) : queue'[i] = queue[i]) /\ queue'[Len(queue) + 1] = Trail!Clear
        /\ DOMAIN queue = 1 .. Len(queue) /\ DOMAIN queue' = 1 .. (Len(queue) + 1)
    <3>1. queue \in Seq(Entries') BY <2>1 DEF AtWork
    <3> QED BY <2>1, <3>1
  <2>3. ASSUME NEW i \in DOMAIN queue'
        PROVE  queue'[i] = Trail!Clear \/ \E n \in 1 .. made' : queue'[i] = Trail!Record(n)
    BY <2>1, <2>2 DEF Trail!TypeOK
  <2>4. Trail!TypeOK' BY <2>2, <2>3 DEF Trail!TypeOK
  <2>5. Head(queue') = (IF queue = <<>> THEN Trail!Clear ELSE Head(queue))
    BY <2>2 DEF AtWork
  <2>6. ASSUME reading' = "waiting", NEW i \in DOMAIN queue', i > awaits', queue'[i].kind = "record"
        PROVE  queue'[i].line > asked'
    BY <2>1, <2>2, <2>6 DEF AtWork, Trail!Clear, Trail!Record
  <2>7. AtWork' BY <2>1, <2>2, <2>5, <2>6 DEF AtWork
  <2>8. Counting' BY DEF Counting
  <2> QED BY <2>4, <2>7, <2>8
<1>3. CASE Trail!AskRead
  <2> USE <1>3 DEF Trail!AskRead, Trail!WaitsFor
  <2>1. Entries' = Entries BY DEF Entries
  <2>2. Trail!TypeOK' BY <2>1 DEF Trail!TypeOK, AtWork, Counting
  <2>3. AtWork' BY <2>1 DEF Trail!TypeOK, AtWork
  <2>4. Counting' BY DEF Counting, Trail!TypeOK, AtWork
  <2> QED BY <2>2, <2>3, <2>4
<1>4. CASE Trail!ReadPrevious
  <2> USE <1>4 DEF Trail!ReadPrevious
  <2>1. Entries' = Entries BY DEF Entries
  <2>2. Trail!TypeOK' BY <2>1 DEF Trail!TypeOK, AtWork, Counting
  <2>3. AtWork' BY <2>1 DEF Trail!TypeOK, AtWork
  <2>4. Counting' BY DEF Counting, Trail!TypeOK, AtWork
  <2> QED BY <2>2, <2>3, <2>4
<1>5. CASE Trail!ReadCurrent
  <2> USE <1>5 DEF Trail!ReadCurrent
  <2>1. Entries' = Entries BY DEF Entries
  <2>2. Trail!TypeOK' BY <2>1 DEF Trail!TypeOK, AtWork, Counting
  <2>3. AtWork' BY <2>1 DEF Trail!TypeOK, AtWork
  <2>4. Counting' BY DEF Counting, Trail!TypeOK, AtWork
  <2> QED BY <2>2, <2>3, <2>4
<1>6. CASE Trail!Start
  <2> USE <1>6 DEF Trail!Start, Trail!Busy, Trail!BytesFound, Trail!Header
  <2>1. Entries' = Entries BY DEF Entries
  <2>2. Trail!TypeOK'
    <3>1. CASE started BY <3>1 DEF Trail!TypeOK
    <3>2. CASE ~started
      <4>0. current' = Append(current, 0) /\ bytes' = Len(current) + 1 BY <3>2
      <4>1. current' \in Seq(0 .. MaxRecords) /\ bytes' \in Nat BY <4>0
      <4>2. started' \in BOOLEAN BY <3>2
      <4> QED BY <4>1, <4>2 DEF Trail!TypeOK
    <3> QED BY <3>1, <3>2
  <2>3. AtWork' BY <2>1 DEF Trail!TypeOK, AtWork
  <2>4. Counting' BY DEF Counting, Trail!TypeOK, AtWork
  <2> QED BY <2>2, <2>3, <2>4
<1>7. CASE Trail!Room
  <2> USE <1>7 DEF Trail!Room
  <2>1. Entries' = Entries BY DEF Entries
  <2>2. Trail!TypeOK' BY <2>1 DEF Trail!TypeOK, AtWork, Counting
  <2>3. AtWork' BY <2>1 DEF Trail!TypeOK, AtWork
  <2>4. Counting' BY DEF Counting, Trail!TypeOK, AtWork
  <2> QED BY <2>2, <2>3, <2>4
<1>8. CASE Trail!EmptyPrevious
  <2> USE <1>8 DEF Trail!EmptyPrevious, Trail!Order
  <2>1. Entries' = Entries BY DEF Entries
  <2>2. Trail!TypeOK' BY <2>1 DEF Trail!TypeOK, AtWork, Counting
  <2>3. AtWork' BY <2>1 DEF Trail!TypeOK, AtWork
  <2>4. Counting' BY DEF Counting, Trail!TypeOK, AtWork
  <2> QED BY <2>2, <2>3, <2>4
<1>9. CASE Trail!CopyTrail
  <2> USE <1>9 DEF Trail!CopyTrail, Trail!Order
  <2>1. Entries' = Entries BY DEF Entries
  <2>2. Trail!TypeOK' BY <2>1 DEF Trail!TypeOK, AtWork, Counting
  <2>3. AtWork' BY <2>1 DEF Trail!TypeOK, AtWork
  <2>4. Counting' BY DEF Counting, Trail!TypeOK, AtWork
  <2> QED BY <2>2, <2>3, <2>4
<1>10. CASE Trail!CutCurrent
  <2> USE <1>10 DEF Trail!CutCurrent, Trail!Order
  <2>1. Entries' = Entries BY DEF Entries
  <2>2. Trail!TypeOK' BY <2>1 DEF Trail!TypeOK, AtWork, Counting
  <2>3. AtWork' BY <2>1 DEF Trail!TypeOK, AtWork
  <2>4. Counting' BY DEF Counting, Trail!TypeOK, AtWork
  <2> QED BY <2>2, <2>3, <2>4
<1>11. CASE Trail!WriteHeader
  <2> USE <1>11 DEF Trail!WriteHeader, Trail!Order, Trail!Header
  <2>1. Entries' = Entries BY DEF Entries
  <2>2. Trail!TypeOK' BY <2>1 DEF Trail!TypeOK, AtWork, Counting
  <2>3. AtWork' BY <2>1 DEF Trail!TypeOK, AtWork
  <2>4. Counting' BY DEF Counting, Trail!TypeOK, AtWork
  <2> QED BY <2>2, <2>3, <2>4
<1>12. CASE Trail!AppendLine
  <2> USE <1>12 DEF Trail!AppendLine
  <2>1. Entries' = Entries BY DEF Entries
  <2>2. Trail!TypeOK'
    <3>1. Head(queue) = queue[1] /\ 1 \in DOMAIN queue BY DEF AtWork
    <3>2. Head(queue).line \in 0 .. MaxRecords
      BY <3>1 DEF Trail!TypeOK, AtWork, Trail!Clear, Trail!Header, Trail!Record
    <3>3. current' \in Seq(0 .. MaxRecords) BY <3>2 DEF Trail!TypeOK
    <3> QED BY <3>3 DEF Trail!TypeOK
  <2>3. AtWork' BY <2>1 DEF Trail!TypeOK, AtWork
  <2>4. Counting' BY DEF Counting, Trail!TypeOK, AtWork
  <2> QED BY <2>2, <2>3, <2>4
<1>13. CASE Trail!Count
  <2> USE <1>13 DEF Trail!Count
  <2>1. queue # <<>> /\ Trail!Finish /\ UNCHANGED <<made, reading, asked>> BY DEF AtWork
  <2>2. Trail!TypeOK' BY <2>1, QueueMovesUp DEF Trail!TypeOK
  <2>3. AtWork' BY <2>1, QueueMovesUp DEF AtWork
  <2>4. Counting' BY <2>1, QueueMovesUp DEF Counting, Trail!TypeOK, AtWork
  <2> QED BY <2>2, <2>3, <2>4
<1>14. CASE Trail!ClearCurrent
  <2> USE <1>14 DEF Trail!ClearCurrent, Trail!Busy
  <2>1. Entries' = Entries BY DEF Entries
  <2>2. Trail!TypeOK' BY <2>1 DEF Trail!TypeOK, AtWork, Counting
  <2>3. AtWork' BY <2>1 DEF Trail!TypeOK, AtWork
  <2>4. Counting' BY DEF Counting, Trail!TypeOK, AtWork
  <2> QED BY <2>2, <2>3, <2>4
<1>15. CASE Trail!ClearPrevious
  <2> USE <1>15 DEF Trail!ClearPrevious, Trail!PreviousCleared
  <2>1. queue # <<>> /\ Trail!Finish /\ UNCHANGED <<made, reading, asked>> BY DEF AtWork
  <2>2. Trail!TypeOK' BY <2>1, QueueMovesUp DEF Trail!TypeOK
  <2>3. AtWork' BY <2>1, QueueMovesUp DEF AtWork
  <2>4. Counting' BY <2>1, QueueMovesUp DEF Counting, Trail!TypeOK, AtWork
  <2> QED BY <2>2, <2>3, <2>4
<1>16. CASE Trail!Fail
  <2> USE <1>16 DEF Trail!Fail, Trail!DropFailed
  <2>1. queue # <<>> /\ Trail!Finish /\ UNCHANGED <<made, reading, asked>> BY DEF AtWork
  <2>2. Trail!TypeOK' BY <2>1, QueueMovesUp DEF Trail!TypeOK
  <2>3. AtWork' BY <2>1, QueueMovesUp DEF AtWork
  <2>4. Counting' BY <2>1, QueueMovesUp DEF Counting, Trail!TypeOK, AtWork
  <2> QED BY <2>2, <2>3, <2>4
<1>17. CASE Trail!Restart
  <2> USE <1>17 DEF Trail!Restart
  <2>1. Entries' = Entries BY DEF Entries
  <2>2. Trail!TypeOK'
    <3>1. DOMAIN queue' = {} OBVIOUS
    <3>2. Len(queue') = 0 /\ awaits' = 0 /\ bytes' = 0 OBVIOUS
    <3>3. started' \in BOOLEAN OBVIOUS
    <3>4. \A i \in DOMAIN queue' : queue'[i] = Trail!Clear \/ \E n \in 1..made' : queue'[i] = Trail!Record(n)
      BY <3>1
    <3> QED BY <3>2, <3>3, <3>4 DEF Trail!TypeOK
  <2>3. AtWork' BY <2>1 DEF Trail!TypeOK, AtWork
  <2>4. Counting' BY DEF Counting, Trail!TypeOK, AtWork
  <2> QED BY <2>2, <2>3, <2>4
<1>18. CASE UNCHANGED Trail!vars
  <2>1. Entries' = Entries BY <1>18 DEF Entries, Trail!vars
  <2> QED BY <1>18, <2>1 DEF Trail!vars, Trail!TypeOK, AtWork, Counting
<1> QED BY <1>1, <1>2, <1>3, <1>4, <1>5, <1>6, <1>7, <1>8, <1>9, <1>10, <1>11, <1>12, <1>13, <1>14, <1>15, <1>16, <1>17, <1>18 DEF Trail!Next, Trail!Work, Trail!Rotate

LEMMA TrailInvariantHolds == ASSUME Trail!TrailAssumption PROVE Trail!Spec => []TrailInvariant
<1>1. Trail!Init => TrailInvariant BY TrailStarts
<1>2. TrailInvariant /\ [Trail!Next]_(Trail!vars) => TrailInvariant' BY TrailStep
<1> QED BY <1>1, <1>2, PTL DEF Trail!Spec

\* However many records, launches and failures: each file of the diagnostics exceeds its
\* size by a line for each of the failures and of the launches at most.
THEOREM TrailStaysBounded ==
  ASSUME Trail!TrailAssumption PROVE Trail!Spec => [](Trail!TypeOK /\ Trail!TrailIsBounded)
<1>1. TrailInvariant => Trail!TypeOK /\ Trail!TrailIsBounded
  BY DEF TrailInvariant, Trail!TypeOK, Counting, Trail!TrailIsBounded, Trail!TrailAssumption
<1> QED BY <1>1, TrailInvariantHolds, PTL

\* No interrupted rotation loses a line of the current file, what was cleared is gone, and
\* a reading comes after everything that was recorded before it.
THEOREM TrailIsTrue ==
  ASSUME Trail!TrailAssumption
  PROVE  Trail!Spec => [][Trail!RecentLinesStay /\ Trail!ClearedIsGone /\ Trail!ReadIsUpToDate]_(Trail!vars)
<1>1. TrailInvariant /\ [Trail!Next]_(Trail!vars)
      => [Trail!RecentLinesStay /\ Trail!ClearedIsGone /\ Trail!ReadIsUpToDate]_(Trail!vars)
  <2> SUFFICES ASSUME TrailInvariant, Trail!Next
               PROVE  Trail!RecentLinesStay /\ Trail!ClearedIsGone /\ Trail!ReadIsUpToDate
    OBVIOUS
  <2> USE DEF TrailInvariant, Trail!files, Trail!view, Trail!bounds
  <2>0. MaxRecords \in Nat BY DEF Trail!TrailAssumption
  <2>1. Trail!Records(<<>>) = {} BY DEF Trail!Records, Trail!ToSet
  <2>2. ASSUME NEW x \in 0 .. MaxRecords
        PROVE  Trail!Records(current) \subseteq Trail!Records(Append(current, x))
    BY <2>2 DEF Trail!TypeOK, Trail!Records, Trail!ToSet
  <2>3. CASE Trail!ClearCurrent
    BY <2>3 DEF Trail!ClearCurrent, Trail!RecentLinesStay, Trail!ClearedIsGone, Trail!ReadIsUpToDate
  <2>4. CASE Trail!ClearPrevious
    BY <2>1, <2>4 DEF Trail!ClearPrevious, Trail!PreviousCleared, Trail!RecentLinesStay, Trail!ClearedIsGone,
       Trail!ReadIsUpToDate, AtWork
  <2>5. CASE Trail!CutCurrent
    BY <2>5 DEF Trail!CutCurrent, Trail!RecentLinesStay, Trail!ClearedIsGone, Trail!ReadIsUpToDate, AtWork
  <2>6. CASE Trail!AppendLine
    <3>1. Head(queue) = queue[1] /\ 1 \in DOMAIN queue BY <2>6 DEF Trail!AppendLine, AtWork
    <3>2. Head(queue).line \in 0 .. MaxRecords
      BY <2>0, <3>1 DEF Trail!TypeOK, AtWork, Trail!Clear, Trail!Header, Trail!Record
    <3> QED BY <2>2, <2>6, <3>2 DEF Trail!AppendLine, Trail!RecentLinesStay, Trail!ClearedIsGone, Trail!ReadIsUpToDate
  <2>7. CASE Trail!Start \/ Trail!WriteHeader
    <3>1. 0 \in 0 .. MaxRecords BY <2>0
    <3>2. Trail!Records(current) \subseteq Trail!Records(current')
      BY <2>2, <2>7, <3>1 DEF Trail!Start, Trail!WriteHeader, Trail!Header
    <3> QED BY <2>7, <3>2 DEF Trail!Start, Trail!WriteHeader, Trail!RecentLinesStay, Trail!ClearedIsGone, Trail!ReadIsUpToDate
  <2>8. CASE Trail!ReadPrevious
    BY <2>8 DEF Trail!ReadPrevious, Trail!RecentLinesStay, Trail!ClearedIsGone, Trail!ReadIsUpToDate, AtWork
  <2>9. CASE \/ Trail!Make \/ Trail!AskClear \/ Trail!AskRead \/ Trail!ReadCurrent \/ Trail!Room \/ Trail!EmptyPrevious
             \/ Trail!CopyTrail \/ Trail!Count \/ Trail!Fail \/ Trail!Restart
    BY <2>9 DEF Trail!Make, Trail!AskClear, Trail!AskRead, Trail!ReadCurrent, Trail!Room, Trail!EmptyPrevious,
       Trail!CopyTrail, Trail!Count, Trail!Fail, Trail!Restart, Trail!RecentLinesStay, Trail!ClearedIsGone,
       Trail!ReadIsUpToDate
  <2> QED BY <2>3, <2>4, <2>5, <2>6, <2>7, <2>8, <2>9 DEF Trail!Next, Trail!Work, Trail!Rotate
<1> QED BY <1>1, TrailInvariantHolds, PTL DEF Trail!Spec
=============================================================================
