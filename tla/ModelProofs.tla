----------------------------- MODULE ModelProofs -----------------------------
(***************************************************************************)
(* What holds of the files of a model, for any number of everything.       *)
(*                                                                         *)
(* Its verification (ModelFiles).  For any files, verifications and        *)
(* probes, however many of them run at once and whatever is written,       *)
(* replaced or backdated meanwhile: a digest that is remembered for a file *)
(* is that of its content, "verified" means an exact artifact, and an      *)
(* exact artifact is never refused.                                        *)
(*                                                                         *)
(* The argument is about change times.  No time an inode or a stamp bears  *)
(* is later than the clock (Clocks, Memos, Looks), and every write of an   *)
(* inode gives it a later one; so a stamp that still is an inode's         *)
(* identity was taken of what the inode holds now, and the blocks read     *)
(* under it are the inode's (Looks).  What a run has counted is exact as   *)
(* long as nothing changed since it began (Counted).                       *)
(*                                                                         *)
(* Its installation (ModelInstall).  However often the process ends and    *)
(* the disk fails: only a verified directory is loaded, "installed" means  *)
(* installed, and a good copy is not lost while at most two reads of a     *)
(* valid directory fail.  The recovery sees every transaction of ours      *)
(* before anything new begins (NoneForgotten), and nothing else (Ours).    *)
(* A good copy is set aside only because a read of it failed (Costs), and  *)
(* discarded only when another one was seen or a second read failed        *)
(* (Kept); the fault that would lose the last copy is the third.           *)
(***************************************************************************)
EXTENDS ModelFiles, FiniteSetTheorems, SequenceTheorems, TLAPS

Sound ==
  /\ place \in {"none", "link", "directory"} /\ extra \in {"none", "sidecar", "foreign"}
  /\ path \in [Files -> Inodes \union {NoInode}]
  /\ inode \in [Inodes -> [data : BOOLEAN \X BOOLEAN, size : BOOLEAN, mtime : 0 .. MaxClock, ctime : 0 .. MaxClock]]
  /\ clock \in 0 .. MaxClock
  /\ memo \in [Files -> [stamp : Stamps, digest : BOOLEAN]]
  /\ at \in [Runners -> {"idle", "entries", "next", "opened", "first", "second", "after"}]
  /\ file \in [Runners -> Files \union {NoFile}] /\ handle \in [Runners -> Inodes \union {NoInode}]
  /\ stamp \in [Runners -> Stamps] /\ read \in [Runners -> Seq(BOOLEAN)] /\ exact \in [Runners -> BOOLEAN]
  /\ todo \in [Runners -> SUBSET Files] /\ good \in [Runners -> SUBSET Files]
  /\ verdict \in [Runners -> {"none", "missing", "invalid", "verified"}]
  /\ dirty \in [Runners -> BOOLEAN] /\ runs \in [Runners -> 0 .. MaxRuns]

Bounded == Cardinality({f \in Files : memo[f] # NoMemo}) <= Limit

Reading == {"first", "second", "after"}
Under(r) == at[r] \in Reading \union {"opened"}
Exact(f) == Present(f) /\ inode[path[f]].size /\ inode[path[f]].data = Right

Clocks == \A i \in Inodes : inode[i].ctime <= clock

Memos == \A f \in Files :
  /\ memo[f].stamp.ctime <= clock
  /\ \A i \in Inodes : memo[f].stamp = Identity(i) => (memo[f].digest <=> inode[i].data = Right)

\* The blocks read under a stamp that is still the inode's identity are the inode's.
Looks(r) ==
  /\ Under(r) => file[r] \in Files /\ handle[r] \in Inodes /\ r \in Verifiers
  /\ at[r] \notin Reading => read[r] = <<>>
  /\ at[r] \in Reading =>
       /\ stamp[r].ino = handle[r] /\ stamp[r].ctime <= clock
       /\ stamp[r] = Identity(handle[r]) =>
            LET data == inode[handle[r]].data
            IN  /\ at[r] = "first"  => read[r] = <<>>
                /\ at[r] = "second" => read[r] = <<data[1]>>
                /\ at[r] = "after"  => read[r] = <<data[1], data[2]>>

\* What an undisturbed run has counted is what is exact of the files it has seen.
Counted(r) ==
  ~ dirty[r] /\ at[r] \notin {"idle", "entries"} =>
    /\ place = "directory" /\ (exact[r] <=> EntriesMatch)
    /\ Under(r) => handle[r] = path[file[r]] /\ file[r] \notin todo[r]
    /\ at[r] \in Reading => stamp[r] = Identity(handle[r])
    /\ r \in Verifiers => \A f \in Files :
         f \in good[r] <=> f \notin todo[r] /\ ~ (Under(r) /\ f = file[r]) /\ Exact(f)
    /\ r \in Probes => at[r] = "next" /\ exact[r] /\ \A f \in Files \ todo[r] : Exact(f)

Fresh(r) ==
  /\ at[r] \in {"idle", "entries"} => good[r] = {}
  /\ at[r] = "entries" => todo[r] = Files

Says(r) ==
  ~ dirty[r] =>
    /\ verdict[r] = "verified" => Whole
    /\ r \in Verifiers => (verdict[r] = "invalid" => ~ Whole) /\ (verdict[r] = "missing" => place = "none")

RunIsSound(r) == Looks(r) /\ Counted(r) /\ Fresh(r) /\ Says(r)
Inv == Sound /\ Bounded /\ Clocks /\ Memos /\ \A r \in Runners : RunIsSound(r)

-----------------------------------------------------------------------------
LEMMA Numbers == Cardinality(Files) \in Nat /\ MaxClock \in Nat /\ Inodes \subseteq Nat \ {0}
<1>1. Cardinality(Files) \in Nat  BY FilesAssumption, FS_CardinalityType DEF FilesAssumption
<1> QED  BY <1>1, FilesAssumption DEF FilesAssumption, Inodes

LEMMA DiskKept ==
  ASSUME UNCHANGED disk
  PROVE  /\ place' = place /\ path' = path /\ (EntriesMatch' <=> EntriesMatch) /\ (Whole' <=> Whole)
         /\ \A f \in Files : Exact(f)' <=> Exact(f)
         /\ \A i \in Inodes : Identity(i)' = Identity(i)
BY DEF disk, EntriesMatch, Tolerated, Whole, Exact, Present, Identity

\* Where nothing on the disk changes, a run that does not move stays sound.
LEMMA Resting ==
  ASSUME NEW s \in Runners, RunIsSound(s), UNCHANGED disk,
         at'[s] = at[s], todo'[s] = todo[s], file'[s] = file[s], handle'[s] = handle[s],
         stamp'[s] = stamp[s], read'[s] = read[s], exact'[s] = exact[s], good'[s] = good[s],
         verdict'[s] = verdict[s], dirty'[s] = dirty[s]
  PROVE  RunIsSound(s)'
<1>1. Looks(s)'    BY DEF RunIsSound, Looks, Under, Identity, disk
<1>2. Counted(s)'  BY DEF RunIsSound, Counted, Under, Exact, Present, EntriesMatch, Tolerated, Identity, disk
<1>3. Fresh(s)'    BY DEF RunIsSound, Fresh
<1>4. Says(s)'     BY DEF RunIsSound, Says, Whole, Present, disk
<1> QED  BY <1>1, <1>2, <1>3, <1>4 DEF RunIsSound

\* Only r moves, and nothing on the disk.
Moves(r) ==
  /\ UNCHANGED disk
  /\ \A s \in Runners \ {r} :
       /\ at'[s] = at[s] /\ todo'[s] = todo[s] /\ file'[s] = file[s] /\ handle'[s] = handle[s]
       /\ stamp'[s] = stamp[s] /\ read'[s] = read[s] /\ exact'[s] = exact[s] /\ good'[s] = good[s]
       /\ verdict'[s] = verdict[s] /\ dirty'[s] = dirty[s]

\* A look that goes on to the files, and what a look at the directory finds.
Enters(r) ==
  /\ place = "directory" /\ (r \in Probes => EntriesMatch)
  /\ exact' = [exact EXCEPT ![r] = EntriesMatch] /\ Step(r, "next")
  /\ UNCHANGED <<todo, file, handle, stamp, read, good, verdict>>
Finds(r) ==
  /\ at[r] = "entries" /\ UNCHANGED <<disk, memo, dirty, runs>>
  /\ \/ /\ \E v \in {"invalid", "missing"} : Answers(r, v) /\ (v = "missing" => place = "none")
        /\ place = "directory" => r \notin Verifiers /\ ~ EntriesMatch
     \/ Enters(r)

LEMMA LookFinds == ASSUME Sound, NEW r \in Runners, Look(r) PROVE Finds(r)
<1>1. CASE place = "none"
  <2>1. Answers(r, IF r \in Probes THEN "invalid" ELSE "missing") /\ at[r] = "entries"  BY <1>1, Zenon DEF Look
  <2>2. CASE r \in Probes  BY <1>1, <2>1, <2>2 DEF Finds, Look
  <2>3. CASE r \notin Probes  BY <1>1, <2>1, <2>3 DEF Finds, Look
  <2> QED  BY <2>2, <2>3
<1>2. CASE place = "link"
  <2>1. Answers(r, "invalid") /\ at[r] = "entries"  BY <1>2 DEF Look
  <2> QED  BY <1>2, <2>1 DEF Finds, Look
<1>3. CASE place = "directory"
  BY <1>3, FilesAssumption DEF FilesAssumption, Look, Finds, Enters, Runners
<1> QED  BY <1>1, <1>2, <1>3 DEF Sound

LEMMA EntriesBoolean == EntriesMatch \in BOOLEAN
BY DEF EntriesMatch

LEMMA RunMoves == ASSUME Sound, NEW r \in Runners, Runs(r) PROVE Moves(r)
<1>1. CASE StartRun(r)  BY <1>1 DEF StartRun, Step, Sound, Moves
<1>2. CASE Look(r)
  <2>1. Finds(r)  BY <1>2, LookFinds
  <2>2. CASE Enters(r)  BY <2>1, <2>2 DEF Finds, Enters, Step, Sound, Moves
  <2>3. CASE ~ Enters(r)  BY <2>1, <2>3 DEF Finds, Answers, Step, Sound, Moves
  <2> QED  BY <2>2, <2>3
<1>3. CASE Check(r)     BY ZenonT(40), <1>3 DEF Check, Skip, Counts, Step, Sound, Moves
<1>4. CASE ReadBlock(r) BY <1>4 DEF ReadBlock, Step, Sound, Moves
<1>5. CASE Record(r)    BY <1>5 DEF Record, Skip, Counts, Step, Sound, Moves
<1>6. CASE Conclude(r)  BY <1>6 DEF Conclude, Answers, Step, Sound, Moves
<1>7. CASE \E f \in Files : Ask(r, f) \/ Open(r, f)
  BY <1>7 DEF Ask, Open, Answers, Step, Sound, Moves
<1> QED  BY <1>1, <1>2, <1>3, <1>4, <1>5, <1>6, <1>7 DEF Runs

\* A step of a run that leaves the memory alone keeps everything but what is said of the run itself.
LEMMA QuietStep ==
  ASSUME Inv, NEW r \in Runners, Runs(r), UNCHANGED memo, Sound', RunIsSound(r)'
  PROVE  Inv'
<1>1. Moves(r)  BY RunMoves DEF Inv
<1>2. \A s \in Runners \ {r} : RunIsSound(s)'  BY <1>1, Resting DEF Moves, Inv
<1>3. Bounded' /\ Clocks' /\ Memos'
  BY <1>1 DEF Moves, Inv, Bounded, Clocks, Memos, Identity, disk
<1> QED  BY <1>2, <1>3 DEF Inv

-----------------------------------------------------------------------------
LEMMA StartStep == ASSUME Inv, NEW r \in Runners, StartRun(r) PROVE Inv'
<1>1. Sound'  BY FilesAssumption DEF FilesAssumption, Inv, Sound, StartRun, Step, disk
<1>2. RunIsSound(r)'
  <2>1. /\ at'[r] = "entries" /\ todo'[r] = Files /\ good'[r] = good[r] /\ read'[r] = read[r]
        /\ verdict'[r] = "none" /\ at[r] = "idle"
    BY DEF Inv, Sound, StartRun, Step
  <2> QED  BY <2>1 DEF Inv, RunIsSound, Looks, Under, Reading, Counted, Fresh, Says
<1> QED  BY <1>1, <1>2, QuietStep DEF StartRun, Runs

LEMMA LookStep == ASSUME Inv, NEW r \in Runners, Look(r) PROVE Inv'
<1>1. Finds(r)  BY LookFinds DEF Inv
<1>2. CASE Enters(r)
  <2>1. Sound'  BY <1>1, <1>2, EntriesBoolean DEF Inv, Sound, Finds, Enters, Step, disk
  <2>2. Looks(r)' /\ Fresh(r)' /\ Says(r)'
    BY <1>1, <1>2 DEF Inv, Sound, Finds, Enters, Step, RunIsSound, Looks, Fresh, Says, Under, Reading, Whole, Present, disk
  <2>3. at'[r] = "next" /\ (exact'[r] <=> EntriesMatch) /\ todo'[r] = Files /\ good'[r] = {}
    BY <1>1, <1>2, EntriesBoolean DEF Inv, Sound, Finds, Enters, Step, RunIsSound, Fresh
  <2>4. (EntriesMatch <=> EntriesMatch') /\ place' = place /\ (r \in Probes => EntriesMatch) /\ place = "directory"
    BY <1>1, <1>2 DEF Finds, Enters, EntriesMatch, Tolerated, Present, disk
  <2>5. Counted(r)'
    BY <2>3, <2>4 DEF Counted, Under, Reading
  <2> QED  BY <1>1, <2>1, <2>2, <2>5, QuietStep DEF Finds, Runs, RunIsSound
<1>3. CASE ~ Enters(r)
  <2> PICK v \in {"invalid", "missing"} : Answers(r, v) /\ (v = "missing" => place = "none")
    BY <1>1, <1>3 DEF Finds
  <2>1. Sound'  BY SMTT(30), <1>1, Numbers DEF Inv, Sound, Finds, Answers, Step, disk, Stamps, NoStamp, NoInode
  <2>2. Looks(r)' /\ Fresh(r)' /\ Counted(r)'
    BY <1>1 DEF Inv, Sound, Finds, Answers, Step, Looks, Under, Reading, Fresh, Counted
  <2>3. Says(r)'
    BY <1>1, <1>3 DEF Inv, Sound, Finds, Answers, Step, RunIsSound, Says, Whole, EntriesMatch, Tolerated, disk
  <2> QED  BY <1>1, <2>1, <2>2, <2>3, QuietStep DEF Finds, Runs, RunIsSound
<1> QED  BY <1>2, <1>3

\* What the memory says of a file as it lies at its path.
LEMMA KnownIsTrue ==
  ASSUME Sound, Memos, NEW f \in Files, Present(f), memo[f].stamp = Identity(path[f])
  PROVE  memo[f].digest <=> inode[path[f]].data = Right
BY DEF Sound, Memos, Present

LEMMA AskStep == ASSUME Inv, NEW r \in Runners, NEW f \in Files, Ask(r, f) PROVE Inv'
<1>1. r \in Probes /\ at[r] = "next" /\ f \in todo[r] /\ UNCHANGED <<disk, memo, dirty, runs>>  BY DEF Ask
<1>2. CASE Sized(f) /\ Known(f)
  <2>1. Exact(f)  BY <1>2, KnownIsTrue DEF Inv, Sized, Known, Exact, Present
  <2>2. CASE todo[r] = {f}
    <3>1. Answers(r, "verified")  BY <1>2, <2>2 DEF Ask
    <3>2. Sound'  BY SMTT(30), <1>1, <3>1, Numbers DEF Inv, Sound, Answers, Step, disk, Stamps, NoStamp, NoInode
    <3>3. Looks(r)' /\ Fresh(r)' /\ Counted(r)'
      BY <1>1, <3>1 DEF Inv, Sound, Answers, Step, Looks, Under, Reading, Fresh, Counted
    <3>4. ~ dirty[r] => Whole
      BY <1>1, <2>1, <2>2 DEF Inv, Sound, RunIsSound, Counted, Whole, Exact, EntriesMatch, Tolerated
    <3>5. Says(r)'
      <4>1. verdict'[r] = "verified"  BY <3>1 DEF Answers, Inv, Sound
      <4>2. ~ dirty'[r] => Whole'  BY <1>1, <3>4 DEF Whole, Present, disk
      <4> QED  BY <4>1, <4>2 DEF Says
    <3> QED  BY <1>1, <3>2, <3>3, <3>5, QuietStep DEF RunIsSound, Runs
  <2>3. CASE todo[r] # {f}
    <3>1. todo' = [todo EXCEPT ![r] = @ \ {f}] /\ UNCHANGED <<at, file, handle, stamp, read, exact, good, verdict>>
      BY <1>2, <2>3 DEF Ask
    <3>2. Sound'  BY <1>1, <3>1 DEF Inv, Sound, disk
    <3>3. Looks(r)' /\ Fresh(r)' /\ Says(r)'
      BY <1>1, <3>1 DEF Inv, Sound, RunIsSound, Looks, Under, Reading, Fresh, Says, Whole, Present, disk
    <3>4. Counted(r)'
      <4>1. /\ place' = place /\ path' = path /\ (EntriesMatch' <=> EntriesMatch)
            /\ \A g \in Files : Exact(g)' <=> Exact(g)
        BY <1>1, DiskKept
      <4>2. /\ at'[r] = "next" /\ todo'[r] = todo[r] \ {f} /\ exact'[r] = exact[r] /\ dirty'[r] = dirty[r]
            /\ r \notin Verifiers
        BY <1>1, <3>1, FilesAssumption DEF FilesAssumption, Inv, Sound
      <4> QED  BY <1>1, <2>1, <4>1, <4>2 DEF Inv, RunIsSound, Counted, Under, Reading
    <3> QED  BY <1>1, <3>2, <3>3, <3>4, QuietStep DEF RunIsSound, Runs
  <2> QED  BY <2>2, <2>3
<1>3. CASE ~ (Sized(f) /\ Known(f))
  <2>1. Answers(r, "invalid")  BY <1>3 DEF Ask
  <2>2. Sound'  BY SMTT(30), <1>1, <2>1, Numbers DEF Inv, Sound, Answers, Step, disk, Stamps, NoStamp, NoInode
  <2>3. RunIsSound(r)'
    BY <1>1, <2>1, FilesAssumption DEF FilesAssumption, Inv, Sound, Answers, Step, RunIsSound, Looks, Under, Reading,
       Fresh, Counted, Says
  <2> QED  BY <1>1, <2>2, <2>3, QuietStep DEF Runs
<1> QED  BY <1>2, <1>3

LEMMA OpenStep == ASSUME Inv, NEW r \in Runners, NEW f \in Files, Open(r, f) PROVE Inv'
<1>1. /\ r \in Verifiers /\ at[r] = "next" /\ f \in todo[r] /\ todo' = [todo EXCEPT ![r] = @ \ {f}]
      /\ UNCHANGED <<disk, memo, stamp, read, exact, good, verdict, dirty, runs>>
  BY DEF Open
<1>2. CASE Sized(f)
  <2>1. file' = [file EXCEPT ![r] = f] /\ handle' = [handle EXCEPT ![r] = path[f]] /\ Step(r, "opened")
    BY <1>2 DEF Open
  <2>2. path[f] \in Inodes  BY <1>2 DEF Sized, Present, Inv, Sound
  <2>3. Sound'  BY <1>1, <2>1 DEF Inv, Sound, Step, disk
  <2>4. Looks(r)' /\ Fresh(r)' /\ Says(r)'
    BY <1>1, <2>1, <2>2 DEF Inv, Sound, Step, RunIsSound, Looks, Under, Reading, Fresh, Says, Whole, Present, disk
  <2>5. Counted(r)'
    <3>1. /\ place' = place /\ path' = path /\ (EntriesMatch' <=> EntriesMatch)
          /\ \A g \in Files : Exact(g)' <=> Exact(g)
      BY <1>1, DiskKept
    <3>2. /\ at'[r] = "opened" /\ todo'[r] = todo[r] \ {f} /\ exact'[r] = exact[r] /\ dirty'[r] = dirty[r]
          /\ good'[r] = good[r] /\ file'[r] = f /\ handle'[r] = path[f] /\ r \notin Probes
      BY <1>1, <2>1, FilesAssumption DEF FilesAssumption, Inv, Sound, Step
    <3> QED  BY <1>1, <3>1, <3>2 DEF Inv, RunIsSound, Counted, Under, Reading
  <2> QED  BY <1>1, <2>3, <2>4, <2>5, QuietStep DEF RunIsSound, Runs
<1>3. CASE ~ Sized(f)
  <2>1. UNCHANGED <<file, handle, at>>  BY <1>3 DEF Open
  <2>2. Sound'  BY <1>1, <2>1 DEF Inv, Sound, disk
  <2>3. Looks(r)' /\ Fresh(r)' /\ Says(r)'
    BY <1>1, <2>1 DEF Inv, Sound, RunIsSound, Looks, Under, Reading, Fresh, Says, Whole, Present, disk
  <2>4. Counted(r)'
    <3>1. /\ place' = place /\ path' = path /\ (EntriesMatch' <=> EntriesMatch)
          /\ \A g \in Files : Exact(g)' <=> Exact(g)
      BY <1>1, DiskKept
    <3>2. /\ at'[r] = "next" /\ todo'[r] = todo[r] \ {f} /\ exact'[r] = exact[r] /\ dirty'[r] = dirty[r]
          /\ good'[r] = good[r] /\ r \notin Probes
      BY <1>1, <2>1, FilesAssumption DEF FilesAssumption, Inv, Sound
    <3>3. ~ Exact(f)  BY <1>3 DEF Sized, Exact, Present
    <3> QED  BY <1>1, <3>1, <3>2, <3>3 DEF Inv, RunIsSound, Counted, Under, Reading
  <2> QED  BY <1>1, <2>2, <2>3, <2>4, QuietStep DEF RunIsSound, Runs
<1> QED  BY <1>2, <1>3

LEMMA CheckStep == ASSUME Inv, NEW r \in Runners, Check(r) PROVE Inv'
<1>1. /\ at[r] = "opened" /\ file[r] \in Files /\ handle[r] \in Inodes /\ r \in Verifiers /\ r \notin Probes
      /\ read[r] = <<>> /\ UNCHANGED <<disk, memo, todo, exact, verdict, dirty, runs>>
  BY FilesAssumption DEF FilesAssumption, Check, Inv, RunIsSound, Looks, Under, Reading
<1>2. /\ place' = place /\ path' = path /\ (EntriesMatch' <=> EntriesMatch) /\ (Whole' <=> Whole)
      /\ \A g \in Files : Exact(g)' <=> Exact(g)
      /\ \A i \in Inodes : Identity(i)' = Identity(i)
  BY <1>1, DiskKept
<1>3. Says(r)'  BY <1>1, <1>2 DEF Inv, RunIsSound, Says
<1>4. CASE ~ SameAsPath(r)
  <2>1. Skip(r) /\ good' = good  BY <1>4 DEF Check
  <2>2. Sound'  BY SMTT(30), <1>1, <2>1, Numbers DEF Inv, Sound, Skip, Step, disk, Stamps, NoStamp, NoInode
  <2>3. at'[r] = "next" /\ read'[r] = <<>> /\ good'[r] = good[r]  BY <2>1 DEF Inv, Sound, Skip, Step
  <2>4. Looks(r)' /\ Fresh(r)'  BY <2>3 DEF Looks, Fresh, Under, Reading
  <2>5. ~ dirty[r] => ~ Exact(file[r])
    BY <1>1, <1>4 DEF Inv, RunIsSound, Counted, Under, Reading, SameAsPath, Exact
  <2>6. Counted(r)'  BY <1>1, <1>2, <2>3, <2>5 DEF Inv, RunIsSound, Counted, Under, Reading
  <2> QED  BY <1>3, <2>1, <2>2, <2>4, <2>6, <1>1, QuietStep DEF RunIsSound, Runs
<1>5. CASE SameAsPath(r) /\ memo[file[r]].stamp = Identity(handle[r])
  <2>1. Counts(r, memo[file[r]].digest) /\ Skip(r)  BY <1>5 DEF Check
  <2>2. Sound'  BY SMTT(30), <1>1, <2>1, Numbers DEF Inv, Sound, Counts, Skip, Step, disk, Stamps, NoStamp, NoInode
  <2>3. /\ at'[r] = "next" /\ read'[r] = <<>>
        /\ good'[r] = IF memo[file[r]].digest THEN good[r] \union {file[r]} ELSE good[r]
    BY <2>1 DEF Inv, Sound, Counts, Skip, Step
  <2>4. Looks(r)' /\ Fresh(r)'  BY <2>3 DEF Looks, Fresh, Under, Reading
  <2>5. memo[file[r]].digest <=> Exact(file[r])
    BY <1>1, <1>5, Numbers DEF Inv, Memos, SameAsPath, Exact, Present, NoInode
  <2>6. Counted(r)'  BY <1>1, <1>2, <2>3, <2>5 DEF Inv, RunIsSound, Counted, Under, Reading
  <2> QED  BY <1>3, <2>1, <2>2, <2>4, <2>6, <1>1, QuietStep DEF RunIsSound, Runs
<1>6. CASE SameAsPath(r) /\ memo[file[r]].stamp # Identity(handle[r])
  <2>1. /\ stamp' = [stamp EXCEPT ![r] = Identity(handle[r])] /\ Step(r, "first")
        /\ UNCHANGED <<file, handle, read, good>>
    BY <1>6 DEF Check
  <2>2. Identity(handle[r]) \in Stamps /\ Identity(handle[r]).ino = handle[r] /\ Identity(handle[r]).ctime <= clock
    BY <1>1 DEF Identity, Stamps, Inv, Sound, Clocks
  <2>3. Sound'  BY <1>1, <2>1, <2>2 DEF Inv, Sound, Step, disk
  <2>4. /\ at'[r] = "first" /\ read'[r] = <<>> /\ good'[r] = good[r] /\ stamp'[r] = Identity(handle[r])
        /\ file'[r] = file[r] /\ handle'[r] = handle[r]
    BY <1>1, <2>1 DEF Inv, Sound, Step
  <2>5. Looks(r)' /\ Fresh(r)'  BY <1>1, <2>2, <2>4 DEF Looks, Fresh, Under, Reading, disk
  <2>6. Counted(r)'  BY <1>1, <1>2, <2>4 DEF Inv, RunIsSound, Counted, Under, Reading
  <2> QED  BY <1>3, <2>1, <2>3, <2>5, <2>6, <1>1, QuietStep DEF RunIsSound, Runs
<1> QED  BY <1>4, <1>5, <1>6

LEMMA AppendTwo == ASSUME NEW a, NEW b PROVE Append(<<a>>, b) = <<a, b>>
<1> DEFINE S == {a, b}
<1>1. <<a>> \in Seq(S) /\ b \in S /\ Len(<<a>>) = 1 /\ <<a>>[1] = a  OBVIOUS
<1> DEFINE two == Append(<<a>>, b)
<1>2. two \in Seq(S) /\ Len(two) = 2 /\ two[1] = a /\ two[2] = b  BY <1>1
<1>3. <<a, b>> \in Seq(S) /\ Len(<<a, b>>) = 2 /\ <<a, b>>[1] = a /\ <<a, b>>[2] = b  OBVIOUS
<1>4. \A s, t \in Seq(S) : Len(s) = Len(t) /\ (\A i \in 1 .. Len(s) : s[i] = t[i]) => s = t
  BY SeqEqual
<1>5. \A i \in 1 .. Len(two) : two[i] = <<a, b>>[i]  BY <1>2, <1>3
<1>6. two = <<a, b>>
  <2> HIDE DEF two, S
  <2> QED  BY <1>2, <1>3, <1>4, <1>5
<1> QED  BY <1>6

LEMMA ReadStep == ASSUME Inv, NEW r \in Runners, ReadBlock(r) PROVE Inv'
<1> DEFINE data == inode[handle[r]].data
<1>1. /\ at[r] \in {"first", "second"} /\ file[r] \in Files /\ handle[r] \in Inodes /\ r \in Verifiers
      /\ r \notin Probes /\ UNCHANGED <<disk, memo, todo, file, handle, stamp, exact, good, verdict, dirty, runs>>
  BY FilesAssumption DEF FilesAssumption, ReadBlock, Inv, RunIsSound, Looks, Under, Reading
<1>2. /\ place' = place /\ path' = path /\ (EntriesMatch' <=> EntriesMatch) /\ (Whole' <=> Whole)
      /\ \A g \in Files : Exact(g)' <=> Exact(g)
      /\ \A i \in Inodes : Identity(i)' = Identity(i)
  BY <1>1, DiskKept
<1>3. data \in BOOLEAN \X BOOLEAN  BY <1>1 DEF Inv, Sound
<1>4. read[r] \in Seq(BOOLEAN)  BY DEF Inv, Sound
<1>5. /\ at[r] = "first" => at'[r] = "second" /\ read'[r] = Append(read[r], data[1])
      /\ at[r] = "second" => at'[r] = "after" /\ read'[r] = Append(read[r], data[2])
  BY <1>1 DEF ReadBlock, Step, Inv, Sound
<1>6. Sound'
  <2>1. read' \in [Runners -> Seq(BOOLEAN)]
    <3>1. \E block \in {1, 2} : read' = [read EXCEPT ![r] = Append(@, data[block])]  BY DEF ReadBlock
    <3>2. \A block \in {1, 2} : data[block] \in BOOLEAN  BY <1>3
    <3> QED  BY <3>1, <3>2, <1>4 DEF Inv, Sound
  <2>2. at' \in [Runners -> {"idle", "entries", "next", "opened", "first", "second", "after"}]
    BY <1>1 DEF ReadBlock, Step, Inv, Sound
  <2> QED  BY <1>1, <2>1, <2>2 DEF Inv, Sound, disk
<1>7. Looks(r)'
  <2>1. at'[r] \in Reading /\ at[r] \in Reading  BY <1>1, <1>5 DEF Reading
  <2>2. stamp[r].ino = handle[r] /\ stamp[r].ctime <= clock  BY <2>1 DEF Inv, RunIsSound, Looks
  <2>3. ASSUME stamp[r] = Identity(handle[r])
        PROVE  /\ at'[r] # "first" /\ (at'[r] = "second" => read'[r] = <<data[1]>>)
               /\ (at'[r] = "after" => read'[r] = <<data[1], data[2]>>)
    <3>1. CASE at[r] = "first"
      <4>1. read[r] = <<>>  BY <2>1, <2>3, <3>1 DEF Inv, RunIsSound, Looks
      <4>2. Append(<<>>, data[1]) = <<data[1]>>  OBVIOUS
      <4> QED  BY <1>5, <3>1, <4>1, <4>2
    <3>2. CASE at[r] = "second"
      <4>1. read[r] = <<data[1]>>  BY <2>1, <2>3, <3>2 DEF Inv, RunIsSound, Looks
      <4>2. Append(<<data[1]>>, data[2]) = <<data[1], data[2]>>  BY AppendTwo
      <4> QED  BY <1>5, <3>2, <4>1, <4>2
    <3> QED  BY <1>1, <3>1, <3>2
  <2> QED  BY <1>1, <1>2, <2>1, <2>2, <2>3 DEF Looks, disk
<1>8. Counted(r)' /\ Fresh(r)' /\ Says(r)'
  BY <1>1, <1>2, <1>5 DEF Inv, RunIsSound, Counted, Fresh, Says, Under, Reading
<1> QED  BY <1>1, <1>6, <1>7, <1>8, QuietStep DEF RunIsSound, Runs

LEMMA ConcludeStep == ASSUME Inv, NEW r \in Runners, Conclude(r) PROVE Inv'
<1>1. /\ r \in Verifiers /\ r \notin Probes /\ at[r] = "next" /\ todo[r] = {}
      /\ Answers(r, IF exact[r] /\ good[r] = Files THEN "verified" ELSE "invalid")
      /\ UNCHANGED <<disk, memo, dirty, runs>>
  BY FilesAssumption DEF FilesAssumption, Conclude
<1>2. PICK v \in {"verified", "invalid"} :
        Answers(r, v) /\ (v = "verified" <=> exact[r] /\ good[r] = Files)
  BY <1>1
<1>3. Sound'  BY SMTT(30), <1>1, <1>2, Numbers DEF Inv, Sound, Answers, Step, disk, Stamps, NoStamp, NoInode
<1>4. Looks(r)' /\ Fresh(r)' /\ Counted(r)'
  BY <1>2 DEF Inv, Sound, Answers, Step, Looks, Under, Reading, Fresh, Counted
<1>5. ~ dirty[r] => (v = "verified" <=> Whole)
  <2>1. Whole <=> place = "directory" /\ EntriesMatch /\ \A f \in Files : Exact(f)
    BY DEF Whole, EntriesMatch, Tolerated, Exact
  <2>2. good[r] \subseteq Files  BY DEF Inv, Sound
  <2> QED  BY <1>1, <1>2, <2>1, <2>2 DEF Inv, RunIsSound, Counted, Under, Reading
<1>6. Says(r)'
  <2>1. verdict'[r] = v  BY <1>2 DEF Answers, Inv, Sound
  <2>2. Whole' <=> Whole  BY <1>1, DiskKept
  <2> QED  BY <1>1, <1>5, <2>1, <2>2 DEF Says
<1> QED  BY <1>1, <1>3, <1>4, <1>6, QuietStep DEF RunIsSound, Runs

-----------------------------------------------------------------------------
(* The end of a reading *)

LEMMA MemoryBounded ==
  ASSUME Sound, Bounded, NEW f \in Files, NEW m,
         LET cleared == IF Full THEN [g \in Files |-> NoMemo] ELSE memo
         IN  memo' = [cleared EXCEPT ![f] = m]
  PROVE  Bounded'
<1> DEFINE Kept == {g \in Files : memo[g] # NoMemo}
<1>1. IsFiniteSet(Kept) /\ IsFiniteSet({f})
  BY FilesAssumption, FS_Subset, FS_Singleton DEF FilesAssumption
<1>2. Cardinality({f}) = 1  BY FS_Singleton
<1>3. CASE Full
  <2>1. {g \in Files : memo'[g] # NoMemo} \subseteq {f}  BY <1>3
  <2>2. Cardinality({g \in Files : memo'[g] # NoMemo}) <= 1  BY <1>1, <1>2, <2>1, FS_Subset
  <2>3. Cardinality({g \in Files : memo'[g] # NoMemo}) \in Nat
    BY <1>1, <2>1, FS_Subset, FS_CardinalityType
  <2> QED  BY <2>2, <2>3, FilesAssumption DEF Bounded, FilesAssumption
<1>4. CASE ~ Full
  <2>1. {g \in Files : memo'[g] # NoMemo} \subseteq Kept \union {f}  BY <1>4 DEF Sound
  <2>2. IsFiniteSet(Kept \union {f}) /\ Cardinality(Kept \union {f}) <= Cardinality(Kept) + 1
    <3>1. CASE f \in Kept
      <4>1. Kept \union {f} = Kept  BY <3>1
      <4>2. Cardinality(Kept) \in Nat  BY <1>1, FS_CardinalityType
      <4>3. Cardinality(Kept \union {f}) <= Cardinality(Kept) + 1
        <5>1. Cardinality(Kept) <= Cardinality(Kept) + 1  BY <4>2
        <5> QED  BY <4>1, <5>1, Zenon
      <4> QED  BY <1>1, <4>1, <4>3
    <3>2. CASE f \notin Kept
      <4> HIDE DEF Kept
      <4>1. IsFiniteSet(Kept \union {f}) /\ Cardinality(Kept \union {f}) = Cardinality(Kept) + 1
        BY <1>1, <3>2, FS_AddElement
      <4>2. Cardinality(Kept) \in Nat  BY <1>1, FS_CardinalityType
      <4> QED  BY <4>1, <4>2
    <3> QED  BY <3>1, <3>2
  <2>3. Cardinality({g \in Files : memo'[g] # NoMemo}) <= Cardinality(Kept \union {f})
    BY <2>1, <2>2, FS_Subset
  <2>4. /\ Cardinality({g \in Files : memo'[g] # NoMemo}) \in Nat /\ Cardinality(Kept \union {f}) \in Nat
        /\ Cardinality(Kept) \in Nat
    BY <1>1, <2>1, <2>2, FS_Subset, FS_CardinalityType
  <2>5. Cardinality(Kept) < Limit  BY <1>4, <2>4, FilesAssumption DEF Full, FilesAssumption
  <2> QED  BY <2>2, <2>3, <2>4, <2>5, FilesAssumption DEF Bounded, FilesAssumption
<1> QED  BY <1>3, <1>4

LEMMA RecordStep == ASSUME Inv, NEW r \in Runners, Record(r) PROVE Inv'
<1> DEFINE data == inode[handle[r]].data
           digest == read[r] = Right
           cleared == IF Full THEN [f \in Files |-> NoMemo] ELSE memo
           kept == SameAsPath(r) /\ KeptUnder(r) # NoStamp
<1>1. /\ at[r] = "after" /\ file[r] \in Files /\ handle[r] \in Inodes /\ r \in Verifiers
      /\ r \notin Probes /\ UNCHANGED <<disk, todo, exact, verdict, dirty, runs>>
  BY FilesAssumption DEF FilesAssumption, Record, Inv, RunIsSound, Looks, Under, Reading
<1>2. /\ place' = place /\ path' = path /\ (EntriesMatch' <=> EntriesMatch) /\ (Whole' <=> Whole)
      /\ \A g \in Files : Exact(g)' <=> Exact(g)
      /\ \A i \in Inodes : Identity(i)' = Identity(i)
  BY <1>1, DiskKept
<1>3. data = <<data[1], data[2]>> /\ data[1] \in BOOLEAN /\ data[2] \in BOOLEAN  BY <1>1 DEF Inv, Sound
<1>4. Skip(r) /\ Counts(r, digest /\ SameAsPath(r))  BY DEF Record
<1>5. stamp[r] = Identity(handle[r]) => (digest <=> data = Right)
  BY <1>1, <1>3 DEF Inv, RunIsSound, Looks, Reading
<1>6. /\ ~ kept => memo' = memo
      /\ kept => /\ memo' = [cleared EXCEPT ![file[r]] = [stamp |-> stamp[r], digest |-> digest]]
                 /\ stamp[r] = Identity(handle[r])
  BY DEF Record, KeptUnder
<1>7. Memos'
  <2>1. CASE ~ kept  BY <1>1, <1>2, <1>6, <2>1 DEF Inv, Memos, disk
  <2>2. CASE kept
    <3> HIDE DEF digest, kept
    <3>1. /\ cleared \in [Files -> [stamp : Stamps, digest : BOOLEAN]]
          /\ \A f \in Files : cleared[f].stamp.ctime <= clock
          /\ \A f \in Files, i \in Inodes : cleared[f].stamp = Identity(i) => (cleared[f].digest <=> inode[i].data = Right)
      <4>1. CASE Full
        BY <4>1, Numbers DEF Inv, Sound, NoMemo, NoStamp, Stamps, NoInode, Identity
      <4>2. CASE ~ Full  BY <4>2 DEF Inv, Sound, Memos
      <4> QED  BY <4>1, <4>2
    <3>2. \A i \in Inodes : stamp[r] = Identity(i) => i = handle[r]
      BY <1>6, <2>2 DEF Identity
    <3>3. Identity(handle[r]).ctime <= clock  BY <1>1 DEF Inv, Clocks, Identity
    <3>4. SUFFICES ASSUME NEW f \in Files
                   PROVE  /\ memo'[f].stamp.ctime <= clock
                          /\ \A i \in Inodes : memo'[f].stamp = Identity(i) => (memo'[f].digest <=> inode[i].data = Right)
      BY <1>1, <1>2 DEF Memos, disk
    <3> HIDE DEF cleared
    <3>5. CASE f = file[r]
      <4>1. memo'[f] = [stamp |-> stamp[r], digest |-> digest]  BY <1>6, <2>2, <3>1, <3>5
      <4> QED  BY <1>5, <1>6, <2>2, <3>2, <3>3, <4>1
    <3>6. CASE f # file[r]
      <4>1. memo'[f] = cleared[f]  BY <1>6, <2>2, <3>1, <3>6
      <4> QED  BY <3>1, <4>1
    <3> QED  BY <3>5, <3>6
  <2> QED  BY <2>1, <2>2
<1>8. memo' \in [Files -> [stamp : Stamps, digest : BOOLEAN]] /\ Bounded'
  <2>1. CASE ~ kept  BY <1>6, <2>1 DEF Inv, Sound, Bounded
  <2>2. CASE kept
    <3> HIDE DEF kept
    <3>1. Bounded'  BY <1>1, <1>6, <2>2, MemoryBounded DEF Inv
    <3>2. cleared \in [Files -> [stamp : Stamps, digest : BOOLEAN]]
      BY Numbers DEF Inv, Sound, NoMemo, NoStamp, Stamps, NoInode
    <3>3. stamp[r] \in Stamps /\ digest \in BOOLEAN  BY DEF Inv, Sound
    <3> HIDE DEF cleared, digest
    <3> QED  BY <1>6, <2>2, <3>1, <3>2, <3>3
  <2> QED  BY <2>1, <2>2
<1>9. Sound'
  <2>1. at' \in [Runners -> {"idle", "entries", "next", "opened", "first", "second", "after"}]
    BY <1>4 DEF Skip, Step, Inv, Sound
  <2>2. /\ file' \in [Runners -> Files \union {NoFile}] /\ handle' \in [Runners -> Inodes \union {NoInode}]
        /\ stamp' \in [Runners -> Stamps] /\ read' \in [Runners -> Seq(BOOLEAN)]
    BY <1>4, Numbers DEF Skip, Inv, Sound, Stamps, NoStamp, NoInode
  <2>3. good' \in [Runners -> SUBSET Files]  BY <1>1, <1>4 DEF Counts, Inv, Sound
  <2> QED  BY <1>1, <1>8, <2>1, <2>2, <2>3 DEF Inv, Sound, disk
<1>10. /\ at'[r] = "next" /\ read'[r] = <<>>
       /\ good'[r] = IF digest /\ SameAsPath(r) THEN good[r] \union {file[r]} ELSE good[r]
  BY <1>4 DEF Skip, Step, Counts, Inv, Sound
<1>11. RunIsSound(r)'
  <2>1. Looks(r)' /\ Fresh(r)'  BY <1>10 DEF Looks, Fresh, Under, Reading
  <2>2. Says(r)'  BY <1>1, <1>2 DEF Inv, RunIsSound, Says
  <2>3. ~ dirty[r] => (digest /\ SameAsPath(r) <=> Exact(file[r]))
    BY <1>1, <1>5, Numbers DEF Inv, RunIsSound, Counted, Under, Reading, SameAsPath, Exact, Present, NoInode
  <2> HIDE DEF digest
  <2>4. Counted(r)'  BY <1>1, <1>2, <1>10, <2>3 DEF Inv, RunIsSound, Counted, Under, Reading
  <2> QED  BY <2>1, <2>2, <2>4 DEF RunIsSound
<1>12. Runs(r)  BY DEF Runs
<1>13. Moves(r)  BY <1>12, RunMoves DEF Inv
<1>14. \A s \in Runners \ {r} : RunIsSound(s)'  BY <1>13, Resting DEF Moves, Inv
<1>15. Clocks'  BY <1>1 DEF Inv, Clocks, disk
<1> QED  BY <1>7, <1>8, <1>9, <1>11, <1>14, <1>15 DEF Inv

-----------------------------------------------------------------------------
(* Other programs *)

\* A change marks every run, and what it writes bears a time no stamp has.
LEMMA ChangeStep ==
  ASSUME Inv, Changed, Sound', UNCHANGED <<memo, run, runs>>,
         \A i \in Inodes : inode'[i] = inode[i] \/ inode'[i].ctime = clock + 1
  PROVE  Inv'
<1>1. clock' = clock + 1 /\ clock \in Nat /\ \A r \in Runners : dirty'[r]  BY FilesAssumption DEF FilesAssumption, Changed, Inv, Sound
<1>2. \A i \in Inodes : Identity(i)' = [ino |-> i, size |-> inode'[i].size, mtime |-> inode'[i].mtime, ctime |-> inode'[i].ctime]
  BY DEF Identity
<1>3. ASSUME NEW i \in Inodes, NEW t \in Stamps, t.ctime <= clock, t = Identity(i)'
      PROVE  t = Identity(i) /\ inode'[i] = inode[i]
  <2>1. t.ctime = inode'[i].ctime  BY <1>2, <1>3
  <2>2. t.ctime # clock + 1  BY <1>1, <1>3 DEF Stamps
  <2> QED  BY <1>2, <1>3, <2>1, <2>2 DEF Identity
<1>4. Clocks'
  <2> SUFFICES ASSUME NEW i \in Inodes PROVE inode'[i].ctime <= clock'  BY DEF Clocks
  <2>1. inode[i].ctime <= clock /\ inode[i].ctime \in Nat  BY FilesAssumption DEF FilesAssumption, Inv, Clocks, Sound
  <2> QED  BY <1>1, <2>1
<1>5. Memos'
  <2> SUFFICES ASSUME NEW f \in Files
               PROVE  /\ memo[f].stamp.ctime <= clock'
                      /\ \A i \in Inodes : memo[f].stamp = Identity(i)' => (memo[f].digest <=> inode'[i].data = Right)
    BY DEF Memos
  <2>1. memo[f].stamp \in Stamps /\ memo[f].stamp.ctime <= clock  BY DEF Inv, Sound, Memos
  <2>2. memo[f].stamp.ctime \in Nat  BY <2>1, FilesAssumption DEF FilesAssumption, Stamps
  <2> QED  BY <1>1, <1>3, <2>1, <2>2 DEF Inv, Memos
<1>6. ASSUME NEW r \in Runners PROVE RunIsSound(r)'
  <2>1. /\ at'[r] = at[r] /\ file'[r] = file[r] /\ handle'[r] = handle[r] /\ stamp'[r] = stamp[r]
        /\ read'[r] = read[r] /\ good'[r] = good[r] /\ todo'[r] = todo[r]
    BY DEF run
  <2>2. Looks(r)'
    <3>1. CASE at[r] \in Reading
      <4>1. stamp[r] \in Stamps /\ stamp[r].ctime <= clock /\ handle[r] \in Inodes /\ stamp[r].ino = handle[r]
        BY <3>1 DEF Inv, Sound, RunIsSound, Looks, Under
      <4>2. stamp[r].ctime \in Nat  BY <4>1, FilesAssumption DEF FilesAssumption, Stamps
      <4>3. stamp[r] = Identity(handle[r])' => stamp[r] = Identity(handle[r]) /\ inode'[handle[r]] = inode[handle[r]]
        BY <1>3, <4>1, <2>1
      <4> QED  BY <1>1, <2>1, <3>1, <4>1, <4>2, <4>3 DEF Inv, RunIsSound, Looks, Under
    <3>2. CASE at[r] \notin Reading  BY <2>1, <3>2 DEF Inv, RunIsSound, Looks, Under
    <3> QED  BY <3>1, <3>2
  <2>3. Fresh(r)'  BY <2>1 DEF Inv, RunIsSound, Fresh
  <2> QED  BY <1>1, <2>2, <2>3 DEF RunIsSound, Counted, Says
<1>7. Bounded'  BY DEF Inv, Bounded
<1> QED  BY <1>4, <1>5, <1>6, <1>7 DEF Inv

\* What a file may hold, in this model, is two blocks.
LEMMA Contents == \A data \in {Right, <<FALSE, TRUE>>} : data \in BOOLEAN \X BOOLEAN
<1>1. Right \in BOOLEAN \X BOOLEAN  BY Zenon DEF Right
<1>2. <<FALSE, TRUE>> \in BOOLEAN \X BOOLEAN  BY Zenon
<1> QED  BY <1>1, <1>2

LEMMA OthersStep == ASSUME Inv, Others PROVE Inv'
<1>1. PICK f \in Files :
        \/ \E data \in {Right, <<FALSE, TRUE>>} : Write(f, data) \/ \E i \in Inodes : Replace(f, i, data)
        \/ \E time \in 0 .. MaxClock : Touch(f, time)
        \/ Unlink(f)
  BY DEF Others
<1>2. Changed => clock' = clock + 1 /\ clock' \in 0 .. MaxClock /\ dirty' \in [Runners -> BOOLEAN]
  BY FilesAssumption DEF FilesAssumption, Changed, Inv, Sound
<1>3. \A data \in {Right, <<FALSE, TRUE>>} : data \in BOOLEAN \X BOOLEAN  BY Contents
<1>4. ASSUME NEW data \in {Right, <<FALSE, TRUE>>}, Write(f, data) PROVE Inv'
  <2>1. path[f] \in Inodes  BY <1>4 DEF Write, Present, Inv, Sound
  <2>2. Sound'
    <3>1. clock' \in 0 .. MaxClock /\ data \in BOOLEAN \X BOOLEAN  BY <1>2, <1>3, <1>4 DEF Write
    <3>2. inode' \in [Inodes -> [data : BOOLEAN \X BOOLEAN, size : BOOLEAN, mtime : 0 .. MaxClock, ctime : 0 .. MaxClock]]
      <4>1. /\ inode \in [Inodes -> [data : BOOLEAN \X BOOLEAN, size : BOOLEAN, mtime : 0 .. MaxClock, ctime : 0 .. MaxClock]]
            /\ inode[path[f]] \in [data : BOOLEAN \X BOOLEAN, size : BOOLEAN, mtime : 0 .. MaxClock, ctime : 0 .. MaxClock]
        BY <2>1 DEF Inv, Sound
      <4>2. inode' = [inode EXCEPT ![path[f]] = [inode[path[f]] EXCEPT !.data = data, !.mtime = clock', !.ctime = clock']]
        BY <1>4 DEF Write
      <4>3. [inode[path[f]] EXCEPT !.data = data, !.mtime = clock', !.ctime = clock'] \in [data : BOOLEAN \X BOOLEAN, size : BOOLEAN, mtime : 0 .. MaxClock, ctime : 0 .. MaxClock]
        BY <3>1, <4>1
      <4> QED  BY <2>1, <4>1, <4>2, <4>3
    <3> QED  BY <1>2, <1>4, <3>1, <3>2 DEF Write, Inv, Sound, run
  <2>3. \A i \in Inodes : inode'[i] = inode[i] \/ inode'[i].ctime = clock + 1
    BY <1>2, <1>4, <2>1 DEF Write, Inv, Sound
  <2> QED  BY <1>4, <2>2, <2>3, ChangeStep DEF Write
<1>5. ASSUME NEW data \in {Right, <<FALSE, TRUE>>}, NEW i \in Inodes, Replace(f, i, data) PROVE Inv'
  <2>1. Sound'  BY <1>2, <1>3, <1>5, FilesAssumption DEF FilesAssumption, Replace, Inv, Sound, run
  <2>2. \A j \in Inodes : inode'[j] = inode[j] \/ inode'[j].ctime = clock + 1
    BY <1>2, <1>5 DEF Replace, Inv, Sound
  <2> QED  BY <1>5, <2>1, <2>2, ChangeStep DEF Replace
<1>6. ASSUME NEW time \in 0 .. MaxClock, Touch(f, time) PROVE Inv'
  <2>1. path[f] \in Inodes  BY <1>6 DEF Touch, Present, Inv, Sound
  <2>2. Sound'
    <3>1. clock' \in 0 .. MaxClock  BY <1>2, <1>6 DEF Touch
    <3>2. inode' \in [Inodes -> [data : BOOLEAN \X BOOLEAN, size : BOOLEAN, mtime : 0 .. MaxClock, ctime : 0 .. MaxClock]]
      <4>1. /\ inode \in [Inodes -> [data : BOOLEAN \X BOOLEAN, size : BOOLEAN, mtime : 0 .. MaxClock, ctime : 0 .. MaxClock]]
            /\ inode[path[f]] \in [data : BOOLEAN \X BOOLEAN, size : BOOLEAN, mtime : 0 .. MaxClock, ctime : 0 .. MaxClock]
        BY <2>1 DEF Inv, Sound
      <4>2. inode' = [inode EXCEPT ![path[f]] = [inode[path[f]] EXCEPT !.mtime = time, !.ctime = clock']]
        BY <1>6 DEF Touch
      <4>3. [inode[path[f]] EXCEPT !.mtime = time, !.ctime = clock'] \in [data : BOOLEAN \X BOOLEAN, size : BOOLEAN, mtime : 0 .. MaxClock, ctime : 0 .. MaxClock]
        BY <3>1, <4>1
      <4> QED  BY <2>1, <4>1, <4>2, <4>3
    <3> QED  BY <1>2, <1>6, <3>1, <3>2 DEF Touch, Inv, Sound, run
  <2>3. \A i \in Inodes : inode'[i] = inode[i] \/ inode'[i].ctime = clock + 1
    BY <1>2, <1>6, <2>1 DEF Touch, Inv, Sound
  <2> QED  BY <1>6, <2>2, <2>3, ChangeStep DEF Touch
<1>7. ASSUME Unlink(f) PROVE Inv'
  <2>1. Sound'  BY <1>2, <1>7 DEF Unlink, Inv, Sound, run
  <2>2. \A i \in Inodes : inode'[i] = inode[i]  BY <1>7 DEF Unlink
  <2> QED  BY <1>7, <2>1, <2>2, ChangeStep DEF Unlink
<1> QED  BY <1>1, <1>4, <1>5, <1>6, <1>7

-----------------------------------------------------------------------------
LEMMA Initially == Init => Inv
<1> SUFFICES ASSUME Init PROVE Inv  OBVIOUS
<1>1. Sound
  <2>1. path \in [Files -> Inodes \union {NoInode}]  BY Numbers, FilesAssumption DEF FilesAssumption, Init, Inodes
  <2>2. inode \in [Inodes -> [data : BOOLEAN \X BOOLEAN, size : BOOLEAN, mtime : 0 .. MaxClock, ctime : 0 .. MaxClock]]
    <3>1. PICK d \in {Right, <<FALSE, TRUE>>}, z \in BOOLEAN :
            inode = [i \in Inodes |-> [data |-> IF i = 1 THEN d ELSE Right, size |-> z \/ i # 1, mtime |-> 0, ctime |-> 0]]
      BY Zenon DEF Init
    <3>2. d \in BOOLEAN \X BOOLEAN /\ Right \in BOOLEAN \X BOOLEAN  BY Contents
    <3>3. 0 \in 0 .. MaxClock  BY FilesAssumption DEF FilesAssumption
    <3> QED  BY <3>1, <3>2, <3>3
  <2>3. NoStamp \in Stamps  BY FilesAssumption DEF FilesAssumption, NoStamp, Stamps
  <2> QED  BY <2>1, <2>2, <2>3, FilesAssumption DEF FilesAssumption, Init, Sound, NoMemo
<1>2. Clocks /\ Memos
  <2>1. \A i \in Inodes : inode[i].ctime = 0
    <3>1. PICK d \in {Right, <<FALSE, TRUE>>}, z \in BOOLEAN :
            inode = [i \in Inodes |-> [data |-> IF i = 1 THEN d ELSE Right, size |-> z \/ i # 1, mtime |-> 0, ctime |-> 0]]
      BY Zenon DEF Init
    <3> QED  BY <3>1
  <2>2. \A f \in Files : memo[f].stamp.ctime = 0 /\ memo[f].stamp.ino = 0
    BY DEF Init, NoMemo, NoStamp, NoInode
  <2> QED  BY <2>1, <2>2, Numbers DEF Init, Clocks, Memos, Identity
<1>3. Bounded
  <2>1. {f \in Files : memo[f] # NoMemo} = {}  BY DEF Init
  <2> QED  BY <2>1, FS_EmptySet, FilesAssumption DEF Bounded, FilesAssumption
<1>4. \A r \in Runners : RunIsSound(r)
  BY DEF Init, RunIsSound, Looks, Counted, Fresh, Says, Under, Reading
<1> QED  BY <1>1, <1>2, <1>3, <1>4 DEF Inv

LEMMA Inductive == ASSUME Inv, [Next]_vars PROVE Inv'
<1>1. ASSUME NEW r \in Runners, Runs(r) PROVE Inv'
  BY <1>1, StartStep, LookStep, CheckStep, ReadStep, RecordStep, ConcludeStep, AskStep, OpenStep DEF Runs
<1>2. CASE UNCHANGED vars
  <2>1. Sound' /\ Bounded'  BY <1>2 DEF Inv, Sound, Bounded, vars, disk, run
  <2>2. UNCHANGED disk  BY <1>2 DEF vars
  <2>3. Clocks' /\ Memos'  BY <1>2 DEF Inv, Clocks, Memos, Identity, vars, disk
  <2>4. \A r \in Runners : RunIsSound(r)'
    <3> SUFFICES ASSUME NEW r \in Runners PROVE RunIsSound(r)'  OBVIOUS
    <3>1. UNCHANGED <<run, dirty>>  BY <1>2 DEF vars
    <3> QED  BY <2>2, <3>1, Resting DEF Inv, run
  <2> QED  BY <2>1, <2>3, <2>4 DEF Inv
<1> QED  BY <1>1, <1>2, OthersStep DEF Next

\* However many verifications and probes run at once, and whatever is written,
\* replaced, backdated or removed between two of their looks: a remembered digest
\* is that of the content it is remembered for, "verified" is said of an exact
\* artifact only, an exact artifact is never refused, and the memory keeps its
\* limit (src/main/modelSpec.ts, verifyModelDirectory() and sha256File()).
THEOREM VerdictsStayTrue == Spec => []VerdictsAreTrue
<1>1. Inv => VerdictsAreTrue
  <2> SUFFICES ASSUME Inv PROVE VerdictsAreTrue  OBVIOUS
  <2>1. TypeOK  BY DEF Inv, Sound, Bounded, TypeOK
  <2>2. MemoIsTrue  BY KnownIsTrue DEF Inv, MemoIsTrue
  <2>3. YesIsTrue  BY DEF Inv, RunIsSound, Says, YesIsTrue
  <2>4. NoIsTrue  BY DEF Inv, RunIsSound, Says, NoIsTrue, Runners
  <2> QED  BY <2>1, <2>2, <2>3, <2>4 DEF VerdictsAreTrue
<1> QED  BY <1>1, Initially, Inductive, PTL DEF Spec

-----------------------------------------------------------------------------
(* The installation *)

CONSTANTS Transactions, Lookalikes, MaxErrors, MaxCrashes, MaxRot
VARIABLES final, marker, staging, backup, dir, pc, op, installTodo, cur, then, touched, loaded,
  answer, had, errors, crashes, rots

Install == INSTANCE ModelInstall WITH todo <- installTodo

Recovering == {"clear", "restore", "promote", "remove"}
Filling    == {"stage", "download", "verify", "aside", "activate"}

\* Only a transaction that is ours is worked on.
Ours ==
  /\ \A t \in installTodo : t \notin Lookalikes /\ marker[t]
  /\ pc \in Recovering => cur \notin installTodo
  /\ pc \in Recovering \union Filling \union {"mark"} => cur \in Transactions \ Lookalikes
  /\ \A t \in Lookalikes : dir[t] /\ ~marker[t] /\ backup[t] = "bad" /\ staging[t] = "none"
  /\ \A t \in Transactions : marker[t] => dir[t]
  /\ pc \in Filling => marker[cur]
  /\ pc = "mark" => dir[cur]

\* No transaction of ours is forgotten: it is still to be seen, or worked on.
NoneForgotten ==
  /\ pc = "recover" => Install!Owned \subseteq installTodo
  /\ pc \in Recovering => Install!Owned \subseteq installTodo \union {cur}
  /\ pc \in {"check", "adopt", "adopted", "mark", "verified"} => Install!Owned = {}
  /\ pc \in Filling => Install!Owned \subseteq {cur}

\* What was verified is there as long as nothing has touched it.
VerifiedIsThere ==
  /\ pc = "verified" /\ ~touched => final = "valid"
  /\ loaded \in {"none", "valid"}
  /\ pc # "idle" => answer = "none"

InstallInvariant == Install!TypeOK /\ Ours /\ NoneForgotten /\ VerifiedIsThere

-----------------------------------------------------------------------------
Good == {"valid", "cached"}

\* The copies of which GoodCopyIsKept speaks.
Live == (had = "valid" /\ errors <= 2) \/ (had = "cached" /\ errors <= 1)

\* What was replaced although it was exact has cost a failed read: one for what was
\* installed with its cache, and one more for what was put in its place.
Dear == IF had = "cached" THEN 2 ELSE 1
Costs ==
  /\ \A t \in Transactions : /\ staging[t] # "cached"
                             /\ backup[t] \in Good => errors >= 1 /\ final # "cached"
                             /\ backup[t] = "valid" => errors >= Dear
  /\ final = "cached" => had = "cached"
  /\ had = "cached" /\ final # "cached" => errors >= 1
  /\ pc \in {"adopt", "mark"} \union Filling /\ final = "valid" => errors >= Dear
  /\ pc \in {"mark"} \union Filling /\ final = "cached" => errors >= 1

\* What each step of a recovery or a replacement has before it.
Before ==
  /\ pc \in {"clear", "restore"} => backup[cur] = "valid" /\ marker[cur]
  /\ pc = "clear" /\ Live => errors >= 2
  /\ pc = "promote" => staging[cur] = "valid" /\ final = "none"
  /\ pc \in {"aside", "activate"} => staging[cur] = "valid"
  /\ pc \in {"check", "adopt", "adopted", "mark", "stage", "download", "verify", "aside"} /\ Live => final \in Good
  /\ pc = "activate" => final = "none" /\ (Live => backup[cur] \in Good)
                        /\ (backup[cur] = "cached" => had # "valid")
  /\ pc = "adopted" => final # "cached"

\* Where a good copy is while it is not installed: it takes two failed reads to have one
\* only, or the replacement of one that had its cache.
Somewhere(S) ==
  \/ /\ final = "none"
     /\ \E t \in S : /\ marker[t] /\ "valid" \in {backup[t], staging[t]}
                     /\ errors >= 2 \/ had = "cached" \/ (backup[t] = "valid" /\ staging[t] = "valid")
  \/ final = "bad" /\ errors >= 2 /\ \E t \in S : marker[t] /\ backup[t] = "valid"

Kept ==
  Live => \/ final \in Good
          \/ Somewhere(IF pc = "remove" THEN Transactions \ {cur} ELSE Transactions)

CopyInvariant == Costs /\ Before /\ Kept

-----------------------------------------------------------------------------
LEMMA InstallStarts == ASSUME Install!ModelInstallAssumption, Install!Init PROVE InstallInvariant
<1> USE DEF Install!ModelInstallAssumption, Install!Init, Install!Contents, Install!None
<1>1. Install!TypeOK
  <2>1. dir \in [Transactions -> BOOLEAN] /\ marker \in [Transactions -> BOOLEAN] OBVIOUS
  <2>2. staging \in [Transactions -> Install!Contents] /\ backup \in [Transactions -> Install!Contents] OBVIOUS
  <2>3. had \in {"none", "cached", "valid"} /\ final \in Install!Contents OBVIOUS
  <2>4. errors \in 0..MaxErrors /\ crashes \in 0..MaxCrashes /\ rots \in 0..MaxRot OBVIOUS
  <2>5. installTodo \subseteq Transactions /\ cur \in Transactions \union {Install!None} OBVIOUS
  <2> QED BY <2>1, <2>2, <2>3, <2>4, <2>5 DEF Install!TypeOK
<1>2. Ours BY DEF Ours, Recovering, Filling
<1>3. NoneForgotten /\ VerifiedIsThere BY DEF NoneForgotten, VerifiedIsThere, Recovering, Filling
<1> QED BY <1>1, <1>2, <1>3 DEF InstallInvariant

LEMMA InstallStep ==
  ASSUME Install!ModelInstallAssumption, InstallInvariant, [Install!Next]_(Install!vars) PROVE InstallInvariant'
<1> USE DEF InstallInvariant, Install!disk, Install!place, Install!bounds, Install!Contents, Install!None, Recovering, Filling
<1>0. Lookalikes \subseteq Transactions /\ {MaxErrors, MaxCrashes, MaxRot} \subseteq Nat
  BY DEF Install!ModelInstallAssumption
<1>1. CASE Install!Recover
  <2> USE <1>0, <1>1 DEF Install!Recover, Install!Says, Install!Misread, Install!Decide
  <2>1. Install!TypeOK' BY DEF Install!TypeOK, Ours, Install!Owned
  <2>2. Ours' BY DEF Install!TypeOK, Ours, Install!Owned
  <2>3. NoneForgotten' BY DEF Install!TypeOK, Ours, NoneForgotten, Install!Owned
  <2>4. VerifiedIsThere' BY DEF Install!TypeOK, NoneForgotten, VerifiedIsThere
  <2> QED BY <2>1, <2>2, <2>3, <2>4
<1>2. CASE Install!ClearFinal
  <2> USE <1>0, <1>2 DEF Install!ClearFinal, Install!Goto
  <2>1. Install!TypeOK' BY DEF Install!TypeOK, Ours, Install!Owned
  <2>2. Ours' BY DEF Install!TypeOK, Ours, Install!Owned
  <2>3. NoneForgotten' BY DEF Install!TypeOK, Ours, NoneForgotten, Install!Owned
  <2>4. VerifiedIsThere' BY DEF Install!TypeOK, NoneForgotten, VerifiedIsThere
  <2> QED BY <2>1, <2>2, <2>3, <2>4
<1>3. CASE Install!RestoreBackup
  <2> USE <1>0, <1>3 DEF Install!RestoreBackup, Install!Rename, Install!Says, Install!Misread, Install!Goto, Install!Answers
  <2>1. Install!TypeOK' BY DEF Install!TypeOK, Ours, Install!Owned
  <2>2. Ours' BY DEF Install!TypeOK, Ours, Install!Owned
  <2>3. NoneForgotten' BY DEF Install!TypeOK, Ours, NoneForgotten, Install!Owned
  <2>4. VerifiedIsThere' BY DEF Install!TypeOK, NoneForgotten, VerifiedIsThere
  <2> QED BY <2>1, <2>2, <2>3, <2>4
<1>4. CASE Install!PromoteStaging
  <2> USE <1>0, <1>4 DEF Install!PromoteStaging, Install!Rename, Install!Says, Install!Misread, Install!Goto, Install!Answers
  <2>1. Install!TypeOK' BY DEF Install!TypeOK, Ours, Install!Owned
  <2>2. Ours' BY DEF Install!TypeOK, Ours, Install!Owned
  <2>3. NoneForgotten' BY DEF Install!TypeOK, Ours, NoneForgotten, Install!Owned
  <2>4. VerifiedIsThere' BY DEF Install!TypeOK, NoneForgotten, VerifiedIsThere
  <2> QED BY <2>1, <2>2, <2>3, <2>4
<1>5. CASE Install!RemoveEntry
  <2> USE <1>0, <1>5 DEF Install!RemoveEntry, Install!place
  <2>1. Install!TypeOK'
    <3> USE DEF Install!TypeOK
    <3>1. final' \in Install!Contents /\ staging' \in [Transactions -> Install!Contents]
          /\ backup' \in [Transactions -> Install!Contents]  BY DEF Ours
    <3>2. marker' \in [Transactions -> BOOLEAN] /\ dir' \in [Transactions -> BOOLEAN]  OBVIOUS
    <3>3. pc' \in {"idle", "recover", "clear", "restore", "promote", "remove", "check", "adopt", "adopted", "mark",
                   "stage", "download", "verify", "aside", "activate", "verified"}
          /\ op' \in {"install", "load"} /\ then' \in {"check", "failed", "done"}
          /\ answer' \in {"none", "installed", "loaded", "error"}  OBVIOUS
    <3>4. installTodo' \subseteq Transactions /\ cur' \in Transactions \union {Install!None}
      BY DEF Ours, Install!Owned
    <3>5. errors' \in 0..MaxErrors OBVIOUS
    <3>6. crashes' \in 0..MaxCrashes /\ rots' \in 0..MaxRot OBVIOUS
    <3>7. touched' \in BOOLEAN /\ had' \in {"none", "cached", "valid"} /\ loaded' \in Install!Contents OBVIOUS
    <3> QED BY <3>1, <3>2, <3>3, <3>4, <3>5, <3>6, <3>7
  <2>2. Ours' BY DEF Install!TypeOK, Ours, Install!Owned
  <2>3. NoneForgotten' BY DEF Install!TypeOK, Ours, NoneForgotten, Install!Owned
  <2>4. VerifiedIsThere' BY DEF Install!TypeOK, NoneForgotten, VerifiedIsThere
  <2> QED BY <2>1, <2>2, <2>3, <2>4
<1>6. CASE Install!RemoveTransaction
  <2> USE <1>0, <1>6 DEF Install!RemoveTransaction, Install!Goto
  <2>1. Install!TypeOK' BY DEF Install!TypeOK, Ours, Install!Owned
  <2>2. Ours' BY DEF Install!TypeOK, Ours, Install!Owned
  <2>3. NoneForgotten' BY DEF Install!TypeOK, Ours, NoneForgotten, Install!Owned
  <2>4. VerifiedIsThere' BY DEF Install!TypeOK, NoneForgotten, VerifiedIsThere
  <2> QED BY <2>1, <2>2, <2>3, <2>4
<1>7. CASE Install!Recovered
  <2> USE <1>0, <1>7 DEF Install!Recovered, Install!Installed, Install!Answers
  <2>1. Install!TypeOK' BY DEF Install!TypeOK, Ours, Install!Owned
  <2>2. Ours' BY DEF Install!TypeOK, Ours, Install!Owned
  <2>3. NoneForgotten' BY DEF Install!TypeOK, Ours, NoneForgotten, Install!Owned
  <2>4. VerifiedIsThere' BY DEF Install!TypeOK, NoneForgotten, VerifiedIsThere
  <2> QED BY <2>1, <2>2, <2>3, <2>4
<1>8. CASE Install!CheckInstalled
  <2> USE <1>0, <1>8 DEF Install!CheckInstalled, Install!Installed, Install!Says, Install!Misread, Install!Goto, Install!Answers
  <2>1. Install!TypeOK'
    <3> USE DEF Install!TypeOK
    <3>1. final' \in Install!Contents /\ staging' \in [Transactions -> Install!Contents]
          /\ backup' \in [Transactions -> Install!Contents]  BY DEF Ours
    <3>2. marker' \in [Transactions -> BOOLEAN] /\ dir' \in [Transactions -> BOOLEAN]  OBVIOUS
    <3>3. pc' \in {"idle", "recover", "clear", "restore", "promote", "remove", "check", "adopt", "adopted", "mark",
                   "stage", "download", "verify", "aside", "activate", "verified"}
          /\ op' \in {"install", "load"} /\ then' \in {"check", "failed", "done"}
          /\ answer' \in {"none", "installed", "loaded", "error"}  OBVIOUS
    <3>4. installTodo' \subseteq Transactions /\ cur' \in Transactions \union {Install!None}
      BY DEF Ours, Install!Owned
    <3>5. errors' \in 0..MaxErrors OBVIOUS
    <3>6. crashes' \in 0..MaxCrashes /\ rots' \in 0..MaxRot OBVIOUS
    <3>7. touched' \in BOOLEAN /\ had' \in {"none", "cached", "valid"} /\ loaded' \in Install!Contents OBVIOUS
    <3> QED BY <3>1, <3>2, <3>3, <3>4, <3>5, <3>6, <3>7
  <2>2. Ours' BY DEF Install!TypeOK, Ours, Install!Owned
  <2>3. NoneForgotten' BY DEF Install!TypeOK, Ours, NoneForgotten, Install!Owned
  <2>4. VerifiedIsThere' BY DEF Install!TypeOK, NoneForgotten, VerifiedIsThere
  <2> QED BY <2>1, <2>2, <2>3, <2>4
<1>9. CASE Install!Adopt
  <2> USE <1>0, <1>9 DEF Install!Adopt, Install!Replace, Install!Answers, Install!Goto
  <2>1. Install!TypeOK'
    <3> USE DEF Install!TypeOK
    <3>1. dir' \in [Transactions -> BOOLEAN] /\ cur' \in Transactions \union {Install!None}
      BY DEF Ours
    <3>2. final' \in Install!Contents /\ had' \in {"none", "cached", "valid"} OBVIOUS
    <3>3. installTodo' \subseteq Transactions /\ UNCHANGED <<marker, staging, backup, touched, loaded, op, then>>
      OBVIOUS
    <3>4. answer' \in {"none", "installed", "loaded", "error"} OBVIOUS
    <3>5. pc' \in {"idle", "adopted", "mark"} OBVIOUS
    <3>6. errors' \in 0..MaxErrors /\ crashes' \in 0..MaxCrashes /\ rots' \in 0..MaxRot OBVIOUS
    <3> QED BY <3>1, <3>2, <3>3, <3>4, <3>5, <3>6
  <2>2. Ours' BY DEF Install!TypeOK, Ours, Install!Owned
  <2>3. NoneForgotten' BY DEF Install!TypeOK, Ours, NoneForgotten, Install!Owned
  <2>4. VerifiedIsThere' BY DEF Install!TypeOK, NoneForgotten, VerifiedIsThere
  <2> QED BY <2>1, <2>2, <2>3, <2>4
<1>10. CASE Install!WriteMarker
  <2> USE <1>0, <1>10 DEF Install!WriteMarker, Install!Goto, Install!Answers
  <2>1. Install!TypeOK'
    <3> USE DEF Install!TypeOK
    <3>1. final' \in Install!Contents /\ staging' \in [Transactions -> Install!Contents]
          /\ backup' \in [Transactions -> Install!Contents]  BY DEF Ours
    <3>2. marker' \in [Transactions -> BOOLEAN] /\ dir' \in [Transactions -> BOOLEAN]  OBVIOUS
    <3>3. pc' \in {"idle", "recover", "clear", "restore", "promote", "remove", "check", "adopt", "adopted", "mark",
                   "stage", "download", "verify", "aside", "activate", "verified"}
          /\ op' \in {"install", "load"} /\ then' \in {"check", "failed", "done"}
          /\ answer' \in {"none", "installed", "loaded", "error"}  OBVIOUS
    <3>4. installTodo' \subseteq Transactions /\ cur' \in Transactions \union {Install!None}
      BY DEF Ours, Install!Owned
    <3>5. errors' \in 0..MaxErrors OBVIOUS
    <3>6. crashes' \in 0..MaxCrashes /\ rots' \in 0..MaxRot OBVIOUS
    <3>7. touched' \in BOOLEAN /\ had' \in {"none", "cached", "valid"} /\ loaded' \in Install!Contents OBVIOUS
    <3> QED BY <3>1, <3>2, <3>3, <3>4, <3>5, <3>6, <3>7
  <2>2. Ours' BY DEF Install!TypeOK, Ours, NoneForgotten, Install!Owned
  <2>3. NoneForgotten' BY DEF Install!TypeOK, Ours, NoneForgotten, Install!Owned
  <2>4. VerifiedIsThere' BY DEF Install!TypeOK, NoneForgotten, VerifiedIsThere
  <2> QED BY <2>1, <2>2, <2>3, <2>4
<1>11. CASE Install!MakeStaging
  <2> USE <1>0, <1>11 DEF Install!MakeStaging, Install!Goto
  <2>1. Install!TypeOK' BY DEF Install!TypeOK, Ours, Install!Owned
  <2>2. Ours' BY DEF Install!TypeOK, Ours, Install!Owned
  <2>3. NoneForgotten' BY DEF Install!TypeOK, Ours, NoneForgotten, Install!Owned
  <2>4. VerifiedIsThere' BY DEF Install!TypeOK, NoneForgotten, VerifiedIsThere
  <2> QED BY <2>1, <2>2, <2>3, <2>4
<1>12. CASE Install!Download
  <2> USE <1>0, <1>12 DEF Install!Download, Install!Goto, Install!Fails
  <2>1. Install!TypeOK' BY DEF Install!TypeOK, Ours, Install!Owned
  <2>2. Ours' BY DEF Install!TypeOK, Ours, Install!Owned
  <2>3. NoneForgotten' BY DEF Install!TypeOK, Ours, NoneForgotten, Install!Owned
  <2>4. VerifiedIsThere' BY DEF Install!TypeOK, NoneForgotten, VerifiedIsThere
  <2> QED BY <2>1, <2>2, <2>3, <2>4
<1>13. CASE Install!VerifyStaging
  <2> USE <1>0, <1>13 DEF Install!VerifyStaging, Install!Says, Install!Misread, Install!Goto, Install!Fails, Install!MayActivate
  <2>1. Install!TypeOK' BY DEF Install!TypeOK, Ours, Install!Owned
  <2>2. Ours' BY DEF Install!TypeOK, Ours, Install!Owned
  <2>3. NoneForgotten' BY DEF Install!TypeOK, Ours, NoneForgotten, Install!Owned
  <2>4. VerifiedIsThere' BY DEF Install!TypeOK, NoneForgotten, VerifiedIsThere
  <2> QED BY <2>1, <2>2, <2>3, <2>4
<1>14. CASE Install!MoveAside
  <2> USE <1>0, <1>14 DEF Install!MoveAside, Install!Goto, Install!Fails
  <2>1. Install!TypeOK'
    <3> USE DEF Install!TypeOK
    <3>1. final' \in Install!Contents /\ staging' \in [Transactions -> Install!Contents]
          /\ backup' \in [Transactions -> Install!Contents]  BY DEF Ours
    <3>2. marker' \in [Transactions -> BOOLEAN] /\ dir' \in [Transactions -> BOOLEAN]  OBVIOUS
    <3>3. pc' \in {"idle", "recover", "clear", "restore", "promote", "remove", "check", "adopt", "adopted", "mark",
                   "stage", "download", "verify", "aside", "activate", "verified"}
          /\ op' \in {"install", "load"} /\ then' \in {"check", "failed", "done"}
          /\ answer' \in {"none", "installed", "loaded", "error"}  OBVIOUS
    <3>4. installTodo' \subseteq Transactions /\ cur' \in Transactions \union {Install!None}
      BY DEF Ours, Install!Owned
    <3>5. errors' \in 0..MaxErrors OBVIOUS
    <3>6. crashes' \in 0..MaxCrashes /\ rots' \in 0..MaxRot OBVIOUS
    <3>7. touched' \in BOOLEAN /\ had' \in {"none", "cached", "valid"} /\ loaded' \in Install!Contents OBVIOUS
    <3> QED BY <3>1, <3>2, <3>3, <3>4, <3>5, <3>6, <3>7
  <2>2. Ours' BY DEF Install!TypeOK, Ours, Install!Owned
  <2>3. NoneForgotten' BY DEF Install!TypeOK, Ours, NoneForgotten, Install!Owned
  <2>4. VerifiedIsThere' BY DEF Install!TypeOK, NoneForgotten, VerifiedIsThere
  <2> QED BY <2>1, <2>2, <2>3, <2>4
<1>15. CASE Install!Activate
  <2> USE <1>0, <1>15 DEF Install!Activate, Install!Says, Install!Misread, Install!Fails
  <2>1. Install!TypeOK'
    <3> USE DEF Install!TypeOK
    <3>1. final' \in Install!Contents /\ staging' \in [Transactions -> Install!Contents]
          /\ backup' \in [Transactions -> Install!Contents]  BY DEF Ours
    <3>2. marker' \in [Transactions -> BOOLEAN] /\ dir' \in [Transactions -> BOOLEAN]  OBVIOUS
    <3>3. pc' \in {"idle", "recover", "clear", "restore", "promote", "remove", "check", "adopt", "adopted", "mark",
                   "stage", "download", "verify", "aside", "activate", "verified"}
          /\ op' \in {"install", "load"} /\ then' \in {"check", "failed", "done"}
          /\ answer' \in {"none", "installed", "loaded", "error"}  OBVIOUS
    <3>4. installTodo' \subseteq Transactions /\ cur' \in Transactions \union {Install!None}
      BY DEF Ours, Install!Owned
    <3>5. errors' \in 0..MaxErrors OBVIOUS
    <3>6. crashes' \in 0..MaxCrashes /\ rots' \in 0..MaxRot OBVIOUS
    <3>7. touched' \in BOOLEAN /\ had' \in {"none", "cached", "valid"} /\ loaded' \in Install!Contents OBVIOUS
    <3> QED BY <3>1, <3>2, <3>3, <3>4, <3>5, <3>6, <3>7
  <2>2. Ours' BY DEF Install!TypeOK, Ours, Install!Owned
  <2>3. NoneForgotten' BY DEF Install!TypeOK, Ours, NoneForgotten, Install!Owned
  <2>4. VerifiedIsThere' BY DEF Install!TypeOK, NoneForgotten, VerifiedIsThere
  <2> QED BY <2>1, <2>2, <2>3, <2>4
<1>16. CASE Install!Load
  <2> USE <1>0, <1>16 DEF Install!Load, Install!SameTree, Install!Answers
  <2>1. Install!TypeOK' BY DEF Install!TypeOK, Ours, Install!Owned
  <2>2. Ours' BY DEF Install!TypeOK, Ours, Install!Owned
  <2>3. NoneForgotten' BY DEF Install!TypeOK, Ours, NoneForgotten, Install!Owned
  <2>4. VerifiedIsThere' BY DEF Install!TypeOK, NoneForgotten, VerifiedIsThere
  <2> QED BY <2>1, <2>2, <2>3, <2>4
<1>17. CASE Install!Rot
  <2> USE <1>0, <1>17 DEF Install!Rot, Install!place
  <2>1. Install!TypeOK'
    <3> USE DEF Install!TypeOK
    <3>1. final' \in Install!Contents /\ staging' \in [Transactions -> Install!Contents]
          /\ backup' \in [Transactions -> Install!Contents]  BY DEF Ours
    <3>2. marker' \in [Transactions -> BOOLEAN] /\ dir' \in [Transactions -> BOOLEAN]  OBVIOUS
    <3>3. pc' \in {"idle", "recover", "clear", "restore", "promote", "remove", "check", "adopt", "adopted", "mark",
                   "stage", "download", "verify", "aside", "activate", "verified"}
          /\ op' \in {"install", "load"} /\ then' \in {"check", "failed", "done"}
          /\ answer' \in {"none", "installed", "loaded", "error"}  OBVIOUS
    <3>4. installTodo' \subseteq Transactions /\ cur' \in Transactions \union {Install!None}
      BY DEF Ours, Install!Owned
    <3>5. errors' \in 0..MaxErrors OBVIOUS
    <3>6. crashes' \in 0..MaxCrashes /\ rots' \in 0..MaxRot OBVIOUS
    <3>7. touched' \in BOOLEAN /\ had' \in {"none", "cached", "valid"} /\ loaded' \in Install!Contents OBVIOUS
    <3> QED BY <3>1, <3>2, <3>3, <3>4, <3>5, <3>6, <3>7
  <2>2. Ours' BY DEF Install!TypeOK, Ours, Install!Owned
  <2>3. NoneForgotten' BY DEF Install!TypeOK, Ours, NoneForgotten, Install!Owned
  <2>4. VerifiedIsThere' BY DEF Install!TypeOK, NoneForgotten, VerifiedIsThere
  <2> QED BY <2>1, <2>2, <2>3, <2>4
<1>18. CASE Install!Crash
  <2> USE <1>0, <1>18 DEF Install!Crash, Install!Answers
  <2>1. Install!TypeOK' BY DEF Install!TypeOK, Ours, Install!Owned
  <2>2. Ours' BY DEF Install!TypeOK, Ours, Install!Owned
  <2>3. NoneForgotten' BY DEF Install!TypeOK, Ours, NoneForgotten, Install!Owned
  <2>4. VerifiedIsThere' BY DEF Install!TypeOK, NoneForgotten, VerifiedIsThere
  <2> QED BY <2>1, <2>2, <2>3, <2>4
<1>19. ASSUME NEW request \in {"install", "load"}, Install!Start(request) PROVE InstallInvariant'
  <2> USE <1>0, <1>19 DEF Install!Start
  <2>1. Install!TypeOK' BY DEF Install!TypeOK, Install!Owned
  <2>2. Ours' BY DEF Install!TypeOK, Ours, Install!Owned
  <2>3. NoneForgotten' BY DEF Install!TypeOK, Ours, NoneForgotten, Install!Owned
  <2>4. VerifiedIsThere' BY DEF Install!TypeOK, NoneForgotten, VerifiedIsThere
  <2> QED BY <2>1, <2>2, <2>3, <2>4
<1>20. CASE Install!Adopted
  <2> USE <1>0, <1>20 DEF Install!Adopted, Install!Replace, Install!Installed, Install!Says, Install!Misread,
          Install!Answers, Install!Goto
  <2>1. Install!TypeOK'
    <3> USE DEF Install!TypeOK
    <3>1. dir' \in [Transactions -> BOOLEAN] /\ cur' \in Transactions \union {Install!None}
      BY DEF Ours
    <3>2. final' \in Install!Contents /\ had' \in {"none", "cached", "valid"} OBVIOUS
    <3>3. installTodo' \subseteq Transactions /\ UNCHANGED <<marker, staging, backup, touched, loaded, op, then>>
      OBVIOUS
    <3>4. answer' \in {"none", "installed", "loaded", "error"} OBVIOUS
    <3>5. pc' \in {"idle", "adopted", "mark"} OBVIOUS
    <3>6. errors' \in 0..MaxErrors /\ crashes' \in 0..MaxCrashes /\ rots' \in 0..MaxRot OBVIOUS
    <3> QED BY <3>1, <3>2, <3>3, <3>4, <3>5, <3>6
  <2>2. Ours' BY DEF Install!TypeOK, Ours, NoneForgotten, Install!Owned
  <2>3. NoneForgotten' BY DEF Install!TypeOK, Ours, NoneForgotten, Install!Owned
  <2>4. VerifiedIsThere' BY DEF Install!TypeOK, NoneForgotten, VerifiedIsThere
  <2> QED BY <2>1, <2>2, <2>3, <2>4
<1>21. CASE UNCHANGED Install!vars
  BY <1>21 DEF Install!vars, Install!TypeOK, Ours, NoneForgotten, VerifiedIsThere, Install!Owned
<1> QED BY <1>1, <1>2, <1>3, <1>4, <1>5, <1>6, <1>7, <1>8, <1>9, <1>10, <1>11, <1>12, <1>13, <1>14, <1>15, <1>16, <1>17, <1>18, <1>19, <1>20, <1>21 DEF Install!Next, Install!Step

LEMMA CopyStarts == ASSUME Install!Init PROVE CopyInvariant
BY DEF Install!Init, Install!Contents, CopyInvariant, Costs, Before, Kept, Good, Filling, Live, Dear

LEMMA CopyStep ==
  ASSUME Install!ModelInstallAssumption, InstallInvariant, CopyInvariant,
         [Install!Next]_(Install!vars)
  PROVE  CopyInvariant'
<1> USE DEF InstallInvariant, CopyInvariant, Install!disk, Install!place, Install!bounds, Install!Contents,
        Install!None, Recovering, Filling, Good, Live, Dear
<1>0. errors \in Nat /\ had \in {"none", "cached", "valid"} /\ MaxErrors \in Nat
  BY DEF Install!TypeOK, Install!ModelInstallAssumption
<1>1. CASE Install!Recover
  <2> USE <1>0, <1>1 DEF Install!Recover, Install!Says, Install!Misread, Install!Decide, Install!TypeOK
  <2>1. Costs' BY DEF Ours, Costs, Before
  <2>2. Before'
    <3>1. PICK t \in installTodo, f \in BOOLEAN, b \in BOOLEAN, s \in BOOLEAN :
            /\ f => final = "valid"
            /\ b => backup[t] = "valid"
            /\ s => staging[t] = "valid"
            /\ final = "valid" /\ ~f => errors' >= errors + 1
            /\ errors' \in Nat /\ errors' >= errors
            /\ cur' = t /\ pc' = Install!Decide(t, f, b, s)
      OBVIOUS
    <3>2. t \in Transactions /\ UNCHANGED <<final, marker, staging, backup, dir, had>> OBVIOUS
    <3>3. CASE pc' = "clear"
      <4>1. ~f /\ b /\ final # "none" BY <3>1, <3>3
      <4>2. backup[t] = "valid" /\ errors >= 1 /\ final # "cached" BY <3>1, <3>2, <4>1 DEF Costs
      <4>3. marker[t] BY <3>1 DEF Ours
      <4>4. Live' => Live BY <3>1, <3>2
      <4>5. Live /\ final = "bad" => errors >= 2 BY DEF Kept, Somewhere
      <4>6. final \in {"bad", "valid"} BY <4>1, <4>2
      <4>7. Live' => errors' >= 2 BY <3>1, <4>1, <4>2, <4>4, <4>5, <4>6
      <4>8. cur' = t /\ backup'[t] = "valid" /\ marker'[t] BY <3>1, <3>2, <4>2, <4>3
      <4> QED BY <3>3, <4>7, <4>8 DEF Before
    <3>4. CASE pc' # "clear"
      <4>1. pc' = "restore" => backup'[cur'] = "valid" /\ marker'[cur']
        <5>1. pc' = "restore" => b BY <3>1
        <5> QED BY <3>1, <3>2, <5>1 DEF Ours
      <4>2. pc' = "promote" => staging'[cur'] = "valid" /\ final' = "none"
        <5>1. pc' = "promote" => s /\ final = "none" BY <3>1
        <5> QED BY <3>1, <3>2, <5>1
      <4>3. pc' \in {"restore", "promote", "remove"} BY <3>1, <3>4
      <4> QED BY <3>4, <4>1, <4>2, <4>3 DEF Before
    <3> QED BY <3>3, <3>4
  <2>3. Kept' BY DEF Ours, Costs, Before, Kept, Somewhere, NoneForgotten, Install!Owned
  <2> QED BY <2>1, <2>2, <2>3
<1>2. CASE Install!ClearFinal
  <2> USE <1>0, <1>2 DEF Install!ClearFinal, Install!Goto, Install!TypeOK
  <2>1. Costs' BY DEF Ours, Costs, Before
  <2>2. Before' BY DEF Ours, Costs, Before, Kept, Somewhere, NoneForgotten, Install!Owned
  <2>3. Kept' BY DEF Ours, Costs, Before, Kept, Somewhere, NoneForgotten, Install!Owned
  <2> QED BY <2>1, <2>2, <2>3
<1>3. CASE Install!RestoreBackup
  <2> USE <1>0, <1>3 DEF Install!RestoreBackup, Install!Rename, Install!Says, Install!Misread, Install!Goto, Install!Answers, Install!TypeOK
  <2>1. Costs' BY DEF Ours, Costs, Before
  <2>2. Before' BY DEF Ours, Costs, Before, Kept, Somewhere, NoneForgotten, Install!Owned
  <2>3. Kept' BY DEF Ours, Costs, Before, Kept, Somewhere, NoneForgotten, Install!Owned
  <2> QED BY <2>1, <2>2, <2>3
<1>4. CASE Install!PromoteStaging
  <2> USE <1>0, <1>4 DEF Install!PromoteStaging, Install!Rename, Install!Says, Install!Misread, Install!Goto, Install!Answers, Install!TypeOK
  <2>1. Costs' BY DEF Ours, Costs, Before
  <2>2. Before' BY DEF Ours, Costs, Before, Kept, Somewhere, NoneForgotten, Install!Owned
  <2>3. Kept' BY DEF Ours, Costs, Before, Kept, Somewhere, NoneForgotten, Install!Owned
  <2> QED BY <2>1, <2>2, <2>3
<1>5. CASE Install!RemoveEntry
  <2> USE <1>0, <1>5 DEF Install!RemoveEntry, Install!place, Install!TypeOK
  <2>1. Costs' BY DEF Ours, Costs, Before
  <2>2. Before' BY DEF Ours, Costs, Before, Kept, Somewhere, NoneForgotten, Install!Owned
  <2>3. Kept' BY DEF Ours, Costs, Before, Kept, Somewhere, NoneForgotten, Install!Owned
  <2> QED BY <2>1, <2>2, <2>3
<1>6. CASE Install!RemoveTransaction
  <2> USE <1>0, <1>6 DEF Install!RemoveTransaction, Install!Goto, Install!TypeOK
  <2>1. Costs' BY DEF Ours, Costs, Before
  <2>2. Before' BY DEF Ours, Costs, Before, Kept, Somewhere, NoneForgotten, Install!Owned
  <2>3. Kept' BY DEF Ours, Costs, Before, Kept, Somewhere, NoneForgotten, Install!Owned
  <2> QED BY <2>1, <2>2, <2>3
<1>7. CASE Install!Recovered
  <2>1. /\ pc = "recover" /\ installTodo = {} /\ pc' \in {"check", "idle"}
        /\ answer' = "installed" => final = "valid"
        /\ had' = (IF answer' = "installed" THEN "valid" ELSE had)
        /\ UNCHANGED <<final, marker, staging, backup, dir, errors>>
    BY <1>7 DEF Install!Recovered, Install!Installed, Install!Answers, Install!TypeOK, VerifiedIsThere
  <2>2. Install!Owned = {} BY <2>1 DEF NoneForgotten
  <2>3. \A t \in Transactions : ~marker[t] BY <2>2 DEF Ours, Install!Owned
  <2>4. Live => final \in Good BY <2>1, <2>3 DEF Kept, Somewhere
  <2>5. Live' => final' \in Good BY <2>1, <2>4
  <2>6. Costs' BY <1>0, <2>1 DEF Costs
  <2>7. Before' BY <2>1, <2>5 DEF Before
  <2>8. Kept' BY <2>5 DEF Kept
  <2> QED BY <2>6, <2>7, <2>8
<1>8. CASE Install!CheckInstalled
  <2>0. PICK ok \in BOOLEAN :
          /\ errors' = errors + Install!Misread(final, ok) /\ errors' <= MaxErrors
          /\ ok => final = "valid"
          /\ pc' \in {"verified", "idle", "adopt"} /\ (ok => pc' # "adopt")
          /\ answer' = "installed" => ok \/ answer = "installed"
    BY <1>8 DEF Install!CheckInstalled, Install!Installed, Install!Says, Install!Goto, Install!Answers, Install!TypeOK
  <2>1. /\ pc = "check" /\ UNCHANGED <<final, marker, staging, backup, dir>>
        /\ had' = (IF answer' = "installed" THEN "valid" ELSE had)
    BY <1>8 DEF Install!CheckInstalled
  <2>2. errors' \in Nat /\ errors' >= errors /\ (pc' = "adopt" /\ final = "valid" => errors' >= errors + 1)
    BY <1>0, <2>0 DEF Install!Misread
  <2>3. Live' => final' \in Good
    BY <1>0, <2>0, <2>1, <2>2 DEF Before, VerifiedIsThere
  <2>4. had' = "valid" \/ had' = had BY <2>1
  <2>5. Costs'
    <3>1. answer' = "installed" => final = "valid" BY <2>0, <2>1 DEF VerifiedIsThere
    <3>2. pc' = "adopt" /\ final' = "valid" => errors' >= Dear' BY <1>0, <2>1, <2>2, <2>4 DEF Costs
    <3> QED BY <1>0, <2>0, <2>1, <2>2, <2>4, <3>1, <3>2 DEF Costs
  <2>6. Before' BY <2>0, <2>3 DEF Before
  <2>7. Kept' BY <2>3 DEF Kept
  <2> QED BY <2>5, <2>6, <2>7
<1>9. CASE Install!Adopt
  <2> USE <1>0, <1>9 DEF Install!Adopt, Install!Replace, Install!Answers, Install!Goto, Install!TypeOK
  <2>1. Costs' BY DEF Ours, Costs, Before
  <2>2. Before' BY DEF Ours, Costs, Before, Kept, Somewhere, NoneForgotten, Install!Owned
  <2>3. Kept' BY DEF Ours, Costs, Before, Kept, Somewhere, NoneForgotten, Install!Owned
  <2> QED BY <2>1, <2>2, <2>3
<1>10. CASE Install!WriteMarker
  <2> USE <1>0, <1>10 DEF Install!WriteMarker, Install!Goto, Install!Answers, Install!TypeOK
  <2>1. Costs' BY DEF Ours, Costs, Before
  <2>2. Before' BY DEF Ours, Costs, Before, Kept, Somewhere, NoneForgotten, Install!Owned
  <2>3. Kept' BY DEF Ours, Costs, Before, Kept, Somewhere, NoneForgotten, Install!Owned
  <2> QED BY <2>1, <2>2, <2>3
<1>11. CASE Install!MakeStaging
  <2> USE <1>0, <1>11 DEF Install!MakeStaging, Install!Goto, Install!TypeOK
  <2>1. Costs' BY DEF Ours, Costs, Before
  <2>2. Before' BY DEF Ours, Costs, Before, Kept, Somewhere, NoneForgotten, Install!Owned
  <2>3. Kept' BY DEF Ours, Costs, Before, Kept, Somewhere, NoneForgotten, Install!Owned
  <2> QED BY <2>1, <2>2, <2>3
<1>12. CASE Install!Download
  <2> USE <1>0, <1>12 DEF Install!Download, Install!Goto, Install!Fails, Install!TypeOK
  <2>1. Costs' BY DEF Ours, Costs, Before
  <2>2. Before' BY DEF Ours, Costs, Before, Kept, Somewhere, NoneForgotten, Install!Owned
  <2>3. Kept' BY DEF Ours, Costs, Before, Kept, Somewhere, NoneForgotten, Install!Owned
  <2> QED BY <2>1, <2>2, <2>3
<1>13. CASE Install!VerifyStaging
  <2> USE <1>0, <1>13 DEF Install!VerifyStaging, Install!Says, Install!Misread, Install!Goto, Install!Fails, Install!MayActivate, Install!TypeOK
  <2>1. Costs' BY DEF Ours, Costs, Before
  <2>2. Before' BY DEF Ours, Costs, Before, Kept, Somewhere, NoneForgotten, Install!Owned
  <2>3. Kept' BY DEF Ours, Costs, Before, Kept, Somewhere, NoneForgotten, Install!Owned
  <2> QED BY <2>1, <2>2, <2>3
<1>14. CASE Install!MoveAside
  <2> USE <1>0, <1>14 DEF Install!MoveAside, Install!Goto, Install!Fails, Install!TypeOK
  <2>1. Costs' BY DEF Ours, Costs, Before
  <2>2. Before' BY DEF Ours, Costs, Before, Kept, Somewhere, NoneForgotten, Install!Owned
  <2>3. Kept' BY DEF Ours, Costs, Before, Kept, Somewhere, NoneForgotten, Install!Owned
  <2> QED BY <2>1, <2>2, <2>3
<1>15. CASE Install!Activate
  <2> USE <1>0, <1>15 DEF Install!Activate, Install!Says, Install!Misread, Install!TypeOK
  <2>0. cur \in Transactions /\ pc = "activate" /\ final = "none" /\ staging[cur] = "valid" /\ marker[cur]
        /\ (Live => backup[cur] \in Good) /\ (backup[cur] = "cached" => had # "valid")
        /\ UNCHANGED <<marker, had>> /\ marker \in [Transactions -> BOOLEAN]
    BY DEF Ours, Before
  <2>1. CASE final' = "valid" /\ staging' = [staging EXCEPT ![cur] = "none"] /\ backup' = backup
              /\ pc' \in {"remove", "recover"} /\ errors' >= errors
    BY <2>0, <2>1 DEF Costs, Before, Kept
  <2>2. CASE /\ staging' = staging /\ pc' = "recover" /\ backup[cur] = "valid"
             /\ final' = "valid" /\ backup' = [backup EXCEPT ![cur] = "none"] /\ errors' = errors
    BY <2>0, <2>2 DEF Costs, Before, Kept
  <2>3. CASE /\ staging' = staging /\ pc' = "recover" /\ final' = "none" /\ backup' = backup
             /\ errors' >= errors
    <3>1. Costs' BY <2>0, <2>3 DEF Costs
    <3>2. Before' BY <2>0, <2>3 DEF Before
    <3>3. Kept'
      <4>1. marker'[cur] /\ staging'[cur] = "valid" BY <2>0, <2>3
      <4>2. Live' => backup'[cur] \in Good BY <2>0, <2>3
      <4>3. Live' => had' = "cached" \/ backup'[cur] = "valid"
        BY <1>0, <2>0, <2>3, <4>2
      <4> QED BY <2>0, <2>3, <4>1, <4>2, <4>3 DEF Kept, Somewhere
    <3> QED BY <3>1, <3>2, <3>3
  <2>4. \/ /\ final' = "valid" /\ staging' = [staging EXCEPT ![cur] = "none"] /\ backup' = backup
           /\ pc' \in {"remove", "recover"} /\ errors' >= errors
        \/ /\ staging' = staging /\ pc' = "recover" /\ backup[cur] = "valid"
           /\ final' = "valid" /\ backup' = [backup EXCEPT ![cur] = "none"] /\ errors' = errors
        \/ /\ staging' = staging /\ pc' = "recover" /\ final' = "none" /\ backup' = backup
           /\ errors' >= errors
    BY <2>0 DEF Install!Fails
  <2> QED BY <2>1, <2>2, <2>3, <2>4
<1>16. CASE Install!Load
  <2> USE <1>0, <1>16 DEF Install!Load, Install!SameTree, Install!Answers, Install!TypeOK
  <2>1. Costs' BY DEF Ours, Costs, Before
  <2>2. Before' BY DEF Ours, Costs, Before, Kept, Somewhere, NoneForgotten, Install!Owned
  <2>3. Kept' BY DEF Ours, Costs, Before, Kept, Somewhere, NoneForgotten, Install!Owned
  <2> QED BY <2>1, <2>2, <2>3
<1>17. CASE Install!Rot
  <2> USE <1>0, <1>17 DEF Install!Rot, Install!place, Install!TypeOK
  <2>1. Costs' BY DEF Ours, Costs, Before
  <2>2. Before' BY DEF Ours, Costs, Before, Kept, Somewhere, NoneForgotten, Install!Owned
  <2>3. Kept' BY DEF Ours, Costs, Before, Kept, Somewhere, NoneForgotten, Install!Owned
  <2> QED BY <2>1, <2>2, <2>3
<1>18. CASE Install!Crash
  <2> USE <1>0, <1>18 DEF Install!Crash, Install!Answers, Install!TypeOK
  <2>1. Costs' BY DEF Ours, Costs, Before
  <2>2. Before' BY DEF Ours, Costs, Before, Kept, Somewhere, NoneForgotten, Install!Owned
  <2>3. Kept' BY DEF Ours, Costs, Before, Kept, Somewhere, NoneForgotten, Install!Owned
  <2> QED BY <2>1, <2>2, <2>3
<1>19. ASSUME NEW request \in {"install", "load"}, Install!Start(request) PROVE CopyInvariant'
  <2> USE <1>0, <1>19 DEF Install!Start, Install!TypeOK
  <2>1. Costs' BY DEF Ours, Costs, Before
  <2>2. Before' BY DEF Ours, Costs, Before, Kept, Somewhere, NoneForgotten, Install!Owned
  <2>3. Kept' BY DEF Ours, Costs, Before, Kept, Somewhere, NoneForgotten, Install!Owned
  <2> QED BY <2>1, <2>2, <2>3
<1>20. CASE Install!Adopted
  <2> USE <1>0, <1>20 DEF Install!Adopted, Install!Replace, Install!Installed, Install!Says, Install!Misread,
          Install!Answers, Install!Goto, Install!TypeOK
  <2>1. Costs' BY DEF Ours, Costs, Before
  <2>2. Before' BY DEF Ours, Costs, Before, Kept, Somewhere, NoneForgotten, Install!Owned
  <2>3. Kept' BY DEF Ours, Costs, Before, Kept, Somewhere, NoneForgotten, Install!Owned
  <2> QED BY <2>1, <2>2, <2>3
<1>21. CASE UNCHANGED Install!vars
  BY <1>21 DEF Install!vars, Costs, Before, Kept, Somewhere
<1> QED BY <1>1, <1>2, <1>3, <1>4, <1>5, <1>6, <1>7, <1>8, <1>9, <1>10, <1>11, <1>12, <1>13, <1>14, <1>15, <1>16, <1>17, <1>18, <1>19, <1>20, <1>21 DEF Install!Next, Install!Step

\* Whatever the bounds, however often the process ends, files rot and reads fail.
THEOREM InstallInvariantHolds ==
  ASSUME Install!ModelInstallAssumption PROVE Install!Spec => []InstallInvariant
<1>1. Install!Init => InstallInvariant BY InstallStarts
<1>2. InstallInvariant /\ [Install!Next]_(Install!vars) => InstallInvariant' BY InstallStep
<1> QED BY <1>1, <1>2, PTL DEF Install!Spec

\* The runtime is constructed from a verified directory, and what only looks like a
\* transaction is left alone (_owned_model_transaction()).
THEOREM LoadsOnlyVerified ==
  ASSUME Install!ModelInstallAssumption
  PROVE  Install!Spec => [](Install!LoadedIsVerified /\ Install!LookalikesStay)
<1>1. InstallInvariant => Install!LoadedIsVerified /\ Install!LookalikesStay
  BY DEF InstallInvariant, Ours, VerifiedIsThere, Install!LoadedIsVerified, Install!LookalikesStay
<1> QED BY <1>1, InstallInvariantHolds, PTL

\* An installation that says it succeeded has left a valid directory and no transaction.
THEOREM InstallsWhole ==
  ASSUME Install!ModelInstallAssumption PROVE Install!Spec => [][Install!InstalledIsWhole]_(Install!vars)
<1>1. InstallInvariant /\ [Install!Next]_(Install!vars) => [Install!InstalledIsWhole]_(Install!vars)
  <2> SUFFICES ASSUME InstallInvariant, Install!Next, answer # "installed", answer' = "installed"
               PROVE  final' = "valid" /\ Install!Owned' = {}
    BY DEF Install!InstalledIsWhole
  <2> USE DEF InstallInvariant, NoneForgotten, Ours, Install!TypeOK, Install!Owned, Install!disk, Install!Goto,
          Install!Answers, Install!Fails, Install!Says, Install!Misread
  <2>1. CASE Install!Recovered BY <2>1 DEF Install!Recovered, Install!Installed
  <2>2. CASE Install!CheckInstalled BY <2>2 DEF Install!CheckInstalled, Install!Installed
  <2>3. CASE Install!Adopt \/ Install!Adopted
    BY <2>3 DEF Install!Adopt, Install!Adopted, Install!Installed, Install!Replace
  <2>4. CASE Install!RestoreBackup \/ Install!PromoteStaging
    BY <2>4 DEF Install!RestoreBackup, Install!PromoteStaging, Install!Rename
  <2>5. CASE Install!WriteMarker \/ Install!Load \/ Install!Crash
    BY <2>5 DEF Install!WriteMarker, Install!Load, Install!Crash
  <2>6. CASE \E request \in {"install", "load"} : Install!Start(request) BY <2>6 DEF Install!Start
  <2>7. CASE \/ Install!Recover \/ Install!ClearFinal \/ Install!RemoveEntry \/ Install!RemoveTransaction
             \/ Install!MakeStaging \/ Install!Download \/ Install!VerifyStaging \/ Install!MoveAside
             \/ Install!Activate \/ Install!Rot
    BY <2>7 DEF Install!Recover, Install!ClearFinal, Install!RemoveEntry, Install!RemoveTransaction,
       Install!MakeStaging, Install!Download, Install!VerifyStaging, Install!MoveAside, Install!Activate, Install!Rot
  <2> QED BY <2>1, <2>2, <2>3, <2>4, <2>5, <2>6, <2>7 DEF Install!Next, Install!Step
<1> QED BY <1>1, InstallInvariantHolds, PTL DEF Install!Spec

\* Over any number of crashes, a good copy that nothing outside has spoilt is installed
\* or will be found: one that was installed while no more than two reads fail, one that
\* has its download cache while no more than one does.
THEOREM GoodCopyStays ==
  ASSUME Install!ModelInstallAssumption PROVE Install!Spec => []Install!GoodCopyIsKept
<1>1. Install!Init => InstallInvariant /\ CopyInvariant BY InstallStarts, CopyStarts
<1>2. InstallInvariant /\ CopyInvariant /\ [Install!Next]_(Install!vars) => (InstallInvariant /\ CopyInvariant)'
  BY InstallStep, CopyStep
<1>3. CopyInvariant => Install!GoodCopyIsKept
  BY DEF CopyInvariant, Kept, Somewhere, Good, Live, Install!GoodCopyIsKept
<1> QED BY <1>1, <1>2, <1>3, PTL DEF Install!Spec
=============================================================================
