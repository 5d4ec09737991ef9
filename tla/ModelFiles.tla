------------------------------ MODULE ModelFiles ------------------------------
(***************************************************************************)
(* The verification of an installed model in the main process, and the     *)
(* memory of digests that spares it the reading (src/main/modelSpec.ts,    *)
(* verifyModelDirectory(), modelArtifactIsVerifiedNow(), sha256File()).    *)
(*                                                                         *)
(* A verification awaits between any two looks at the file system, other   *)
(* verifications run meanwhile, and other programs may write, replace or   *)
(* touch a file.  A file is an inode behind a path; an open handle stays   *)
(* with its inode.  A file's content is two blocks, each right or wrong,   *)
(* its digest is right when both blocks read were.  Every write of an      *)
(* inode gives it a new ctime; its mtime can be set to any value.          *)
(*                                                                         *)
(* A definition whose comment starts with "Mistake" is a plausible wrong   *)
(* version of the one after it; no specification uses it.                  *)
(***************************************************************************)
EXTENDS Naturals, Sequences, FiniteSets

CONSTANTS
  Files,      \* the files the manifest names
  Verifiers,  \* full verifications
  Probes,     \* questions whether the artifact is verified now
  Limit,      \* DIGEST_CACHE_LIMIT
  MaxClock,   \* bound: changes of a file
  MaxRuns     \* bound: runs of a verifier or a probe

ASSUME FilesAssumption ==
  /\ IsFiniteSet(Files) /\ "none" \notin Files /\ Verifiers \intersect Probes = {}
  /\ Limit \in Nat \ {0} /\ MaxClock \in Nat /\ MaxRuns \in Nat

VARIABLES
  place,   \* what lies at the artifact's directory
  extra,   \* what lies in it beside the manifest's files
  path,    \* the inode each path names, or NoInode
  inode,   \* [data, size, mtime, ctime] of each
  clock,
  memo,    \* digestByFileIdentity
  at, todo, file, handle, stamp, read, \* a run: where it is, and its look at a file
  exact, good, verdict,
  dirty,   \* whether anything changed since the run began
  runs

disk == <<place, extra, path, inode, clock>>
run  == <<at, todo, file, handle, stamp, read, exact, good, verdict>>
vars == <<disk, memo, run, dirty, runs>>

Runners == Verifiers \union Probes
NoInode == 0
Inodes  == 1 .. (Cardinality(Files) + MaxClock)
NoFile  == "none"
Right   == <<TRUE, TRUE>>
NoStamp == [ino |-> NoInode, size |-> FALSE, mtime |-> 0, ctime |-> 0]
NoMemo  == [stamp |-> NoStamp, digest |-> FALSE]
Stamps  == [ino : Inodes \union {NoInode}, size : BOOLEAN, mtime : 0 .. MaxClock, ctime : 0 .. MaxClock]

TypeOK ==
  /\ place \in {"none", "link", "directory"} /\ extra \in {"none", "sidecar", "foreign"}
  /\ path \in [Files -> Inodes \union {NoInode}]
  /\ inode \in [Inodes -> [data : BOOLEAN \X BOOLEAN, size : BOOLEAN, mtime : 0 .. MaxClock, ctime : 0 .. MaxClock]]
  /\ clock \in 0 .. MaxClock
  /\ memo \in [Files -> [stamp : Stamps, digest : BOOLEAN]]
  /\ Cardinality({f \in Files : memo[f] # NoMemo}) <= Limit
  /\ at \in [Runners -> {"idle", "entries", "next", "opened", "first", "second", "after"}]
  /\ file \in [Runners -> Files \union {NoFile}] /\ handle \in [Runners -> Inodes \union {NoInode}]
  /\ stamp \in [Runners -> Stamps] /\ read \in [Runners -> Seq(BOOLEAN)] /\ exact \in [Runners -> BOOLEAN]
  /\ todo \in [Runners -> SUBSET Files] /\ good \in [Runners -> SUBSET Files]
  /\ verdict \in [Runners -> {"none", "missing", "invalid", "verified"}]
  /\ dirty \in [Runners -> BOOLEAN] /\ runs \in [Runners -> 0 .. MaxRuns]

\* The installed files, each its own inode, of which one may be damaged.
Init ==
  /\ place \in {"none", "link", "directory"}
  /\ extra \in (IF place = "directory" THEN {"none", "sidecar", "foreign"} ELSE {"none"})
  /\ path \in {p \in [Files -> 1 .. Cardinality(Files)] : \A f, g \in Files : p[f] = p[g] => f = g}
  /\ \E d \in {Right, <<FALSE, TRUE>>}, z \in BOOLEAN :
       inode = [i \in Inodes |-> [data |-> IF i = 1 THEN d ELSE Right, size |-> z \/ i # 1, mtime |-> 0, ctime |-> 0]]
  /\ clock = 0 /\ memo = [f \in Files |-> NoMemo]
  /\ at = [r \in Runners |-> "idle"] /\ todo = [r \in Runners |-> {}] /\ file = [r \in Runners |-> NoFile]
  /\ handle = [r \in Runners |-> NoInode] /\ stamp = [r \in Runners |-> NoStamp]
  /\ read = [r \in Runners |-> <<>>] /\ exact = [r \in Runners |-> FALSE]
  /\ good = [r \in Runners |-> {}] /\ verdict = [r \in Runners |-> "none"]
  /\ dirty = [r \in Runners |-> FALSE] /\ runs = [r \in Runners |-> 0]

-----------------------------------------------------------------------------
\* Mistake: the time of the last write tells one version from another.
IdentityByTime(i) == [ino |-> i, size |-> inode[i].size, mtime |-> inode[i].mtime, ctime |-> 0]
Identity(i) == [ino |-> i, size |-> inode[i].size, mtime |-> inode[i].mtime, ctime |-> inode[i].ctime]

Present(f) == path[f] # NoInode
Sized(f)   == Present(f) /\ inode[path[f]].size

\* Mistake: anything beside the declared files spoils the artifact.
TolerateNothing == extra = "none"
Tolerated == extra \in {"none", "sidecar"}
EntriesMatch == Tolerated /\ \A f \in Files : Present(f)

Step(r, control) == at' = [at EXCEPT ![r] = control]
Answers(r, v) ==
  /\ verdict' = [verdict EXCEPT ![r] = v]
  /\ Step(r, "idle") /\ file' = [file EXCEPT ![r] = NoFile]
  /\ handle' = [handle EXCEPT ![r] = NoInode] /\ stamp' = [stamp EXCEPT ![r] = NoStamp]
  /\ read' = [read EXCEPT ![r] = <<>>] /\ todo' = [todo EXCEPT ![r] = {}]
  /\ good' = [good EXCEPT ![r] = {}] /\ exact' = [exact EXCEPT ![r] = FALSE]

StartRun(r) ==
  /\ at[r] = "idle" /\ runs[r] < MaxRuns
  /\ runs' = [runs EXCEPT ![r] = @ + 1]
  /\ verdict' = [verdict EXCEPT ![r] = "none"] /\ dirty' = [dirty EXCEPT ![r] = FALSE]
  /\ Step(r, "entries") /\ todo' = [todo EXCEPT ![r] = Files]
  /\ UNCHANGED <<disk, memo, file, handle, stamp, read, exact, good>>

Look(r) ==
  /\ at[r] = "entries"
  /\ CASE place = "none" -> Answers(r, IF r \in Probes THEN "invalid" ELSE "missing")
       [] place = "link" -> Answers(r, "invalid")
       [] place = "directory" ->
            IF r \in Probes /\ ~EntriesMatch THEN Answers(r, "invalid")
            ELSE /\ exact' = [exact EXCEPT ![r] = EntriesMatch] /\ Step(r, "next")
                 /\ UNCHANGED <<todo, file, handle, stamp, read, good, verdict>>
  /\ UNCHANGED <<disk, memo, dirty, runs>>

\* The manifest's order of the files does not matter to any answer.
Known(f) == memo[f].digest /\ memo[f].stamp = Identity(path[f])

Ask(r, f) ==
  /\ r \in Probes /\ at[r] = "next" /\ f \in todo[r]
  /\ IF Sized(f) /\ Known(f)
     THEN IF todo[r] = {f} THEN Answers(r, "verified")
          ELSE todo' = [todo EXCEPT ![r] = @ \ {f}] /\ UNCHANGED <<at, file, handle, stamp, read, exact, good, verdict>>
     ELSE Answers(r, "invalid")
  /\ UNCHANGED <<disk, memo, dirty, runs>>

\* A file that is absent, or has another size, is not opened.
Open(r, f) ==
  /\ r \in Verifiers /\ at[r] = "next" /\ f \in todo[r]
  /\ todo' = [todo EXCEPT ![r] = @ \ {f}]
  /\ IF Sized(f)
     THEN /\ file' = [file EXCEPT ![r] = f] /\ handle' = [handle EXCEPT ![r] = path[f]]
          /\ Step(r, "opened")
     ELSE UNCHANGED <<file, handle, at>>
  /\ UNCHANGED <<disk, memo, stamp, read, exact, good, verdict, dirty, runs>>

Skip(r) == /\ Step(r, "next") /\ file' = [file EXCEPT ![r] = NoFile]
           /\ handle' = [handle EXCEPT ![r] = NoInode] /\ stamp' = [stamp EXCEPT ![r] = NoStamp]
           /\ read' = [read EXCEPT ![r] = <<>>]
Counts(r, digest) == good' = [good EXCEPT ![r] = IF digest THEN @ \union {file[r]} ELSE @]

SameAsPath(r) == path[file[r]] = handle[r] /\ inode[handle[r]].size

Check(r) ==
  /\ at[r] = "opened"
  /\ LET identity == Identity(handle[r])
         known == memo[file[r]]
     IN CASE ~SameAsPath(r) -> Skip(r) /\ UNCHANGED good
          [] SameAsPath(r) /\ known.stamp = identity -> Counts(r, known.digest) /\ Skip(r)
          [] SameAsPath(r) /\ known.stamp # identity ->
               /\ stamp' = [stamp EXCEPT ![r] = identity] /\ Step(r, "first")
               /\ UNCHANGED <<file, handle, read, good>>
  /\ UNCHANGED <<disk, memo, todo, exact, verdict, dirty, runs>>

ReadBlock(r) ==
  /\ at[r] \in {"first", "second"}
  /\ LET block == IF at[r] = "first" THEN 1 ELSE 2
     IN read' = [read EXCEPT ![r] = Append(@, inode[handle[r]].data[block])]
  /\ Step(r, IF at[r] = "first" THEN "second" ELSE "after")
  /\ UNCHANGED <<disk, memo, todo, file, handle, stamp, exact, good, verdict, dirty, runs>>

\* Mistake: the digest is kept under the stamp from after the reading.
KeptAfter(r) == Identity(handle[r])
\* What the digest is kept under; NoStamp when it is not kept.
KeptUnder(r) == IF stamp[r] = Identity(handle[r]) THEN stamp[r] ELSE NoStamp

\* Mistake: the memory only grows.
FullNever == FALSE
Full == Cardinality({f \in Files : memo[f] # NoMemo}) >= Limit

Record(r) ==
  /\ at[r] = "after"
  /\ LET digest == read[r] = Right
         cleared == IF Full THEN [f \in Files |-> NoMemo] ELSE memo
     IN /\ memo' = IF ~SameAsPath(r) \/ KeptUnder(r) = NoStamp THEN memo
                   ELSE [cleared EXCEPT ![file[r]] = [stamp |-> KeptUnder(r), digest |-> digest]]
        /\ Counts(r, digest /\ SameAsPath(r))
  /\ Skip(r)
  /\ UNCHANGED <<disk, todo, exact, verdict, dirty, runs>>

Conclude(r) ==
  /\ r \in Verifiers /\ at[r] = "next" /\ todo[r] = {}
  /\ Answers(r, IF exact[r] /\ good[r] = Files THEN "verified" ELSE "invalid")
  /\ UNCHANGED <<disk, memo, dirty, runs>>

-----------------------------------------------------------------------------
(* Other programs *)

Changed == dirty' = [r \in Runners |-> TRUE] /\ clock' = clock + 1 /\ clock < MaxClock

\* A write in place, which keeps the size.
Write(f, data) ==
  /\ Changed /\ Present(f)
  /\ inode' = [inode EXCEPT ![path[f]] = [@ EXCEPT !.data = data, !.mtime = clock', !.ctime = clock']]
  /\ UNCHANGED <<place, extra, path, memo, run, runs>>

\* utimes(): the mtime is the caller's, the ctime is not.
Touch(f, time) ==
  /\ Changed /\ Present(f) /\ time <= clock
  /\ inode' = [inode EXCEPT ![path[f]] = [@ EXCEPT !.mtime = time, !.ctime = clock']]
  /\ UNCHANGED <<place, extra, path, memo, run, runs>>

\* Another file takes the path, as an installation does, or the path is gone.
Replace(f, i, data) ==
  /\ Changed /\ place = "directory"
  /\ i \in Inodes \ (1 .. Cardinality(Files)) /\ i \notin {path[g] : g \in Files}
  /\ inode[i].ctime = 0 /\ \A j \in Inodes : j > Cardinality(Files) /\ j < i => inode[j].ctime # 0
  /\ path' = [path EXCEPT ![f] = i]
  /\ inode' = [inode EXCEPT ![i] = [data |-> data, size |-> TRUE, mtime |-> 0, ctime |-> clock']]
  /\ UNCHANGED <<place, extra, memo, run, runs>>

Unlink(f) ==
  /\ Changed /\ Present(f)
  /\ path' = [path EXCEPT ![f] = NoInode]
  /\ UNCHANGED <<place, extra, inode, memo, run, runs>>

Others == \E f \in Files :
  \/ \E data \in {Right, <<FALSE, TRUE>>} : Write(f, data) \/ \E i \in Inodes : Replace(f, i, data)
  \/ \E time \in 0 .. MaxClock : Touch(f, time)
  \/ Unlink(f)

Runs(r) == \/ StartRun(r) \/ Look(r) \/ Check(r) \/ ReadBlock(r) \/ Record(r) \/ Conclude(r)
           \/ \E f \in Files : Ask(r, f) \/ Open(r, f)

Next == (\E r \in Runners : Runs(r)) \/ Others
Spec == Init /\ [][Next]_vars

-----------------------------------------------------------------------------
(* Properties *)

Whole == /\ place = "directory" /\ extra \in {"none", "sidecar"}
         /\ \A f \in Files : Present(f) /\ inode[path[f]].size /\ inode[path[f]].data = Right

\* A digest that is remembered for the file now at its path is that of its
\* content, whatever was written, replaced or backdated during the reading.
MemoIsTrue ==
  \A f \in Files : memo[f] # NoMemo /\ Present(f) /\ memo[f].stamp = Identity(path[f])
     => (memo[f].digest <=> inode[path[f]].data = Right)

\* "Verified" means an exact artifact, also when the answer comes from digests
\* remembered by an earlier or a concurrent run.
YesIsTrue == \A r \in Runners : verdict[r] = "verified" /\ ~dirty[r] => Whole

\* An exact artifact is never refused, not even for what the Finder left in
\* it; and it is called missing only when nothing is there.
NoIsTrue == \A r \in Verifiers : ~dirty[r] =>
  (verdict[r] = "invalid" => ~Whole) /\ (verdict[r] = "missing" => place = "none")

\* All of it: in every state, for every run and file.
VerdictsAreTrue == TypeOK /\ MemoIsTrue /\ YesIsTrue /\ NoIsTrue
=============================================================================
