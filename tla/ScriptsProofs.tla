----------------------------- MODULE ScriptsProofs -----------------------------
(***************************************************************************)
(* Proofs about Scripts, for any number of jobs, every set of requests,    *)
(* and every bound on deliveries, seconds and faults.                      *)
(***************************************************************************)
EXTENDS Scripts, SequenceTheorems, TLAPS

----------------------------------------------------------------------------
(* The inductive invariant. *)

\* The code file is there until it is filed, which is done first ...
CodeInUse(j) ==
    job[j].phase \in {"coded", "ready", "ran"} \/ (At(j, "filing") /\ job[j].filed = 0)

\* ... and the variables, if there is a file for them, until their turn comes.
VarsInUse(j) ==
    /\ VarsFile(j)
    /\ \/ job[j].phase \in {"ready", "ran"}
       \/ /\ At(j, "filing")
          /\ \E k \in DOMAIN ToFile(j) : k > job[j].filed /\ ToFile(j)[k] = "vars"

\* The files a job without a fault has left so far are those of this try that it
\* is going to put away.
TempInUse(j) ==
    \A f \in temp : f[1] = j =>
        /\ f[2] = job[j].try
        /\ f[3] = "code" => CodeInUse(j)
        /\ f[3] = "vars" => VarsInUse(j)

\* What it has put away so far is in its directory.
FiledAre(j) ==
    job[j].second # 0 =>
        \A k \in DOMAIN ToFile(j) :
            (At(j, "filing") /\ k <= job[j].filed) \/ job[j].phase \in {"answering", "over"}
                => archive[Dir(j)][ToFile(j)[k]] # NoJob

JobOK(j) ==
    /\ At(j, "waiting") => job[j].try < MaxTries
    /\ job[j].try = 0 => At(j, "waiting") /\ job[j].second = 0
    /\ job[j].phase \in {"started", "coded", "ready", "ran"} =>
           job[j].second = 0 /\ job[j].filed = 0
    /\ why[j] = {} => TempInUse(j) /\ FiledAre(j)

\* A file of an archive is one that its job files, in this directory or, if the
\* job was delivered again, in one of an earlier try.
ArchiveIsOf ==
    \A d \in Dirs, f \in Files : archive[d][f] # NoJob =>
        /\ input[archive[d][f]].task = d[1]
        /\ f \in ToSet(ToFile(archive[d][f]))
        /\ job[archive[d][f]].second = d[2] \/ job[archive[d][f]].try > 1

ScriptsInv == TypeOK /\ ArchiveIsOf /\ \A j \in Jobs : JobOK(j)

\* Initially there are no files, and every job waits for its first try.
LEMMA InitInv == Init => ScriptsInv
<1>. SUFFICES ASSUME Init PROVE ScriptsInv
    OBVIOUS
<1>1. [phase |-> "waiting", try |-> 0, ok |-> TRUE, second |-> 0, filed |-> 0] \in Job
    BY ScriptsAssumption DEF Job, Phases
<1>2. TypeOK
    BY <1>1, ScriptsAssumption DEF Init, TypeOK, At, Empty
<1>3. \A d \in Dirs, f \in Files : archive[d][f] = NoJob
    BY DEF Init, Empty
<1>4. \A j \in Jobs : JobOK(j)
    BY ScriptsAssumption DEF Init, JobOK, At, TempInUse, FiledAre
<1>. QED
    BY <1>2, <1>3, <1>4 DEF ScriptsInv, ArchiveIsOf

----------------------------------------------------------------------------
(* What is filed. *)

\* Putting one more entry behind a list of up to n, or not.
LEMMA Behind ==
    ASSUME NEW n \in Nat, NEW s \in Seq(Files), 1 <= Len(s), Len(s) <= n,
           NEW f \in Files, NEW b \in BOOLEAN,
           NEW r, r = s \o (IF b THEN <<f>> ELSE <<>>)
    PROVE  /\ r \in Seq(Files) /\ r[1] = s[1]
           /\ Len(r) \in Nat /\ 1 <= Len(r) /\ Len(r) <= n + 1
           /\ b => r[Len(r)] = f
<1>. Len(s) \in Nat
    BY LenProperties
<1>1. CASE b
    <2>1. r = s \o <<f>> /\ <<f>> \in Seq(Files) /\ Len(<<f>>) = 1 /\ <<f>>[1] = f
        BY <1>1
    <2>. DEFINE t == <<f>>
    <2>. HIDE DEF t
    <2>2. /\ r \in Seq(Files) /\ Len(r) = Len(s) + Len(t)
          /\ \A i \in 1..(Len(s) + Len(t)) :
                 r[i] = IF i <= Len(s) THEN s[i] ELSE t[i - Len(s)]
        BY <2>1, ConcatProperties DEF t
    <2>3. Len(t) = 1 /\ t[1] = f
        BY <2>1 DEF t
    <2>. QED
        BY <2>2, <2>3
<1>2. CASE ~b
    <2>1. r = s \o <<>>
        BY <1>2
    <2>2. r = s
        BY <2>1, ConcatEmptySeq
    <2>. QED
        BY <1>2, <2>2
<1>. QED
    BY <1>1, <1>2

\* The list has one to four entries; the code comes first, and a file of
\* variables has its entry.
LEMMA ToFileIs ==
    ASSUME NEW j \in Jobs, input[j] \in Request
    PROVE  /\ ToFile(j) \in Seq(Files)
           /\ Len(ToFile(j)) \in Nat /\ 1 <= Len(ToFile(j)) /\ Len(ToFile(j)) <= 4
           /\ DOMAIN ToFile(j) = 1..Len(ToFile(j))
           /\ ToFile(j)[1] = CodeFile(j)
           /\ VarsFile(j) => ToFile(j)[Len(ToFile(j))] = "vars"
<1>. DEFINE A == Is(j, "worker") \/ input[j].args
            B == Is(j, "handler") /\ input[j].variables # "none"
            C == VarsFile(j) \/ (Is(j, "worker") /\ input[j].variables # "none")
            s0 == <<CodeFile(j)>>
            s1 == s0 \o (IF A THEN <<"args">> ELSE <<>>)
            s2 == s1 \o (IF B THEN <<"vars.json">> ELSE <<>>)
            s3 == s2 \o (IF C THEN <<"vars">> ELSE <<>>)
<1>1. CodeFile(j) \in Files /\ "args" \in Files /\ "vars.json" \in Files /\ "vars" \in Files
    BY DEF CodeFile, Files
<1>2. s0 \in Seq(Files) /\ 1 <= Len(s0) /\ Len(s0) <= 1 /\ s0[1] = CodeFile(j)
    BY <1>1
<1>3. A \in BOOLEAN /\ B \in BOOLEAN /\ C \in BOOLEAN
    BY DEF Is, VarsFile, Request
<1>4. ToFile(j) = s3
    BY DEF ToFile
<1>. HIDE DEF A, B, C, s0
<1>5. s1 \in Seq(Files) /\ s1[1] = s0[1] /\ 1 <= Len(s1) /\ Len(s1) <= 1 + 1
    BY <1>1, <1>2, <1>3, Behind
<1>. HIDE DEF s1
<1>6. s2 \in Seq(Files) /\ s2[1] = s1[1] /\ 1 <= Len(s2) /\ Len(s2) <= 2 + 1
    BY <1>1, <1>3, <1>5, Behind
<1>. HIDE DEF s2
<1>7. /\ s3 \in Seq(Files) /\ s3[1] = s2[1] /\ (C => s3[Len(s3)] = "vars")
      /\ Len(s3) \in Nat /\ 1 <= Len(s3) /\ Len(s3) <= 3 + 1
    BY <1>1, <1>3, <1>6, Behind
<1>8. DOMAIN s3 = 1..Len(s3)
    BY <1>7, LenProperties
<1>. HIDE DEF s3
<1>9. ToFile(j) = s3 => /\ ToFile(j) \in Seq(Files) /\ Len(ToFile(j)) \in 1..4
                        /\ DOMAIN ToFile(j) = 1..Len(ToFile(j))
                        /\ ToFile(j)[1] = CodeFile(j)
                        /\ VarsFile(j) => ToFile(j)[Len(ToFile(j))] = "vars"
    BY <1>2, <1>5, <1>6, <1>7, <1>8 DEF C
<1>. QED
    BY <1>4, <1>9
----------------------------------------------------------------------------
(* What a step leaves as it was. *)

\* The requests do not change, nor what follows from them.
LEMMA SameRequests ==
    ASSUME input' = input, NEW j
    PROVE  ToFile(j)' = ToFile(j) /\ VarsFile(j)' = VarsFile(j)
BY DEF ToFile, CodeFile, VarsFile, Is

\* What is known of a job, in particular what it is going to file.
LEMMA JobKnown ==
    ASSUME ScriptsInv, NEW j \in Jobs
    PROVE  /\ input[j] \in Inputs /\ input[j] \in Request /\ JobOK(j)
           /\ job[j] \in Job /\ job[j].try \in Nat /\ job[j].filed \in Nat /\ job[j].second \in Nat
           /\ ToFile(j) \in Seq(Files) /\ Len(ToFile(j)) \in Nat /\ 1 <= Len(ToFile(j))
           /\ Len(ToFile(j)) <= 4 /\ DOMAIN ToFile(j) = 1..Len(ToFile(j))
           /\ ToFile(j)[1] = CodeFile(j)
           /\ VarsFile(j) => ToFile(j)[Len(ToFile(j))] = "vars"
<1>1. input[j] \in Inputs /\ input[j] \in Request /\ JobOK(j)
    BY ScriptsAssumption DEF ScriptsInv, TypeOK
<1>2. job[j] \in Job /\ job[j].try \in Nat /\ job[j].filed \in Nat /\ job[j].second \in Nat
    BY ScriptsAssumption DEF ScriptsInv, TypeOK, Job
<1>. QED
    BY <1>1, <1>2, ToFileIs

\* A job filed its directory in one of the seconds, under its own task.
LEMMA DirKnown ==
    ASSUME ScriptsInv, NEW j \in Jobs, job[j].second # 0
    PROVE  Dir(j) \in Dirs
BY JobKnown, ScriptsAssumption DEF Dir, Dirs, Job

\* A job that a step leaves alone, while other jobs put files into archives.
LEMMA JobStays ==
    ASSUME ScriptsInv, NEW i \in Jobs, input' = input, job'[i] = job[i], why'[i] = why[i],
           \A f \in temp' : f[1] = i => f \in temp,
           \A d \in Dirs, f \in Files : archive[d][f] # NoJob => archive'[d][f] # NoJob
    PROVE  JobOK(i)'
<1>1. ToFile(i)' = ToFile(i) /\ VarsFile(i)' = VarsFile(i)
    BY SameRequests
<1>2. Dir(i)' = Dir(i)
    BY DEF Dir
<1>3. ASSUME why[i] = {} PROVE TempInUse(i)'
    <2>1. TempInUse(i)
        BY <1>3, JobKnown DEF JobOK
    <2>2. CodeInUse(i)' = CodeInUse(i)
        BY DEF CodeInUse, At
    <2>3. VarsInUse(i)' = VarsInUse(i)
        BY <1>1 DEF VarsInUse, At
    <2>. QED
        BY <2>1, <2>2, <2>3 DEF TempInUse
<1>4. ASSUME why[i] = {} PROVE FiledAre(i)'
    <2>1. FiledAre(i)
        BY <1>4, JobKnown DEF JobOK
    <2>2. ASSUME job[i].second # 0, NEW k \in DOMAIN ToFile(i)
          PROVE  Dir(i) \in Dirs /\ ToFile(i)[k] \in Files
        BY <2>2, JobKnown, DirKnown
    <2>. QED
        BY <1>1, <1>2, <2>1, <2>2 DEF FiledAre, At
<1>. QED
    BY <1>3, <1>4, JobKnown DEF JobOK, At

\* A job may get another second only if it had none, so that nothing is filed
\* under it, or is delivered again.
LEMMA ArchiveStays ==
    ASSUME ScriptsInv, input' = input, archive' = archive,
           \A j \in Jobs :
               /\ job[j].try <= job'[j].try /\ job'[j].try \in Nat
               /\ \/ job'[j].second = job[j].second
                  \/ job[j].second = 0
                  \/ job'[j].try > 1
    PROVE  ArchiveIsOf'
<1>. SUFFICES ASSUME NEW d \in Dirs, NEW f \in Files, archive[d][f] # NoJob
              PROVE  /\ input[archive[d][f]].task = d[1]
                     /\ f \in ToSet(ToFile(archive[d][f])')
                     /\ \/ job'[archive[d][f]].second = d[2]
                        \/ job'[archive[d][f]].try > 1
    BY DEF ArchiveIsOf, Dirs, ToSet
<1>. DEFINE j == archive[d][f]
<1>1. j \in Jobs /\ d[2] # 0
    BY DEF ScriptsInv, TypeOK, Dirs
<1>2. /\ input[j].task = d[1] /\ f \in ToSet(ToFile(j))
      /\ job[j].second = d[2] \/ job[j].try > 1
    BY DEF ScriptsInv, ArchiveIsOf
<1>3. ToFile(j)' = ToFile(j)
    BY SameRequests
<1>4. job[j].try \in Nat
    BY <1>1, JobKnown
<1>. QED
    BY <1>1, <1>2, <1>3, <1>4

\* A step of one job: it keeps the invariant if the new progress q and what it
\* may have left undone, w, are as they should be.
LEMMA WorkKeeps ==
    ASSUME ScriptsInv, NEW j \in Jobs, NEW q \in Job,
           NEW w \in SUBSET Excuses,
           input' = input, job' = [job EXCEPT ![j] = q], why' = [why EXCEPT ![j] = w], now' = now,
           q.phase # "waiting", 1 <= q.try, job[j].try <= q.try,
           q.phase = "filing" => q.second \in 1..now,
           q.phase \in {"started", "coded", "ready", "ran"} => q.second = 0 /\ q.filed = 0,
           temp' \subseteq temp \cup {<<j, q.try, "code">>, <<j, q.try, "vars">>},
           archive' \in [Dirs -> [Files -> Jobs \cup {NoJob}]], ArchiveIsOf',
           \A d \in Dirs, f \in Files : archive[d][f] # NoJob => archive'[d][f] # NoJob,
           results' \in [Jobs -> SUBSET {"SUCCESS", "FAILED"}], faults' \in 0..MaxFaults,
           w = {} => TempInUse(j)' /\ FiledAre(j)'
    PROVE  ScriptsInv'
<1>a. TypeOK /\ job \in [Jobs -> Job] /\ job'[j] = q /\ why'[j] = w
    BY DEF ScriptsInv, TypeOK
<1>b. q.try \in Nat /\ q.try \in 1..MaxTries /\ job[j].try \in Nat
    BY JobKnown, ScriptsAssumption DEF Job
<1>1. TypeOK'
    <2>1. job' \in [Jobs -> Job] /\ why' \in [Jobs -> SUBSET Excuses]
        BY <1>a DEF TypeOK
    <2>2. \A i \in Jobs : job'[i].phase = "filing" => job'[i].second \in 1..now'
        BY <1>a DEF TypeOK, At
    <2>3. temp' \subseteq Jobs \X (1..MaxTries) \X {"code", "vars"}
        BY <1>a, <1>b DEF TypeOK
    <2>4. \A f \in temp' : f[2] <= job'[f[1]].try
        <3>. SUFFICES ASSUME NEW f \in temp' PROVE f[2] <= job'[f[1]].try
            OBVIOUS
        <3>1. CASE f \in temp
            <4>1. f[1] \in Jobs /\ f[2] \in Nat /\ f[2] <= job[f[1]].try
                BY <1>a, <3>1, ScriptsAssumption DEF TypeOK
            <4>. QED
                BY <1>a, <1>b, <4>1
        <3>2. CASE f \in {<<j, q.try, "code">>, <<j, q.try, "vars">>}
            BY <1>a, <1>b, <3>2
        <3>. QED
            BY <3>1, <3>2
    <2>. QED
        BY <1>a, <2>1, <2>2, <2>3, <2>4 DEF TypeOK, At
<1>2. JobOK(j)'
    BY <1>a, <1>b DEF JobOK, At
<1>3. ASSUME NEW i \in Jobs, i # j PROVE JobOK(i)'
    <2>1. job'[i] = job[i] /\ why'[i] = why[i]
        BY <1>a, <1>3 DEF TypeOK
    <2>2. \A f \in temp' : f[1] = i => f \in temp
        BY <1>3
    <2>. QED
        BY <2>1, <2>2, JobStays
<1>. QED
    BY <1>1, <1>2, <1>3 DEF ScriptsInv

\* A process that dies leaves files, and the reason with each of its jobs.
LEMMA DiesKeeps ==
    ASSUME ScriptsInv, NEW kind \in Kinds, ProcessDies(kind), faults' \in 0..MaxFaults,
           UNCHANGED <<input, temp, archive, now, results>>
    PROVE  ScriptsInv'
<1>. DEFINE hit == {j \in Jobs : Is(j, kind) /\ job[j].phase \notin {"waiting", "over"}}
<1>1. PICK again \in SUBSET {j \in hit : kind = "worker" /\ job[j].try < MaxTries} :
          job' = [j \in Jobs |->
                     IF j \in again THEN [job[j] EXCEPT !.phase = "waiting"]
                     ELSE IF j \in hit THEN [job[j] EXCEPT !.phase = "over"] ELSE job[j]]
    BY DEF ProcessDies
<1>2. why' = [j \in Jobs |-> IF j \in hit THEN why[j] \cup {"killed"} ELSE why[j]]
    BY DEF ProcessDies
<1>3. ASSUME NEW j \in Jobs, j \in hit
      PROVE  /\ job'[j] \in Job /\ job'[j].phase \in {"waiting", "over"}
             /\ job'[j].try = job[j].try /\ job'[j].second = job[j].second
             /\ job[j].try # 0
             /\ job'[j].phase = "waiting" => job[j].try < MaxTries
             /\ why'[j] # {}
    <2>1. job[j] \in Job /\ job[j].try # 0
        BY <1>3, JobKnown DEF JobOK, At
    <2>2. why'[j] # {}
        BY <1>2, <1>3
    <2>3. CASE j \in again
        BY <1>1, <2>1, <2>2, <2>3 DEF Job, Phases
    <2>4. CASE j \notin again
        BY <1>1, <1>3, <2>1, <2>2, <2>4 DEF Job, Phases
    <2>. QED
        BY <2>3, <2>4
<1>4. ASSUME NEW j \in Jobs, j \notin hit
      PROVE  job'[j] = job[j] /\ why'[j] = why[j]
    BY <1>1, <1>2, <1>4
<1>. HIDE DEF hit
<1>5. TypeOK'
    <2>1. \A j \in Jobs : job'[j] \in Job /\ job'[j].try = job[j].try
        BY <1>3, <1>4, JobKnown
    <2>2. job' \in [Jobs -> Job]
        BY <1>1, <2>1
    <2>3. \A j \in Jobs : job'[j].phase = "filing" => job'[j].second \in 1..now'
        BY <1>3, <1>4 DEF ScriptsInv, TypeOK, At
    <2>4. why' \in [Jobs -> SUBSET Excuses]
        BY <1>2 DEF ScriptsInv, TypeOK, Excuses
    <2>5. \A f \in temp' : f[2] <= job'[f[1]].try
        BY <2>1 DEF ScriptsInv, TypeOK
    <2>. QED
        BY <2>2, <2>3, <2>4, <2>5 DEF ScriptsInv, TypeOK, At
<1>6. ArchiveIsOf'
    <2>1. \A j \in Jobs : /\ job[j].try <= job'[j].try /\ job'[j].try \in Nat
                          /\ job'[j].second = job[j].second
        BY <1>3, <1>4, JobKnown
    <2>. QED
        BY <2>1, ArchiveStays
<1>7. ASSUME NEW j \in Jobs PROVE JobOK(j)'
    <2>1. CASE j \in hit
        BY <1>3, <2>1 DEF JobOK, At
    <2>2. CASE j \notin hit
        BY <1>4, <2>2, JobStays
    <2>. QED
        BY <2>1, <2>2
<1>. QED
    BY <1>5, <1>6, <1>7 DEF ScriptsInv

----------------------------------------------------------------------------
(* The steps of a job. *)

\* A step that files nothing.
LEMMA UnfiledKeeps ==
    ASSUME ScriptsInv, NEW j \in Jobs, NEW q \in Job,
           NEW w \in SUBSET Excuses,
           job' = [job EXCEPT ![j] = q], why' = [why EXCEPT ![j] = w],
           UNCHANGED <<input, archive, now>>,
           q.phase # "waiting", 1 <= q.try, job[j].try <= q.try,
           q.second = job[j].second \/ job[j].second = 0 \/ q.try > 1,
           q.phase = "filing" => q.second \in 1..now,
           q.phase \in {"started", "coded", "ready", "ran"} => q.second = 0 /\ q.filed = 0,
           temp' \subseteq temp \cup {<<j, q.try, "code">>, <<j, q.try, "vars">>},
           results' \in [Jobs -> SUBSET {"SUCCESS", "FAILED"}], faults' \in 0..MaxFaults,
           w = {} => TempInUse(j)' /\ FiledAre(j)'
    PROVE  ScriptsInv'
<1>1. \A i \in Jobs : /\ job[i].try <= job'[i].try /\ job'[i].try \in Nat
                      /\ \/ job'[i].second = job[i].second
                         \/ job[i].second = 0
                         \/ job'[i].try > 1
    <2>. SUFFICES ASSUME NEW i \in Jobs
                  PROVE  /\ job[i].try <= job'[i].try /\ job'[i].try \in Nat
                         /\ \/ job'[i].second = job[i].second
                            \/ job[i].second = 0
                            \/ job'[i].try > 1
        OBVIOUS
    <2>1. job[i].try \in Nat /\ q.try \in Nat /\ job'[i] = IF i = j THEN q ELSE job[i]
        BY JobKnown, ScriptsAssumption DEF ScriptsInv, TypeOK, Job
    <2>. QED
        BY <2>1
<1>2. ArchiveIsOf'
    BY <1>1, ArchiveStays
<1>3. archive' \in [Dirs -> [Files -> Jobs \cup {NoJob}]]
    BY DEF ScriptsInv, TypeOK
<1>. QED
    BY <1>2, <1>3, WorkKeeps

\* A step that only moves a job on, in the same try, and may write files.
LEMMA MoveKeeps ==
    ASSUME ScriptsInv, NEW j \in Jobs, ~At(j, "waiting"),
           NEW p \in Phases \ {"waiting"}, NEW b \in BOOLEAN,
           NEW w \in SUBSET Excuses,
           job' = [job EXCEPT ![j] = [job[j] EXCEPT !.phase = p, !.ok = b]],
           why' = [why EXCEPT ![j] = w], UNCHANGED <<input, archive, now>>,
           p \in {"started", "coded", "ready", "ran"} =>
               job[j].phase \in {"started", "coded", "ready", "ran"},
           p # "filing",
           temp' \subseteq temp \cup {Temp(j, "code"), Temp(j, "vars")},
           results' \in [Jobs -> SUBSET {"SUCCESS", "FAILED"}], faults' \in 0..MaxFaults,
           w = {} => TempInUse(j)' /\ FiledAre(j)'
    PROVE  ScriptsInv'
<1>. DEFINE q == [job[j] EXCEPT !.phase = p, !.ok = b]
<1>1. /\ q \in Job /\ q.phase = p /\ q.try = job[j].try /\ q.second = job[j].second
      /\ q.filed = job[j].filed
    BY JobKnown DEF Job
<1>2. job[j].try \in Nat /\ job[j].try # 0
    BY JobKnown DEF JobOK
<1>3. p \in {"started", "coded", "ready", "ran"} => q.second = 0 /\ q.filed = 0
    BY <1>1, JobKnown DEF JobOK
<1>4. 1 <= q.try /\ job[j].try <= q.try
    BY <1>1, <1>2
<1>5. temp' \subseteq temp \cup {<<j, q.try, "code">>, <<j, q.try, "vars">>}
    BY <1>1 DEF Temp
<1>6. job' = [job EXCEPT ![j] = q]
    OBVIOUS
<1>7. q.phase # "waiting" /\ q.phase # "filing"
    BY <1>1
<1>. HIDE DEF q
<1>. QED
    BY <1>1, <1>3, <1>4, <1>5, <1>6, <1>7, UnfiledKeeps

\* A delivery starts without files.
LEMMA StartKeeps ==
    ASSUME ScriptsInv, NEW j \in Jobs, Start(j), input' = input
    PROVE  ScriptsInv'
<1>. DEFINE q == [phase |-> IF input[j].parses THEN "started" ELSE "over",
                  try |-> job[j].try + 1, ok |-> TRUE, second |-> 0, filed |-> 0]
            w == IF input[j].parses THEN why[j] ELSE why[j] \cup {"malformed"}
<1>1. /\ job[j].try \in Nat /\ job[j].try < MaxTries /\ At(j, "waiting") /\ JobOK(j)
      /\ job[j].try = 0 => job[j].second = 0
    BY JobKnown DEF Start, JobOK
<1>2. q \in Job
    <2>1. MaxTries \in Nat /\ MaxSeconds \in Nat
        BY ScriptsAssumption
    <2>2. job[j].try + 1 \in 0..MaxTries
        BY <1>1, <2>1
    <2>. QED
        BY <2>1, <2>2 DEF Job, Phases
<1>3. job' = [job EXCEPT ![j] = q] /\ why' = [why EXCEPT ![j] = w]
    BY DEF Start, ScriptsInv, TypeOK
<1>4. w = {} => TempInUse(j)' /\ FiledAre(j)'
    <2>. SUFFICES ASSUME why[j] = {} PROVE TempInUse(j)' /\ FiledAre(j)'
        OBVIOUS
    <2>1. ASSUME NEW f \in temp PROVE f[1] # j
        <3>1. f[3] \in {"code", "vars"}
            BY DEF ScriptsInv, TypeOK
        <3>2. ~CodeInUse(j) /\ ~VarsInUse(j)
            BY <1>1 DEF CodeInUse, VarsInUse, At
        <3>. QED
            BY <1>1, <3>1, <3>2 DEF JobOK, TempInUse
    <2>2. job'[j].second = 0
        BY <1>3 DEF ScriptsInv, TypeOK
    <2>. QED
        BY <2>1, <2>2 DEF TempInUse, FiledAre, Start
<1>5. results' \in [Jobs -> SUBSET {"SUCCESS", "FAILED"}] /\ faults' \in 0..MaxFaults
    BY DEF Start, ScriptsInv, TypeOK
<1>6. w \in SUBSET Excuses
    BY DEF ScriptsInv, TypeOK, Excuses
<1>7. UNCHANGED <<archive, now, temp>>
    BY DEF Start
<1>8. /\ q.phase \in {"started", "over"} /\ q.try = job[j].try + 1 /\ q.second = 0 /\ q.filed = 0
    OBVIOUS
<1>. HIDE DEF q, w
<1>9. 1 <= q.try /\ job[j].try <= q.try /\ (q.try > 1 \/ job[j].second = 0)
    BY <1>1, <1>8
<1>. QED
    BY <1>2, <1>3, <1>4, <1>5, <1>6, <1>7, <1>8, <1>9, UnfiledKeeps

\* A call that fails ends the work on the files, for a reason.
LEMMA FailKeeps ==
    ASSUME ScriptsInv, NEW j \in Jobs, ~At(j, "waiting"), Fails(j),
           NEW p \in {"over", "answering"}, Goes(j, p), UNCHANGED <<input, archive, now, results>>,
           temp' \subseteq temp \cup {Temp(j, "code"), Temp(j, "vars")}
    PROVE  ScriptsInv'
<1>1. /\ job' = [job EXCEPT ![j] = [job[j] EXCEPT !.phase = p, !.ok = job[j].ok]]
      /\ job[j].ok \in BOOLEAN
    BY JobKnown DEF Goes, ScriptsInv, TypeOK, Job
<1>2. why' = [why EXCEPT ![j] = why[j] \cup {"fault"}]
    BY DEF Fails
<1>3. /\ why[j] \cup {"fault"} \in SUBSET Excuses
      /\ why[j] \cup {"fault"} # {}
    BY DEF ScriptsInv, TypeOK, Excuses
<1>4. results' \in [Jobs -> SUBSET {"SUCCESS", "FAILED"}] /\ faults' \in 0..MaxFaults
    BY ScriptsAssumption DEF Fails, ScriptsInv, TypeOK
<1>5. p \in Phases \ {"waiting"} /\ p # "filing" /\ p \notin {"started", "coded", "ready", "ran"}
    BY DEF Phases
<1>. QED
    BY <1>1, <1>2, <1>3, <1>4, <1>5, MoveKeeps

\* A step without a fault to another phase.
LEMMA FineKeeps ==
    ASSUME ScriptsInv, NEW j \in Jobs, ~At(j, "waiting"), Fine,
           NEW p \in Phases \ {"waiting"}, p # "filing", Goes(j, p),
           UNCHANGED <<input, archive, now>>,
           p \in {"started", "coded", "ready", "ran"} =>
               job[j].phase \in {"started", "coded", "ready", "ran"},
           temp' \subseteq temp \cup {Temp(j, "code"), Temp(j, "vars")},
           results' \in [Jobs -> SUBSET {"SUCCESS", "FAILED"}],
           why[j] = {} => TempInUse(j)' /\ FiledAre(j)'
    PROVE  ScriptsInv'
<1>1. /\ job' = [job EXCEPT ![j] = [job[j] EXCEPT !.phase = p, !.ok = job[j].ok]]
      /\ job[j].ok \in BOOLEAN
    BY JobKnown DEF Goes, ScriptsInv, TypeOK, Job
<1>2. /\ why' = [why EXCEPT ![j] = why[j]] /\ faults' \in 0..MaxFaults
      /\ why[j] \in SUBSET Excuses
    BY DEF Fine, ScriptsInv, TypeOK
<1>. QED
    BY <1>1, <1>2, MoveKeeps

\* The files of a job without a fault are its code and its variables, as long
\* as they are in use.
LEMMA TempKnown ==
    ASSUME ScriptsInv, NEW j \in Jobs, why[j] = {}, NEW f \in temp, f[1] = j
    PROVE  \/ f = Temp(j, "code") /\ CodeInUse(j)
           \/ f = Temp(j, "vars") /\ VarsInUse(j)
<1>1. TempInUse(j)
    BY JobKnown DEF JobOK
<1>2. f[3] \in {"code", "vars"} /\ f = <<f[1], f[2], f[3]>>
    BY DEF ScriptsInv, TypeOK
<1>. QED
    BY <1>1, <1>2 DEF TempInUse, Temp

\* To show that a job keeps to its files in a step, look at each of them.
LEMMA TempStep ==
    ASSUME ScriptsInv, NEW j \in Jobs, job'[j].try = job[j].try,
           \A f \in temp' : f[1] = j =>
               \/ f = Temp(j, "code") /\ CodeInUse(j)'
               \/ f = Temp(j, "vars") /\ VarsInUse(j)'
    PROVE  TempInUse(j)'
BY DEF TempInUse, Temp

\* Before there is a directory nothing is filed.
LEMMA NoneFiled ==
    ASSUME NEW j \in Jobs, job'[j].second = 0
    PROVE  FiledAre(j)'
BY DEF FiledAre

\* What stays of the progress of a job that goes to another phase.
LEMMA GoesIs ==
    ASSUME ScriptsInv, NEW j \in Jobs, NEW p, Goes(j, p)
    PROVE  /\ job'[j].phase = p /\ job'[j].try = job[j].try /\ job'[j].second = job[j].second
           /\ job'[j].filed = job[j].filed
BY DEF Goes, ScriptsInv, TypeOK, Job

\* The code file is in use from here.
LEMMA CreateCodeKeeps ==
    ASSUME ScriptsInv, NEW j \in Jobs, CreateCode(j), input' = input
    PROVE  ScriptsInv'
<1>1. /\ At(j, "started") /\ ~At(j, "waiting") /\ UNCHANGED <<archive, now, results>>
      /\ results' \in [Jobs -> SUBSET {"SUCCESS", "FAILED"}]
      /\ job[j].second = 0
    BY JobKnown DEF CreateCode, At, ScriptsInv, TypeOK, JobOK
<1>2. ~CodeInUse(j) /\ ~VarsInUse(j)
    BY <1>1 DEF CodeInUse, VarsInUse, At
<1>3. CASE Goes(j, "over") /\ Fine /\ UNCHANGED temp
    <2>1. why[j] = {} => TempInUse(j)' /\ FiledAre(j)'
        BY <1>1, <1>2, <1>3, GoesIs, TempKnown, TempStep, NoneFiled
    <2>2. "over" \in Phases \ {"waiting"}
        BY DEF Phases
    <2>. QED
        BY <1>1, <1>3, <2>1, <2>2, FineKeeps
<1>4. CASE temp' = temp \cup {Temp(j, "code")} /\ Goes(j, "coded") /\ Fine
    <2>1. why[j] = {} => TempInUse(j)' /\ FiledAre(j)'
        <3>. SUFFICES ASSUME why[j] = {} PROVE TempInUse(j)' /\ FiledAre(j)'
            OBVIOUS
        <3>1. CodeInUse(j)'
            BY <1>4, GoesIs DEF CodeInUse
        <3>2. \A f \in temp' : f[1] = j => f = Temp(j, "code")
            BY <1>2, <1>4, TempKnown
        <3>3. job'[j].try = job[j].try /\ job'[j].second = 0
            BY <1>1, <1>4, GoesIs
        <3>. QED
            BY <3>1, <3>2, <3>3, TempStep, NoneFiled
    <2>2. "coded" \in Phases \ {"waiting"}
        BY DEF Phases
    <2>. QED
        BY <1>1, <1>4, <2>1, <2>2, FineKeeps DEF At
<1>5. CASE Fails(j) /\ temp' \in {temp, temp \cup {Temp(j, "code")}} /\ Goes(j, "over")
    BY <1>1, <1>5, FailKeeps
<1>6. CASE faults < MaxFaults /\ faults' = faults + 1 /\ ProcessDies("worker") /\ UNCHANGED temp
    <2>1. faults' \in 0..MaxFaults /\ "worker" \in Kinds
        BY <1>6, ScriptsAssumption DEF ScriptsInv, TypeOK, Kinds
    <2>. QED
        BY <1>1, <1>6, <2>1, DiesKeeps
<1>. QED
    BY <1>3, <1>4, <1>5, <1>6 DEF CreateCode

\* So is the file of variables, if there is one.
LEMMA PrepareVarsKeeps ==
    ASSUME ScriptsInv, NEW j \in Jobs, PrepareVars(j), input' = input
    PROVE  ScriptsInv'
<1>1. /\ At(j, "coded") /\ ~At(j, "waiting") /\ UNCHANGED <<archive, now, results>>
      /\ results' \in [Jobs -> SUBSET {"SUCCESS", "FAILED"}]
      /\ job[j].second = 0
    BY JobKnown DEF PrepareVars, At, ScriptsInv, TypeOK, JobOK
<1>2. ~VarsInUse(j)
    BY <1>1 DEF VarsInUse, At
<1>3. CASE /\ temp' = IF VarsFile(j) THEN temp \cup {Temp(j, "vars")} ELSE temp
           /\ Goes(j, "ready") /\ Fine
    <2>1. why[j] = {} => TempInUse(j)' /\ FiledAre(j)'
        <3>. SUFFICES ASSUME why[j] = {} PROVE TempInUse(j)' /\ FiledAre(j)'
            OBVIOUS
        <3>1. CodeInUse(j)' /\ (VarsFile(j) => VarsInUse(j)')
            BY <1>3, GoesIs, SameRequests DEF CodeInUse, VarsInUse
        <3>2. \A f \in temp' : f[1] = j =>
                  f = Temp(j, "code") \/ (f = Temp(j, "vars") /\ VarsFile(j))
            BY <1>2, <1>3, TempKnown
        <3>3. job'[j].try = job[j].try /\ job'[j].second = 0
            BY <1>1, <1>3, GoesIs
        <3>. QED
            BY <3>1, <3>2, <3>3, TempStep, NoneFiled
    <2>2. "ready" \in Phases \ {"waiting"}
        BY DEF Phases
    <2>3. temp' \subseteq temp \cup {Temp(j, "code"), Temp(j, "vars")}
        BY <1>3
    <2>. QED
        BY <1>1, <1>3, <2>1, <2>2, <2>3, FineKeeps DEF At
<1>4. CASE /\ Goes(j, "over") /\ why' = [why EXCEPT ![j] = @ \cup {"unparsable"}]
           /\ UNCHANGED <<temp, faults>>
    <2>1. /\ job' = [job EXCEPT ![j] = [job[j] EXCEPT !.phase = "over", !.ok = job[j].ok]]
          /\ job[j].ok \in BOOLEAN
        BY <1>4, JobKnown DEF Goes, ScriptsInv, TypeOK, Job
    <2>2. why' = [why EXCEPT ![j] = why[j] \cup {"unparsable"}]
        BY <1>4
    <2>3. /\ why[j] \cup {"unparsable"} \in SUBSET Excuses
          /\ why[j] \cup {"unparsable"} # {} /\ faults' \in 0..MaxFaults
        BY <1>4 DEF ScriptsInv, TypeOK, Excuses
    <2>4. "over" \in Phases \ {"waiting"}
        BY DEF Phases
    <2>. QED
        BY <1>1, <1>4, <2>1, <2>2, <2>3, <2>4, MoveKeeps
<1>5. CASE ProcessDies("worker") /\ UNCHANGED <<temp, faults>>
    <2>1. faults' \in 0..MaxFaults /\ "worker" \in Kinds
        BY <1>5 DEF ScriptsInv, TypeOK, Kinds
    <2>. QED
        BY <1>1, <1>5, <2>1, DiesKeeps
<1>6. CASE Fails(j) /\ temp' \in {temp, temp \cup {Temp(j, "vars")}} /\ Goes(j, "over")
    BY <1>1, <1>6, FailKeeps
<1>7. CASE faults < MaxFaults /\ faults' = faults + 1 /\ ProcessDies("worker") /\ UNCHANGED temp
    <2>1. faults' \in 0..MaxFaults /\ "worker" \in Kinds
        BY <1>7, ScriptsAssumption DEF ScriptsInv, TypeOK, Kinds
    <2>. QED
        BY <1>1, <1>7, <2>1, DiesKeeps
<1>. QED
    BY <1>3, <1>4, <1>5, <1>6, <1>7 DEF PrepareVars

\* Nothing happens to the files while the script runs.
LEMMA RunScriptKeeps ==
    ASSUME ScriptsInv, NEW j \in Jobs, RunScript(j), input' = input
    PROVE  ScriptsInv'
<1>1. PICK b \in BOOLEAN : job' = [job EXCEPT ![j].phase = "ran", ![j].ok = b]
    BY DEF RunScript
<1>2. /\ At(j, "ready") /\ ~At(j, "waiting") /\ job[j].second = 0
      /\ UNCHANGED <<temp, archive, now, results, faults, why>>
    BY JobKnown DEF RunScript, At, JobOK
<1>3. job' = [job EXCEPT ![j] = [job[j] EXCEPT !.phase = "ran", !.ok = b]]
    BY <1>1 DEF ScriptsInv, TypeOK, Job
<1>4. job'[j].phase = "ran" /\ job'[j].try = job[j].try /\ job'[j].second = 0
    BY <1>2, <1>3 DEF ScriptsInv, TypeOK, Job
<1>5. why[j] = {} => TempInUse(j)' /\ FiledAre(j)'
    <2>. SUFFICES ASSUME why[j] = {} PROVE TempInUse(j)' /\ FiledAre(j)'
        OBVIOUS
    <2>1. CodeInUse(j)' /\ (VarsInUse(j) => VarsInUse(j)')
        BY <1>4, SameRequests DEF CodeInUse, VarsInUse
    <2>2. \A f \in temp' : f[1] = j =>
              f = Temp(j, "code") \/ (f = Temp(j, "vars") /\ VarsInUse(j))
        BY <1>2, TempKnown
    <2>. QED
        BY <1>4, <2>1, <2>2, TempStep, NoneFiled
<1>6. /\ why' = [why EXCEPT ![j] = why[j]] /\ faults' \in 0..MaxFaults
      /\ why[j] \in SUBSET Excuses
      /\ results' \in [Jobs -> SUBSET {"SUCCESS", "FAILED"}]
    BY <1>2 DEF ScriptsInv, TypeOK
<1>7. "ran" \in Phases \ {"waiting"}
    BY DEF Phases
<1>. QED
    BY <1>2, <1>3, <1>5, <1>6, <1>7, MoveKeeps DEF At

\* Whatever the kind, a job that gives up is done with its files.
LEMMA GivesUpIs ==
    ASSUME NEW j
    PROVE  GivesUp(j) \in {"over", "answering"} /\ GivesUp(j) \in Phases \ {"waiting"}
BY DEF GivesUp, Phases

\* A new directory has nothing of the job yet, and its list starts.
LEMMA MakeDirKeeps ==
    ASSUME ScriptsInv, NEW j \in Jobs, MakeDir(j), input' = input
    PROVE  ScriptsInv'
<1>1. /\ At(j, "ran") /\ ~At(j, "waiting") /\ UNCHANGED <<temp, archive, now, results>>
      /\ results' \in [Jobs -> SUBSET {"SUCCESS", "FAILED"}]
      /\ job[j].second = 0 /\ job[j].filed = 0 /\ job[j].try # 0 /\ now \in 1..MaxSeconds
    BY JobKnown DEF MakeDir, At, ScriptsInv, TypeOK, JobOK
<1>2. CASE job' = [job EXCEPT ![j].phase = "filing", ![j].second = now] /\ Fine
    <2>. DEFINE q == [job[j] EXCEPT !.phase = "filing", !.second = now]
    <2>1. job' = [job EXCEPT ![j] = q]
        BY <1>2 DEF ScriptsInv, TypeOK, Job
    <2>2. /\ q \in Job /\ q.phase = "filing" /\ q.try = job[j].try /\ q.second = now
          /\ q.filed = 0
        <3>1. MaxSeconds \in Nat /\ MaxTries \in Nat
            BY ScriptsAssumption
        <3>2. now \in 0..MaxSeconds
            BY <1>1, <3>1
        <3>. QED
            BY <1>1, <3>2, JobKnown DEF Job, Phases
    <2>. HIDE DEF q
    <2>3. job'[j] = q
        BY <2>1 DEF ScriptsInv, TypeOK
    <2>4. why[j] = {} => TempInUse(j)' /\ FiledAre(j)'
        <3>. SUFFICES ASSUME why[j] = {} PROVE TempInUse(j)' /\ FiledAre(j)'
            OBVIOUS
        <3>1. CodeInUse(j)'
            BY <2>2, <2>3 DEF CodeInUse, At
        <3>2. ASSUME VarsFile(j) PROVE VarsInUse(j)'
            <4>1. Len(ToFile(j)) \in DOMAIN ToFile(j) /\ Len(ToFile(j)) > 0
                  /\ ToFile(j)[Len(ToFile(j))] = "vars"
                BY <3>2, JobKnown
            <4>. QED
                BY <2>2, <2>3, <3>2, <4>1, SameRequests DEF VarsInUse, At
        <3>3. \A f \in temp' : f[1] = j =>
                  f = Temp(j, "code") \/ (f = Temp(j, "vars") /\ VarsFile(j))
            BY <1>1, TempKnown DEF VarsInUse
        <3>4. TempInUse(j)'
            BY <2>2, <2>3, <3>1, <3>2, <3>3, TempStep
        <3>5. ~\E k \in DOMAIN ToFile(j) : k <= job'[j].filed
            BY <2>2, <2>3, JobKnown
        <3>. QED
            BY <2>2, <2>3, <3>4, <3>5, SameRequests DEF FiledAre, At
    <2>5. /\ why' = [why EXCEPT ![j] = why[j]] /\ faults' \in 0..MaxFaults
          /\ why[j] \in SUBSET Excuses
        BY <1>2 DEF Fine, ScriptsInv, TypeOK
    <2>6. q.second \in 1..now /\ 1 <= q.try /\ job[j].try <= q.try
        BY <1>1, <2>2, JobKnown
    <2>. QED
        BY <1>1, <2>1, <2>2, <2>4, <2>5, <2>6, UnfiledKeeps
<1>3. CASE Fails(j) /\ Goes(j, GivesUp(j))
    BY <1>1, <1>3, GivesUpIs, FailKeeps
<1>. QED
    BY <1>2, <1>3 DEF MakeDir

\* At the end of the list everything is filed and nothing in use.
LEMMA FiledKeeps ==
    ASSUME ScriptsInv, NEW j \in Jobs, Filed(j), input' = input
    PROVE  ScriptsInv'
<1>1. /\ At(j, "filing") /\ ~At(j, "waiting") /\ Fine
      /\ UNCHANGED <<temp, archive, now, results>> /\ Goes(j, GivesUp(j))
      /\ results' \in [Jobs -> SUBSET {"SUCCESS", "FAILED"}]
      /\ job[j].filed = Len(ToFile(j))
    BY DEF Filed, Fine, At, ScriptsInv, TypeOK
<1>2. why[j] = {} => TempInUse(j)' /\ FiledAre(j)'
    <2>. SUFFICES ASSUME why[j] = {} PROVE TempInUse(j)' /\ FiledAre(j)'
        OBVIOUS
    <2>1. ~CodeInUse(j) /\ ~VarsInUse(j)
        BY <1>1, JobKnown DEF CodeInUse, VarsInUse, At
    <2>2. TempInUse(j)'
        BY <1>1, <2>1, GoesIs, TempKnown, TempStep
    <2>3. FiledAre(j)
        BY JobKnown DEF JobOK
    <2>4. \A k \in DOMAIN ToFile(j) : k <= job[j].filed
        BY <1>1, JobKnown
    <2>5. Dir(j)' = Dir(j) /\ ToFile(j)' = ToFile(j) /\ archive' = archive
          /\ job'[j].second = job[j].second
        BY <1>1, GoesIs, SameRequests DEF Dir
    <2>. QED
        BY <1>1, <2>2, <2>3, <2>4, <2>5 DEF FiledAre
<1>. QED
    BY <1>1, <1>2, GivesUpIs, FineKeeps

\* Answering touches no file.
LEMMA ProduceResultKeeps ==
    ASSUME ScriptsInv, NEW j \in Jobs, ProduceResult(j), input' = input
    PROVE  ScriptsInv'
<1>1. /\ At(j, "answering") /\ ~At(j, "waiting") /\ UNCHANGED <<temp, archive, now>>
      /\ Goes(j, "over")
    BY DEF ProduceResult, At
<1>2. CASE /\ results' = [results EXCEPT ![j] = @ \cup {IF job[j].ok THEN "SUCCESS" ELSE "FAILED"}]
           /\ Fine
    <2>1. results' \in [Jobs -> SUBSET {"SUCCESS", "FAILED"}]
        BY <1>2 DEF ScriptsInv, TypeOK
    <2>2. why[j] = {} => TempInUse(j)' /\ FiledAre(j)'
        <3>. SUFFICES ASSUME why[j] = {} PROVE TempInUse(j)' /\ FiledAre(j)'
            OBVIOUS
        <3>1. ~CodeInUse(j) /\ ~VarsInUse(j)
            BY <1>1 DEF CodeInUse, VarsInUse, At
        <3>2. TempInUse(j)'
            BY <1>1, <3>1, GoesIs, TempKnown, TempStep
        <3>3. FiledAre(j)
            BY JobKnown DEF JobOK
        <3>4. Dir(j)' = Dir(j) /\ ToFile(j)' = ToFile(j) /\ job'[j].second = job[j].second
            BY <1>1, GoesIs, SameRequests DEF Dir
        <3>. QED
            BY <1>1, <3>2, <3>3, <3>4 DEF FiledAre, At
    <2>3. "over" \in Phases \ {"waiting"}
        BY DEF Phases
    <2>. QED
        BY <1>1, <1>2, <2>1, <2>2, <2>3, FineKeeps
<1>3. CASE Fails(j) /\ UNCHANGED results
    BY <1>1, <1>3, FailKeeps
<1>. QED
    BY <1>2, <1>3 DEF ProduceResult

\* One file is put away: the file of an archive is one of its job, and the
\* temporary file it was is not used any more.
LEMMA FileNextKeeps ==
    ASSUME ScriptsInv, NEW j \in Jobs, FileNext(j), input' = input
    PROVE  ScriptsInv'
<1>. DEFINE n == job[j].filed + 1
            f == ToFile(j)[n]
            q == [job[j] EXCEPT !.filed = @ + 1]
<1>1. /\ At(j, "filing") /\ ~At(j, "waiting") /\ UNCHANGED <<now, results>>
      /\ results' \in [Jobs -> SUBSET {"SUCCESS", "FAILED"}]
      /\ job[j].filed < Len(ToFile(j)) /\ job[j].second \in 1..now /\ now \in 1..MaxSeconds
    BY DEF FileNext, At, ScriptsInv, TypeOK
<1>2. /\ n \in DOMAIN ToFile(j) /\ n \in 1..4 /\ f \in Files
      /\ job[j].second # 0 /\ Dir(j) \in Dirs /\ job[j].try # 0
    <2>a. /\ job[j].filed \in Nat /\ Len(ToFile(j)) \in Nat /\ Len(ToFile(j)) <= 4
          /\ DOMAIN ToFile(j) = 1..Len(ToFile(j))
        BY JobKnown
    <2>1. n \in DOMAIN ToFile(j) /\ n \in 1..4 /\ job[j].second # 0
        BY <1>1, <2>a
    <2>2. ToFile(j) \in Seq(Files) /\ JobOK(j)
        BY JobKnown
    <2>3. f \in Files /\ job[j].try # 0
        BY <1>1, <2>1, <2>2 DEF JobOK
    <2>4. Dir(j) \in Dirs
        BY <2>1, DirKnown
    <2>. QED
        BY <2>1, <2>3, <2>4
<1>3. /\ q \in Job /\ q.phase = "filing" /\ q.try = job[j].try /\ q.second = job[j].second
      /\ q.filed = n
    BY <1>1, <1>2, JobKnown DEF Job, At
<1>t. job[j].try \in Nat
    BY JobKnown
<1>4. q.phase # "waiting" /\ 1 <= q.try /\ job[j].try <= q.try /\ q.second \in 1..now
    BY <1>t, <1>1, <1>2, <1>3
<1>. HIDE DEF q
<1>5. ASSUME /\ archive' = [archive EXCEPT ![<<input[j].task, job[j].second>>][f] = j]
             /\ temp' = temp \ Moved(j, f)
             /\ job' = [job EXCEPT ![j].filed = @ + 1] /\ Fine
      PROVE  ScriptsInv'
    <2>1. job' = [job EXCEPT ![j] = q] /\ job'[j] = q
        BY <1>5 DEF ScriptsInv, TypeOK, q
    <2>2. /\ why' = [why EXCEPT ![j] = why[j]] /\ faults' \in 0..MaxFaults
          /\ why[j] \in SUBSET Excuses
        BY <1>5 DEF Fine, ScriptsInv, TypeOK
    <2>3. archive' = [archive EXCEPT ![Dir(j)][f] = j]
        BY <1>5 DEF Dir
    <2>4. archive' \in [Dirs -> [Files -> Jobs \cup {NoJob}]]
        BY <1>2, <2>3 DEF ScriptsInv, TypeOK
    <2>5. \A d \in Dirs, g \in Files :
              archive'[d][g] = IF d = Dir(j) /\ g = f THEN j ELSE archive[d][g]
        BY <1>2, <2>3 DEF ScriptsInv, TypeOK
    <2>6. \A d \in Dirs, g \in Files : archive[d][g] # NoJob => archive'[d][g] # NoJob
        BY <2>5, ScriptsAssumption
    <2>7. ArchiveIsOf'
        <3>1. \A i \in Jobs : job'[i].try = job[i].try /\ job'[i].second = job[i].second
            BY <1>3, <2>1 DEF ScriptsInv, TypeOK
        <3>2. \A i : ToFile(i)' = ToFile(i)
            BY SameRequests
        <3>3. ASSUME NEW d \in Dirs, NEW g \in Files, archive'[d][g] # NoJob
              PROVE  /\ archive'[d][g] \in Jobs /\ input[archive'[d][g]].task = d[1]
                     /\ g \in ToSet(ToFile(archive'[d][g]))
                     /\ job[archive'[d][g]].second = d[2] \/ job[archive'[d][g]].try > 1
            <4>1. CASE d = Dir(j) /\ g = f
                BY <1>2, <2>5, <4>1 DEF Dir, ToSet
            <4>2. CASE ~(d = Dir(j) /\ g = f)
                <5>1. archive'[d][g] = archive[d][g]
                    BY <2>5, <4>2
                <5>. QED
                    BY <3>3, <5>1 DEF ScriptsInv, TypeOK, ArchiveIsOf
            <4>. QED
                BY <4>1, <4>2
        <3>4. Dirs' = Dirs /\ Files' = Files /\ \A z : ToSet(z)' = ToSet(z)
            BY DEF Dirs, Files, ToSet
        <3>. QED
            BY <3>1, <3>2, <3>3, <3>4 DEF ArchiveIsOf
    <2>8. why[j] = {} => TempInUse(j)' /\ FiledAre(j)'
        <3>. SUFFICES ASSUME why[j] = {} PROVE TempInUse(j)' /\ FiledAre(j)'
            OBVIOUS
        <3>1. ASSUME NEW g \in temp', g[1] = j
              PROVE  g = Temp(j, "vars") /\ VarsInUse(j)'
            <4>1. g \in temp /\ g \notin Moved(j, f)
                BY <1>5, <3>1
            <4>2. ~(g = Temp(j, "code") /\ CodeInUse(j))
                <5>. SUFFICES ASSUME g = Temp(j, "code"), CodeInUse(j) PROVE FALSE
                    OBVIOUS
                <5>1. f = CodeFile(j)
                    BY <1>1, JobKnown DEF CodeInUse, At
                <5>2. f # "vars"
                    BY <5>1 DEF CodeFile
                <5>3. Moved(j, f) = {Temp(j, "code")}
                    BY <5>1, <5>2 DEF Moved
                <5>. QED
                    BY <4>1, <5>3
            <4>3. g = Temp(j, "vars") /\ VarsInUse(j)
                BY <3>1, <4>1, <4>2, TempKnown
            <4>4. f # "vars"
                BY <4>1, <4>3 DEF Moved, CodeFile
            <4>5. PICK k \in DOMAIN ToFile(j) : k > job[j].filed /\ ToFile(j)[k] = "vars"
                BY <1>1, <4>3 DEF VarsInUse, At
            <4>6. k > n
                BY <4>4, <4>5, JobKnown
            <4>. QED
                BY <1>3, <2>1, <4>3, <4>5, <4>6, SameRequests DEF VarsInUse, At
        <3>2. TempInUse(j)'
            BY <1>3, <2>1, <3>1, TempStep
        <3>3. Dir(j)' = Dir(j) /\ ToFile(j)' = ToFile(j)
            BY <1>3, <2>1, SameRequests DEF Dir
        <3>4. ASSUME NEW k \in DOMAIN ToFile(j), k <= n
              PROVE  archive'[Dir(j)][ToFile(j)[k]] # NoJob
            <4>1. ToFile(j)[k] \in Files
                BY JobKnown
            <4>2. CASE k = n
                BY <1>2, <2>5, <4>2, ScriptsAssumption
            <4>3. CASE k # n
                <5>1. k <= job[j].filed
                    BY <3>4, <4>3, JobKnown
                <5>2. archive[Dir(j)][ToFile(j)[k]] # NoJob
                    BY <1>1, <1>2, <5>1, JobKnown DEF JobOK, FiledAre
                <5>. QED
                    BY <1>2, <2>6, <4>1, <5>2
            <4>. QED
                BY <4>2, <4>3
        <3>5. FiledAre(j)'
            BY <1>3, <2>1, <3>3, <3>4 DEF FiledAre, At
        <3>. QED
            BY <3>2, <3>5
    <2>9. temp' \subseteq temp
        BY <1>5
    <2>. QED
        BY <1>1, <1>3, <1>4, <2>1, <2>2, <2>4, <2>6, <2>7, <2>8, <2>9, WorkKeeps
<1>6. ASSUME Fails(j), job' = [job EXCEPT ![j].filed = @ + 1], UNCHANGED <<archive, temp>>
      PROVE  ScriptsInv'
    <2>1. job' = [job EXCEPT ![j] = q]
        BY <1>6 DEF ScriptsInv, TypeOK, q
    <2>2. /\ why' = [why EXCEPT ![j] = why[j] \cup {"fault"}] /\ faults' \in 0..MaxFaults
          /\ why[j] \cup {"fault"} \in SUBSET Excuses
          /\ why[j] \cup {"fault"} # {}
        BY <1>6, ScriptsAssumption DEF Fails, ScriptsInv, TypeOK, Excuses
    <2>. QED
        BY <1>1, <1>3, <1>4, <1>6, <2>1, <2>2, UnfiledKeeps
<1>7. ASSUME Fails(j), Goes(j, "answering"), UNCHANGED <<archive, temp>>
      PROVE  ScriptsInv'
    BY <1>1, <1>7, FailKeeps
<1>. QED
    BY <1>5, <1>6, <1>7 DEF FileNext

----------------------------------------------------------------------------
(* Theorems. *)

\* Every step keeps the invariant.
LEMMA StepInv == ScriptsInv /\ [Next]_vars => ScriptsInv'
<1>. SUFFICES ASSUME ScriptsInv, [Next]_vars PROVE ScriptsInv'
    OBVIOUS
<1>0. input' = input
    BY DEF Next, vars
<1>1. ASSUME UNCHANGED <<job, temp, archive, results, faults, why>>, now' \in now..MaxSeconds
      PROVE  ScriptsInv'
    <2>1. now \in 1..MaxSeconds /\ MaxSeconds \in Nat
        BY ScriptsAssumption DEF ScriptsInv, TypeOK
    <2>2. TypeOK'
        <3>1. \A j \in Jobs : At(j, "filing")' => job'[j].second \in 1..now'
            BY <1>1, <2>1 DEF ScriptsInv, TypeOK, At
        <3>. QED
            BY <1>0, <1>1, <2>1, <3>1 DEF ScriptsInv, TypeOK
    <2>3. ArchiveIsOf'
        BY <1>0, <1>1, JobKnown, ArchiveStays
    <2>4. \A j \in Jobs : JobOK(j)'
        BY <1>0, <1>1, JobStays
    <2>. QED
        BY <2>2, <2>3, <2>4 DEF ScriptsInv
<1>2. CASE UNCHANGED vars \/ Tick
    <2>1. now \in 1..MaxSeconds /\ MaxSeconds \in Nat
        BY ScriptsAssumption DEF ScriptsInv, TypeOK
    <2>. QED
        BY <1>1, <1>2, <2>1 DEF vars, Tick
<1>3. ASSUME NEW kind \in Kinds, Killed(kind)
      PROVE  ScriptsInv'
    <2>1. faults' \in 0..MaxFaults
        BY <1>3, ScriptsAssumption DEF Killed, ScriptsInv, TypeOK
    <2>. QED
        BY <1>0, <1>3, <2>1, DiesKeeps DEF Killed
<1>4. ASSUME NEW j \in Jobs, Start(j) \/ Work(j)
      PROVE  ScriptsInv'
    BY <1>0, <1>4, StartKeeps, CreateCodeKeeps, PrepareVarsKeeps, RunScriptKeeps, MakeDirKeeps,
       FileNextKeeps, FiledKeeps, ProduceResultKeeps DEF Work, Proceed
<1>. QED
    BY <1>2, <1>3, <1>4 DEF Next

\* What is known of the jobs, their files and the archives holds for ever.
THEOREM ScriptsInvariant == Spec => []ScriptsInv
BY InitInv, StepInv, PTL DEF Spec

\* Type correctness: a job that files has a directory of a second that came, and
\* every temporary file is of a try its job made.
THEOREM ScriptsTypeCorrect == Spec => []TypeOK
BY ScriptsInvariant, PTL DEF ScriptsInv

\* Whatever the job, its script and the language, archive and moveTempFile leave
\* no temporary file behind when the job is over, but for a fault, the death of
\* the process, and variables the handler could not parse.
THEOREM LeftoversAreExplained == Spec => []LeftoverIsExplained
<1>1. ScriptsInv => LeftoverIsExplained
    <2>. SUFFICES ASSUME ScriptsInv, NEW f \in temp, At(f[1], "over"), why[f[1]] = {}
                  PROVE  FALSE
        BY DEF LeftoverIsExplained
    <2>1. f[1] \in Jobs
        BY DEF ScriptsInv, TypeOK
    <2>2. CodeInUse(f[1]) \/ VarsInUse(f[1])
        BY <2>1, TempKnown
    <2>. QED
        BY <2>2 DEF CodeInUse, VarsInUse, At
<1>. QED
    BY <1>1, ScriptsInvariant, PTL

\* The directory of a job that went through without a fault has every file of
\* its list, and no other; where another job shares task and second, or is
\* delivered again, each file is of one of them.
THEOREM ArchivesAreWhole == Spec => []ArchiveIsWhole
<1>1. ScriptsInv => ArchiveIsWhole
    <2>. SUFFICES ASSUME ScriptsInv, NEW j \in Jobs,
                         At(j, "over"), why[j] = {}, job[j].second # 0
                  PROVE  LET twins == {i \in Jobs : Dir(i) = Dir(j)
                                           \/ (input[i].task = input[j].task /\ job[i].try > 1)}
                             filed == {f \in Files : archive[Dir(j)][f] # NoJob}
                         IN  /\ ToSet(ToFile(j)) \subseteq filed
                             /\ \A f \in filed : archive[Dir(j)][f] \in twins
                             /\ twins = {j} => filed = ToSet(ToFile(j))
        BY DEF ArchiveIsWhole
    <2>. DEFINE twins == {i \in Jobs : Dir(i) = Dir(j)
                              \/ (input[i].task = input[j].task /\ job[i].try > 1)}
                filed == {f \in Files : archive[Dir(j)][f] # NoJob}
    <2>1. Dir(j) \in Dirs
        BY DirKnown
    <2>2. ToSet(ToFile(j)) \subseteq filed
        <3>1. \A k \in DOMAIN ToFile(j) : archive[Dir(j)][ToFile(j)[k]] # NoJob
            BY JobKnown DEF JobOK, FiledAre, At
        <3>. QED
            BY <3>1, JobKnown DEF ToSet
    <2>3. ASSUME NEW f \in filed
          PROVE  /\ archive[Dir(j)][f] \in twins
                 /\ f \in ToSet(ToFile(archive[Dir(j)][f]))
        <3>. DEFINE i == archive[Dir(j)][f]
        <3>1. i \in Jobs
            BY <2>1 DEF ScriptsInv, TypeOK
        <3>2. /\ input[i].task = Dir(j)[1] /\ f \in ToSet(ToFile(i))
              /\ job[i].second = Dir(j)[2] \/ job[i].try > 1
            BY <2>1 DEF ScriptsInv, ArchiveIsOf
        <3>. QED
            BY <3>1, <3>2 DEF Dir
    <2>4. twins = {j} => filed = ToSet(ToFile(j))
        BY <2>2, <2>3
    <2>. QED
        BY <2>2, <2>3, <2>4
<1>. QED
    BY <1>1, ScriptsInvariant, PTL
=============================================================================
