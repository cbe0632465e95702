------------------------------ MODULE Scripts ------------------------------
(***************************************************************************)
(* The two programs that run shell and python scripts: the older worker,   *)
(* which takes them from a topic and sends a result event, and the shell   *)
(* and python handlers of the SDK executor.  Both write the code and the   *)
(* variables to temporary files in one directory, run the interpreter, and *)
(* file what they used under the task's id and the current second.         *)
(*                                                                         *)
(* Source: internal/execute/internal/service/service.go,                   *)
(* internal/execute/internal/event/consumer.go, internal/grpc/scripts.     *)
(*                                                                         *)
(* The kinds differ where a step fails: the worker logs and goes on, gives *)
(* up filing, or dies of a nil pointer, with all its jobs, for nothing     *)
(* recovers a panic; the handler returns an error.                         *)
(***************************************************************************)
EXTENDS Integers, Sequences, FiniteSets, SequencesExt

CONSTANTS
    Jobs,        \* messages for the worker, executions for the handler
    Inputs,      \* requests the jobs may be
    NoJob,
    Workers,     \* goroutines that take messages
    MaxTries,    \* bound: deliveries of a job
    MaxSeconds,  \* bound: seconds of the clock
    MaxFaults    \* bound: system calls that fail, processes killed

Kinds == {"worker", "handler"}
Languages == {"shell", "python", "other"}

Request == [kind : Kinds, task : Nat, language : Languages,
            parses : BOOLEAN,   \* is the message what ExecuteReceive expects?
            code : BOOLEAN, args : BOOLEAN,   \* are they there?
            variables : {"none", "good", "bad"}]

ASSUME ScriptsAssumption ==
    /\ Inputs \subseteq Request
    /\ \A r \in Inputs : r.kind = "handler" => r.language # "other" /\ r.parses
    /\ NoJob \notin Jobs
    /\ {Workers, MaxTries, MaxSeconds} \subseteq Nat \ {0} /\ MaxFaults \in Nat

VARIABLES
    input,    \* input[j]: what the job asks for
    job,      \* the job's progress
    temp,     \* temporary files, by job, try and what they hold
    archive,  \* archive[t, s]: the files of the directory, by their job
    now,      \* the second
    results,  \* results[j]: result events sent
    faults,   \* what failed so far, counted ...
    why       \* ... and for each job why it may have left something undone

vars == <<input, job, temp, archive, now, results, faults, why>>

Dirs == {r.task : r \in Inputs} \X (1..MaxSeconds)
Files == {"sh", "py", "args", "vars", "vars.json"}   \* scripts.<...>
Empty == [f \in Files |-> NoJob]

Excuses == {"fault", "killed", "unparsable", "malformed"}

Phases == {"waiting", "started", "coded", "ready", "ran", "filing", "answering", "over"}

Job == [phase : Phases, try : 0..MaxTries, ok : BOOLEAN,
        second : 0..MaxSeconds,   \* of its directory
        filed : 0..4]             \* entries of ToFile dealt with

Init ==
    /\ input \in [Jobs -> Inputs]
    /\ job = [j \in Jobs |-> [phase |-> "waiting", try |-> 0, ok |-> TRUE,
                              second |-> 0, filed |-> 0]]
    /\ temp = {}
    /\ archive = [d \in Dirs |-> Empty]
    /\ now = 1
    /\ results = [j \in Jobs |-> {}]
    /\ faults = 0
    /\ why = [j \in Jobs |-> {}]

Is(j, kind) == input[j].kind = kind

At(j, phase) == job[j].phase = phase

Goes(j, phase) == job' = [job EXCEPT ![j].phase = phase]

\* The handler returns an error; the worker goes on to the result event.
GivesUp(j) == IF Is(j, "handler") THEN "over" ELSE "answering"

Temp(j, what) == <<j, job[j].try, what>>

\* A system call fails for job j.
Fails(j) ==
    /\ faults < MaxFaults
    /\ faults' = faults + 1
    /\ why' = [why EXCEPT ![j] = @ \cup {"fault"}]

Fine == UNCHANGED <<faults, why>>

\* The process dies with the jobs it works on.  The broker delivers a message
\* again unless its offset was committed; an execution is not started again here.
ProcessDies(kind) ==
    LET hit == {j \in Jobs : Is(j, kind) /\ job[j].phase \notin {"waiting", "over"}}
    IN  /\ \E again \in SUBSET {j \in hit : kind = "worker" /\ job[j].try < MaxTries} :
              job' = [j \in Jobs |->
                         IF j \in again THEN [job[j] EXCEPT !.phase = "waiting"]
                         ELSE IF j \in hit THEN [job[j] EXCEPT !.phase = "over"] ELSE job[j]]
        /\ why' = [j \in Jobs |-> IF j \in hit THEN why[j] \cup {"killed"} ELSE why[j]]

Killed(kind) ==
    /\ faults < MaxFaults /\ faults' = faults + 1
    /\ ProcessDies(kind)
    /\ UNCHANGED <<temp, archive, now, results>>

----------------------------------------------------------------------------
\* The jobs that keep a worker busy, till its result event is sent.
Busy == {j \in Jobs : Is(j, "worker") /\ job[j].phase \notin {"waiting", "over"}}

\* A free worker takes a message, and drops it, without a result event, if it
\* cannot parse it; the executor starts the handler in a goroutine of its own.
Start(j) ==
    /\ At(j, "waiting")
    /\ Is(j, "worker") => Cardinality(Busy) < Workers
    /\ job' = [job EXCEPT ![j] = [phase |-> IF input[j].parses THEN "started" ELSE "over",
                                  try |-> @.try + 1, ok |-> TRUE,
                                  second |-> 0, filed |-> 0]]
    /\ why' = IF input[j].parses THEN why ELSE [why EXCEPT ![j] = @ \cup {"malformed"}]
    /\ UNCHANGED <<temp, archive, now, results, faults>>

\* The code file.  Without a file the worker asks a nil file for its name.
CreateCode(j) ==
    /\ At(j, "started")
    /\ \/ /\ Is(j, "handler") /\ ~input[j].code
          /\ Goes(j, "over") /\ Fine /\ UNCHANGED temp
       \/ /\ Is(j, "worker") \/ input[j].code
          /\ temp' = temp \cup {Temp(j, "code")} /\ Goes(j, "coded") /\ Fine
       \/ /\ Is(j, "handler") /\ input[j].code /\ Fails(j)
          /\ temp' \in {temp, temp \cup {Temp(j, "code")}} /\ Goes(j, "over")
       \/ /\ Is(j, "worker") /\ faults < MaxFaults /\ faults' = faults + 1
          /\ ProcessDies("worker") /\ UNCHANGED temp
    /\ UNCHANGED <<archive, now, results>>

\* The worker writes a file for shell whatever the variables are, the handler
\* only what it can parse; python gets the variables on the command line.
VarsFile(j) ==
    /\ input[j].language = "shell"
    /\ Is(j, "worker") \/ input[j].variables = "good"

\* Handler: variables that cannot be parsed end the job before archive is
\* deferred.
Unparsable(j) ==
    Is(j, "handler") /\ input[j].language = "shell" /\ input[j].variables = "bad"

\* A language the worker does not know leaves it without a command to run.
NoCommand(j) == Is(j, "worker") /\ input[j].language = "other"

PrepareVars(j) ==
    /\ At(j, "coded")
    /\ \/ /\ ~Unparsable(j) /\ ~NoCommand(j)
          /\ temp' = IF VarsFile(j) THEN temp \cup {Temp(j, "vars")} ELSE temp
          /\ Goes(j, "ready") /\ Fine
       \/ /\ Unparsable(j)
          /\ Goes(j, "over")
          /\ why' = [why EXCEPT ![j] = @ \cup {"unparsable"}]
          /\ UNCHANGED <<temp, faults>>
       \/ /\ NoCommand(j)
          /\ ProcessDies("worker") /\ UNCHANGED <<temp, faults>>
       \/ /\ VarsFile(j) /\ Is(j, "handler") /\ Fails(j)
          /\ temp' \in {temp, temp \cup {Temp(j, "vars")}} /\ Goes(j, "over")
       \/ /\ VarsFile(j) /\ Is(j, "worker") /\ faults < MaxFaults /\ faults' = faults + 1
          /\ ProcessDies("worker") /\ UNCHANGED temp
    /\ UNCHANGED <<archive, now, results>>

\* Mutant of RunScript: only what succeeded is filed.
RunScriptFilesSuccess(j) ==
    /\ At(j, "ready")
    /\ \E ok \in BOOLEAN :
          job' = [job EXCEPT ![j].phase = IF ok THEN "ran" ELSE GivesUp(j), ![j].ok = ok]
    /\ UNCHANGED <<temp, archive, now, results, faults, why>>

\* CombinedOutput waits for the script, however long it takes: there is no
\* timeout and no context.  Either way the files are put away.
RunScript(j) ==
    /\ At(j, "ready")
    /\ \E ok \in BOOLEAN :
          job' = [job EXCEPT ![j].phase = "ran", ![j].ok = ok]
    /\ UNCHANGED <<temp, archive, now, results, faults, why>>

----------------------------------------------------------------------------
(* archive of the handler, moveTempFile of the worker. *)

CodeFile(j) == IF input[j].language = "shell" THEN "sh" ELSE "py"

\* What is filed, in order.  The worker's args are JSON and never empty, and it
\* writes what python got as variables; the handler also files them raw.
ToFile(j) ==
    LET where(there, f) == IF there THEN <<f>> ELSE <<>>
    IN  <<CodeFile(j)>>
          \o where(Is(j, "worker") \/ input[j].args, "args")
          \o where(Is(j, "handler") /\ input[j].variables # "none", "vars.json")
          \o where(VarsFile(j) \/ (Is(j, "worker") /\ input[j].variables # "none"), "vars")

\* Mutant of MakeDir: its error is overlooked.
MakeDirUnchecked(j) ==
    /\ At(j, "ran")
    /\ \/ job' = [job EXCEPT ![j].phase = "filing", ![j].second = now] /\ Fine
       \/ Fails(j) /\ Goes(j, "filing")
    /\ UNCHANGED <<temp, archive, now, results>>

\* MkdirAll accepts a directory that is there already.
MakeDir(j) ==
    /\ At(j, "ran")
    /\ \/ job' = [job EXCEPT ![j].phase = "filing", ![j].second = now] /\ Fine
       \/ Fails(j) /\ Goes(j, GivesUp(j))
    /\ UNCHANGED <<temp, archive, now, results>>

Moved(j, f) ==
    CASE f = CodeFile(j) -> {Temp(j, "code")}
      [] f = "vars" -> {Temp(j, "vars")}
      [] OTHER -> {}

\* Mutant of FileNext: the directory is named anew for every file.
FileNextElsewhere(j) ==
    /\ At(j, "filing") /\ job[j].filed < Len(ToFile(j))
    /\ LET f == ToFile(j)[job[j].filed + 1]
       IN  /\ archive' = [archive EXCEPT ![<<input[j].task, now>>][f] = j]
           /\ temp' = temp \ Moved(j, f)
    /\ job' = [job EXCEPT ![j].filed = @ + 1] /\ Fine
    /\ UNCHANGED <<now, results>>

\* One file is moved or written, over one that has the name already.  After a
\* failure the handler tries the next file, the worker gives up.
FileNext(j) ==
    /\ At(j, "filing") /\ job[j].filed < Len(ToFile(j))
    /\ \/ /\ LET f == ToFile(j)[job[j].filed + 1]
             IN  /\ archive' = [archive EXCEPT ![<<input[j].task, job[j].second>>][f] = j]
                 /\ temp' = temp \ Moved(j, f)
          /\ job' = [job EXCEPT ![j].filed = @ + 1] /\ Fine
       \/ /\ Fails(j)
          /\ IF Is(j, "handler") THEN job' = [job EXCEPT ![j].filed = @ + 1]
             ELSE Goes(j, "answering")
          /\ UNCHANGED <<archive, temp>>
    /\ UNCHANGED <<now, results>>

Filed(j) ==
    /\ At(j, "filing") /\ job[j].filed = Len(ToFile(j))
    /\ Goes(j, GivesUp(j))
    /\ UNCHANGED <<temp, archive, now, results, faults, why>>

\* Mutant of ProduceResult: the result of a failed script is not sent.
ProduceResultOfSuccess(j) ==
    /\ At(j, "answering")
    /\ Goes(j, "over")
    /\ results' = [results EXCEPT ![j] = IF job[j].ok THEN @ \cup {"SUCCESS"} ELSE @]
    /\ Fine
    /\ UNCHANGED <<temp, archive, now>>

\* The result event, lost for good if the broker refuses it.
ProduceResult(j) ==
    /\ At(j, "answering")
    /\ Goes(j, "over")
    /\ \/ results' = [results EXCEPT ![j] = @ \cup {IF job[j].ok THEN "SUCCESS" ELSE "FAILED"}]
          /\ Fine
       \/ Fails(j) /\ UNCHANGED results
    /\ UNCHANGED <<temp, archive, now>>

Tick ==
    /\ now < MaxSeconds /\ now' = now + 1
    /\ UNCHANGED <<job, temp, archive, results, faults, why>>

----------------------------------------------------------------------------
\* What a goroutine does by itself; a script ends when it likes.
Proceed(j) ==
    \/ CreateCode(j) \/ PrepareVars(j)
    \/ MakeDir(j) \/ FileNext(j) \/ Filed(j) \/ ProduceResult(j)

Work(j) == Proceed(j) \/ RunScript(j)

Next ==
    /\ \/ \E j \in Jobs : Start(j) \/ Work(j)
       \/ \E kind \in Kinds : Killed(kind)
       \/ Tick
    /\ UNCHANGED input

Spec == Init /\ [][Next]_vars

\* Messages are delivered to workers that are free, and goroutines run on.  A
\* script need not end.
FairSpec ==
    /\ Spec
    /\ \A j \in Jobs : /\ WF_vars(Start(j) /\ UNCHANGED input)
                      /\ WF_vars(Proceed(j) /\ UNCHANGED input)

----------------------------------------------------------------------------
(* Properties. *)

\* Type invariant; a job that is filing has a directory, and only its tries
\* have files.
TypeOK ==
    /\ input \in [Jobs -> Inputs]
    /\ job \in [Jobs -> Job]
    /\ \A j \in Jobs : At(j, "filing") => job[j].second \in 1..now
    /\ temp \subseteq Jobs \X (1..MaxTries) \X {"code", "vars"}
    /\ \A f \in temp : f[2] <= job[f[1]].try
    /\ archive \in [Dirs -> [Files -> Jobs \cup {NoJob}]]
    /\ now \in 1..MaxSeconds
    /\ results \in [Jobs -> SUBSET {"SUCCESS", "FAILED"}]
    /\ faults \in 0..MaxFaults
    /\ why \in [Jobs -> SUBSET Excuses]

\* A job that is over has put its temporary files away, whether the script
\* succeeded or not, unless a system call failed, the process died, or the
\* handler could not parse the variables.
LeftoverIsExplained ==
    \A f \in temp : At(f[1], "over") => why[f[1]] # {}

Dir(j) == <<input[j].task, job[j].second>>

\* The directory of a job that went through without a fault has exactly its
\* files, unless another job of the task was filed in the same second; then it
\* has each of the files from one of them, mixed.
ArchiveIsWhole ==
    \A j \in Jobs : At(j, "over") /\ why[j] = {} /\ job[j].second # 0 =>
        LET twins == {i \in Jobs : Dir(i) = Dir(j)
                                    \/ (input[i].task = input[j].task /\ job[i].try > 1)}
            filed == {f \in Files : archive[Dir(j)][f] # NoJob}
        IN  /\ ToSet(ToFile(j)) \subseteq filed
            /\ \A f \in filed : archive[Dir(j)][f] \in twins
            /\ twins = {j} => filed = ToSet(ToFile(j))

\* A worker waits for the script of message j.
ScriptRuns(j) == Is(j, "worker") /\ At(j, "ready")

\* Every message of the worker's topic is answered by a result event, unless it
\* cannot be parsed, a system call failed or the process died under it, its own
\* script does not end, or every worker sits on a script that does not end.
MessageIsAnswered ==
    \A j \in Jobs :
        []<>(Is(j, "worker") =>
                 \/ results[j] # {} \/ why[j] # {} \/ ScriptRuns(j)
                 \/ Cardinality({i \in Jobs : ScriptRuns(i)}) = Workers)
=============================================================================
