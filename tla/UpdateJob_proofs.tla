--------------------------- MODULE UpdateJob_proofs ---------------------------
(***************************************************************************)
(* Proofs about UpdateJob, for every number of clients, runs and commits.  *)
(***************************************************************************)
EXTENDS UpdateJob, TLAPS

Job == [run : Run \cup {None}, finished : BOOLEAN, ok : BOOLEAN,
        cancellable : BOOLEAN, stuck : BOOLEAN]
Record == [step : {"none"} \cup Steps \cup UndoSteps, target : Commit \cup {None},
           previous : Commit \cup {None}, moved : BOOLEAN]

(***************************************************************************)
(* What the operators on the run and its job do                            *)
(***************************************************************************)

LEMMA NoJobType == NoJob \in Job /\ NoRun \in Record
  BY DEF NoJob, Job, NoRun, Record

LEMMA FinishEffect ==
    ASSUME TypeOK, NEW r \in Run, NEW ok \in BOOLEAN, NEW stuck \in BOOLEAN,
           Finish(r, ok, stuck)
    PROVE  /\ run' \in [Run -> Record] /\ job' \in Job
           /\ run'[r] = [run[r] EXCEPT !.step = "none"]
           /\ \A s \in Run \ {r} : run'[s] = run[s]
           /\ job'.run = job.run /\ job'.finished /\ job'.ok = ok /\ job'.stuck = stuck
  BY DEF TypeOK, Finish, Job, Record

LEMMA MoveEffect ==
    ASSUME run \in [Run -> Record], NEW r \in Run, NEW moved \in BOOLEAN,
           NEW step \in Steps \cup UndoSteps,
           run' = [run EXCEPT ![r].step = step, ![r].moved = moved]
    PROVE  /\ run' \in [Run -> Record]
           /\ run'[r].step = step /\ run'[r].moved = moved
           /\ run'[r].target = run[r].target /\ run'[r].previous = run[r].previous
           /\ \A s \in Run \ {r} : run'[s] = run[s]
  <1> DEFINE after == [run[r] EXCEPT !.step = step, !.moved = moved]
  <1>1. run' = [run EXCEPT ![r] = after]
    OBVIOUS
  <1>2. run[r] \in Record
    OBVIOUS
  <1>3. /\ after \in Record /\ after.step = step /\ after.moved = moved
        /\ after.target = run[r].target /\ after.previous = run[r].previous
    BY <1>2 DEF Record
  <1> HIDE DEF after
  <1> QED BY <1>1, <1>3

LEMMA GoOnEffect ==
    ASSUME TypeOK, NEW r \in Run, run[r].step \in Steps \ {"restart"}, GoOn(r)
    PROVE  /\ run' \in [Run -> Record] /\ job' \in Job
           /\ run'[r].step = After[run[r].step]
           /\ run'[r].target = run[r].target /\ run'[r].previous = run[r].previous
           /\ run'[r].moved = (run[r].moved \/ run[r].step = "checkout")
           /\ \A s \in Run \ {r} : run'[s] = run[s]
           /\ job'.run = job.run /\ job'.finished = job.finished
  <1> DEFINE next == After[run[r].step]
             moved == run[r].moved \/ run[r].step = "checkout"
             cancellable == next \in CancellableSteps
  <1>1. next \in Steps
    BY DEF After, Steps
  <1>2. moved \in BOOLEAN /\ cancellable \in BOOLEAN
    OBVIOUS
  <1>3. run' = [run EXCEPT ![r].step = next, ![r].moved = moved]
    BY DEF GoOn
  <1>4. job' = [job EXCEPT !.cancellable = cancellable]
    BY DEF GoOn
  <1>5. run \in [Run -> Record] /\ job \in Job
    BY DEF TypeOK, Record, Job
  <1> HIDE DEF next, moved, cancellable
  <1>6. job' \in Job /\ job'.run = job.run /\ job'.finished = job.finished
    BY <1>2, <1>4, <1>5 DEF Job
  <1>7. /\ run' \in [Run -> Record]
        /\ run'[r].step = next /\ run'[r].moved = moved
        /\ run'[r].target = run[r].target /\ run'[r].previous = run[r].previous
        /\ \A s \in Run \ {r} : run'[s] = run[s]
    BY <1>1, <1>2, <1>3, <1>5, MoveEffect
  <1> QED BY <1>6, <1>7 DEF next, moved

LEMMA RollBackEffect ==
    ASSUME TypeOK, NEW r \in Run, GiveUp(r, TRUE)
    PROVE  /\ run' \in [Run -> Record] /\ job' \in Job
           /\ run'[r].step = "undoTree" /\ run'[r].moved
           /\ run'[r].target = run[r].target /\ run'[r].previous = run[r].previous
           /\ \A s \in Run \ {r} : run'[s] = run[s]
           /\ job'.run = job.run /\ job'.finished = job.finished
  <1>1. job' \in Job /\ job'.run = job.run /\ job'.finished = job.finished
    BY DEF TypeOK, GiveUp, Job
  <1>2. run' = [run EXCEPT ![r].step = "undoTree", ![r].moved = TRUE]
    BY DEF GiveUp
  <1>3. run \in [Run -> Record] /\ "undoTree" \in UndoSteps
    BY DEF TypeOK, Record, UndoSteps
  <1> QED BY <1>1, <1>2, <1>3, MoveEffect

LEMMA UndoDepsEffect ==
    ASSUME TypeOK, NEW r \in Run, run' = [run EXCEPT ![r].step = "undoDeps"], UNCHANGED job
    PROVE  /\ run' \in [Run -> Record] /\ job' \in Job
           /\ run'[r] = [run[r] EXCEPT !.step = "undoDeps"]
           /\ \A s \in Run \ {r} : run'[s] = run[s]
  BY DEF TypeOK, Job, Record, UndoSteps

LEMMA RefusalType == ASSUME TypeOK, Refusal PROVE job' \in Job
  BY NoJobType DEF TypeOK, Refusal, Job

(***************************************************************************)
(* Type correctness                                                        *)
(***************************************************************************)

LEMMA InitTypeOK == Init => TypeOK
  <1> SUFFICES ASSUME Init PROVE TypeOK
    OBVIOUS
  <1>1. run \in [Run -> Record] /\ job \in Job
    BY NoJobType DEF Init
  <1> QED BY <1>1 DEF Init, TypeOK, Job, Record

\* What a child leaves on disk: only its own part changes, to the commit it is
\* for or to Mixed.
LEMMA ChildEffect ==
    ASSUME TypeOK, NEW r \in Run, run[r].step \in (Steps \cup UndoSteps) \ {"restart"},
           run[r].target \in Commit, run[r].previous \in Commit,
           Succeeds(r) \/ Fails(r)
    PROVE  /\ disk' \in [Parts -> Commit \cup {Mixed}] /\ failed' \in BOOLEAN
           /\ run[r].step = "fetch" => disk' = disk
           /\ run[r].step # "fetch" =>
                /\ Part[run[r].step] \in Parts
                /\ Succeeds(r) => disk'[Part[run[r].step]] = Goal(r)
                /\ Fails(r) => disk'[Part[run[r].step]] \in {disk[Part[run[r].step]], Mixed}
                /\ \A p \in Parts \ {Part[run[r].step]} : disk'[p] = disk[p]
  <1> DEFINE step == run[r].step
             part == Part[step]
  <1>1. failed' \in BOOLEAN
    BY Zenon DEF TypeOK, Succeeds, Fails
  <1>2. Goal(r) \in Commit
    BY DEF Goal
  <1>3. CASE step = "fetch"
    BY <1>1, <1>3 DEF TypeOK, Succeeds, Fails
  <1>4. CASE step # "fetch"
    <2>1. part \in Parts
      BY <1>4 DEF Part, Parts, Steps, UndoSteps
    <2>2. Succeeds(r) => disk' = [disk EXCEPT ![part] = Goal(r)]
      BY <1>4 DEF Succeeds
    <2>3. Fails(r) => disk' = disk \/ disk' = [disk EXCEPT ![part] = Mixed]
      BY <1>4 DEF Fails
    <2>4. disk \in [Parts -> Commit \cup {Mixed}]
      BY DEF TypeOK
    <2> HIDE DEF part, step
    <2>5. /\ Succeeds(r) => /\ disk' \in [Parts -> Commit \cup {Mixed}]
                            /\ disk'[part] = Goal(r)
                            /\ \A p \in Parts \ {part} : disk'[p] = disk[p]
          /\ Fails(r) => /\ disk' \in [Parts -> Commit \cup {Mixed}]
                         /\ disk'[part] \in {disk[part], Mixed}
                         /\ \A p \in Parts \ {part} : disk'[p] = disk[p]
      BY <1>2, <2>1, <2>2, <2>3, <2>4
    <2> QED BY <1>1, <1>4, <2>1, <2>5 DEF part, step
  <1> QED BY <1>3, <1>4

(***************************************************************************)
(* The inductive invariant                                                 *)
(***************************************************************************)

\* At most one handler holds the claim, and only while no job is under way: so
\* that what Launch starts is the only run.
ClaimIsOne == \A c \in applying : starting /\ job.finished /\ applying = {c}

\* A run under way knows where it came from and where it goes.
CommitsKnown == \A r \in Run : InFlight(r) =>
    run[r].target \in Commit /\ run[r].previous \in Commit /\ run[r].target # run[r].previous

\* What a run under way has done to the disk.
Progress(r) ==
    /\ run[r].step \in {"fetch", "checkout"} => ~run[r].moved /\ disk["tree"] = run[r].previous
    /\ run[r].step \in {"build", "deps", "restart"} => run[r].moved /\ disk["tree"] = run[r].target
    /\ run[r].step \in {"deps", "restart"} => disk["binary"] = run[r].target
    /\ run[r].step = "restart" => disk["venv"] = run[r].target
    /\ run[r].step \in UndoSteps => run[r].moved
    /\ run[r].step = "undoDeps" => disk["tree"] = run[r].previous

\* No child of a run writes to the disk once an exit is armed.
Quiet == armed # "no" => \A r \in Run : run[r].step \in {"none", "fetch"}

IInv ==
    /\ TypeOK
    /\ OneRunAndItIsTold
    /\ ClaimIsOne
    /\ CommitsKnown
    /\ \A r \in Run : Progress(r)
    /\ Quiet
    /\ RestartsOntoOneCommit
    /\ FailuresArePutBack

LEMMA InitIInv == Init => IInv
  <1> SUFFICES ASSUME Init PROVE IInv
    OBVIOUS
  <1>1. \A r \in Run : run[r].step = "none"
    BY DEF Init, NoRun
  <1>2. job.run = None /\ armed = "no" /\ applying = {}
    BY DEF Init, NoJob
  <1> QED BY <1>1, <1>2, InitTypeOK
          DEF IInv, OneRunAndItIsTold, ClaimIsOne, CommitsKnown, Progress, Quiet, InFlight,
              RestartsOntoOneCommit, FailuresArePutBack, UndoSteps

(***************************************************************************)
(* Requests                                                                *)
(***************************************************************************)

\* Whatever leaves the runs, the disk and an unfinished job alone.
LEMMA RequestKeeps ==
    ASSUME IInv, UNCHANGED <<disk, run>>, TypeOK',
           job' = job \/ (job.finished /\ job' = NoJob),
           ClaimIsOne', Quiet', armed' = "updater" => armed = "updater"
    PROVE  IInv'
  <1>1. job'.finished = job.finished /\ (~job.finished => job'.run = job.run)
    BY DEF NoJob, IInv, TypeOK
  <1>2. OneRunAndItIsTold'
    BY <1>1 DEF IInv, OneRunAndItIsTold, InFlight
  <1>3. CommitsKnown' /\ (\A r \in Run : Progress(r))' /\ RestartsOntoOneCommit'
    BY DEF IInv, CommitsKnown, InFlight, Progress, RestartsOntoOneCommit
  <1>4. FailuresArePutBack'
    BY DEF IInv, FailuresArePutBack, NoJob
  <1> QED BY <1>2, <1>3, <1>4 DEF IInv

LEMMA RefusalEffect ==
    ASSUME IInv, Refusal
    PROVE  /\ job' \in Job
           /\ job' = job \/ (job.finished /\ job' = NoJob)
           /\ job'.finished = job.finished
  <1>1. job \in Job /\ NoJob \in Job /\ NoJob.finished
    BY NoJobType DEF IInv, TypeOK, Job, NoJob
  <1>2. CASE job.finished
    BY <1>1, <1>2 DEF Refusal, Job
  <1>3. CASE ~job.finished
    BY <1>1, <1>3 DEF Refusal
  <1> QED BY <1>2, <1>3

LEMMA Requests ==
    ASSUME IInv,
           \/ ApplyRefused \/ Cancel \/ UserRestart
           \/ \E c \in Client : Apply(c) \/ ApplyEnds(c) \/ ApplyCut(c)
    PROVE  IInv'
  <1>1. CASE ApplyRefused
    <2>1. TypeOK' BY <1>1, RefusalEffect DEF ApplyRefused, IInv, TypeOK, Job
    <2>2. ClaimIsOne' BY <1>1, RefusalEffect DEF ApplyRefused, IInv, ClaimIsOne
    <2>3. Quiet' BY <1>1 DEF ApplyRefused, IInv, Quiet
    <2> QED BY <1>1, <2>1, <2>2, <2>3, RefusalEffect, RequestKeeps DEF ApplyRefused
  <1>2. CASE Cancel
    <2>1. TypeOK' /\ ClaimIsOne' /\ Quiet'
      BY <1>2 DEF Cancel, IInv, TypeOK, ClaimIsOne, Quiet
    <2> QED BY <1>2, <2>1, RequestKeeps DEF Cancel
  <1>3. CASE UserRestart
    <2>1. TypeOK' /\ ClaimIsOne'
      BY <1>3 DEF UserRestart, IInv, TypeOK, ClaimIsOne
    <2>2. Quiet'
      BY <1>3 DEF UserRestart, Veto, RunInFlight, IInv, OneRunAndItIsTold, InFlight, Quiet
    <2> QED BY <1>3, <2>1, <2>2, RequestKeeps DEF UserRestart
  <1>4. ASSUME NEW c \in Client, Apply(c) PROVE IInv'
    <2>1. TypeOK' /\ Quiet'
      BY <1>4 DEF Apply, IInv, TypeOK, Quiet
    <2>2. ClaimIsOne'
      BY <1>4 DEF Apply, RunInFlight, IInv, ClaimIsOne
    <2> QED BY <1>4, <2>1, <2>2, RequestKeeps DEF Apply
  <1>5. ASSUME NEW c \in Client, ApplyEnds(c) PROVE IInv'
    <2>1. TypeOK' BY <1>5, RefusalEffect DEF ApplyEnds, IInv, TypeOK, Job
    <2>2. ClaimIsOne' BY <1>5 DEF ApplyEnds, IInv, ClaimIsOne
    <2>3. Quiet' BY <1>5 DEF ApplyEnds, IInv, Quiet
    <2> QED BY <1>5, <2>1, <2>2, <2>3, RefusalEffect, RequestKeeps DEF ApplyEnds
  <1>6. ASSUME NEW c \in Client, ApplyCut(c) PROVE IInv'
    <2>1. TypeOK' /\ Quiet' BY <1>6 DEF ApplyCut, IInv, TypeOK, Quiet
    <2>2. ClaimIsOne' BY <1>6 DEF ApplyCut, IInv, ClaimIsOne
    <2> QED BY <1>6, <2>1, <2>2, RequestKeeps DEF ApplyCut
  <1> QED BY <1>1, <1>2, <1>3, <1>4, <1>5, <1>6

\* The run that is launched is the only one.
LEMMA Launches ==
    ASSUME IInv, NEW c \in Client, NEW r \in Run, NEW target \in Commit, Launch(c, r, target)
    PROVE  IInv'
  <1> DEFINE new == [step |-> "fetch", target |-> target, previous |-> disk["tree"], moved |-> FALSE]
  <1>1. disk["tree"] \in Commit \ {target} /\ run' = [run EXCEPT ![r] = new] /\ UNCHANGED <<disk, armed>>
    BY DEF Launch
  <1>2. new \in Record /\ run \in [Run -> Record] /\ job \in Job
    BY <1>1 DEF IInv, TypeOK, Record, Steps, Job
  <1>3. /\ run'[r] = new
        /\ \A s \in Run \ {r} : run'[s] = run[s]
        /\ run' \in [Run -> Record]
    BY <1>1, <1>2
  <1>4. /\ job' = [NoJob EXCEPT !.run = r, !.finished = FALSE, !.cancellable = TRUE]
        /\ starting' = FALSE /\ cancelled' = FALSE /\ failed' = FALSE
        /\ c \in applying /\ applying' = applying \ {c}
    BY DEF Launch
  <1>5. job' \in Job /\ job'.run = r /\ ~job'.finished
    BY <1>4 DEF NoJob, Job
  <1>6. job.finished /\ applying' = {}
    BY <1>4 DEF IInv, ClaimIsOne
  <1>7. \A s \in Run : ~InFlight(s)
    BY <1>6 DEF IInv, OneRunAndItIsTold
  <1>8. \A s \in Run \ {r} : run'[s].step = "none"
    BY <1>3, <1>7 DEF InFlight
  <1>9. TypeOK'
    BY <1>1, <1>3, <1>4, <1>5, <1>6 DEF IInv, TypeOK, Job, Record
  <1>10. OneRunAndItIsTold' /\ ClaimIsOne' /\ CommitsKnown'
    BY <1>1, <1>3, <1>5, <1>6, <1>8 DEF OneRunAndItIsTold, ClaimIsOne, CommitsKnown, InFlight
  <1>11. (\A s \in Run : Progress(s))'
    BY <1>1, <1>3, <1>8 DEF Progress, UndoSteps
  <1>12. Quiet' /\ RestartsOntoOneCommit' /\ FailuresArePutBack'
    BY <1>1, <1>3, <1>5, <1>8 DEF Quiet, IInv, RestartsOntoOneCommit, FailuresArePutBack
  <1> QED BY <1>9, <1>10, <1>11, <1>12 DEF IInv

\* After an exit or a crash nothing is under way.
LEMMA Reboots ==
    ASSUME IInv, Reborn, disk' \in [Parts -> Commit \cup {Mixed}]
    PROVE  IInv'
  <1>1. /\ run' = [r \in Run |-> NoRun] /\ job' = NoJob
        /\ starting' = FALSE /\ cancelled' = FALSE /\ failed' = FALSE
        /\ applying' = {} /\ armed' = "no"
    BY DEF Reborn
  <1>2. run' \in [Run -> Record] /\ job' \in Job /\ job'.run = None
    BY <1>1, NoJobType DEF NoJob
  <1>3. \A r \in Run : run'[r].step = "none"
    BY <1>1 DEF NoRun
  <1>4. TypeOK'
    BY <1>1, <1>2 DEF TypeOK, Job, Record
  <1>5. OneRunAndItIsTold' /\ ClaimIsOne' /\ CommitsKnown' /\ (\A r \in Run : Progress(r))'
    BY <1>1, <1>3 DEF OneRunAndItIsTold, ClaimIsOne, CommitsKnown, InFlight, Progress, UndoSteps
  <1>6. Quiet' /\ RestartsOntoOneCommit' /\ FailuresArePutBack'
    BY <1>1, <1>2 DEF Quiet, RestartsOntoOneCommit, FailuresArePutBack
  <1> QED BY <1>4, <1>5, <1>6 DEF IInv

LEMMA CrashType == ASSUME IInv, Crash PROVE disk' \in [Parts -> Commit \cup {Mixed}]
  <1>1. disk \in [Parts -> Commit \cup {Mixed}]
    BY DEF IInv, TypeOK
  <1>2. CASE UNCHANGED disk BY <1>1, <1>2
  <1>3. ASSUME NEW r \in Run, disk' = [disk EXCEPT ![Part[run[r].step]] = Mixed]
        PROVE  disk' \in [Parts -> Commit \cup {Mixed}]
    BY <1>1, <1>3
  <1> QED BY <1>2, <1>3 DEF Crash

(***************************************************************************)
(* The run                                                                 *)
(***************************************************************************)

\* What holds after any step of run r that keeps the books: the run changes
\* only its own record, keeps its commits, and is over when its job is closed.
LEMMA RunStepKeeps ==
    ASSUME IInv, NEW r \in Run, InFlight(r),
           run' \in [Run -> Record], job' \in Job, disk' \in [Parts -> Commit \cup {Mixed}],
           failed' \in BOOLEAN, armed' \in {"no", "user", "updater"},
           UNCHANGED <<starting, cancelled, applying>>,
           \A s \in Run \ {r} : run'[s] = run[s],
           run'[r].target = run[r].target, run'[r].previous = run[r].previous,
           job'.run = job.run, job'.finished => run'[r].step = "none"
    PROVE  /\ TypeOK' /\ OneRunAndItIsTold' /\ ClaimIsOne' /\ CommitsKnown'
           /\ job'.run = r
           /\ \A s \in Run \ {r} : run'[s].step = "none"
           /\ \A s \in Run \ {r} : Progress(s)'
  <1>1. job.run = r /\ ~job.finished /\ \A s \in Run \ {r} : run[s].step = "none"
    BY DEF IInv, OneRunAndItIsTold, InFlight
  <1>2. applying = {}
    BY <1>1 DEF IInv, ClaimIsOne
  <1>3. \A s \in Run \ {r} : run'[s].step = "none"
    BY <1>1
  <1>4. TypeOK'
    BY <1>2 DEF IInv, TypeOK, Job, Record
  <1>5. OneRunAndItIsTold' /\ ClaimIsOne'
    BY <1>1, <1>2, <1>3 DEF OneRunAndItIsTold, ClaimIsOne, InFlight
  <1>6. CommitsKnown'
    BY <1>3 DEF IInv, CommitsKnown, InFlight
  <1>7. \A s \in Run \ {r} : Progress(s)'
    BY <1>3 DEF Progress, UndoSteps
  <1> QED BY <1>1, <1>3, <1>4, <1>5, <1>6, <1>7

\* A step that ends the run: all that is left to show is what it leaves behind.
LEMMA FinishKeeps ==
    ASSUME IInv, NEW r \in Run, InFlight(r), NEW ok \in BOOLEAN, NEW stuck \in BOOLEAN,
           Finish(r, ok, stuck),
           disk' \in [Parts -> Commit \cup {Mixed}], failed' \in BOOLEAN,
           armed' \in {"no", "updater"}, UNCHANGED <<starting, cancelled, applying>>,
           ~ok /\ ~stuck => /\ disk'["tree"] # run[r].target
                            /\ run[r].moved => /\ disk'["tree"] = run[r].previous
                                               /\ disk'["venv"] = run[r].previous,
           RestartsOntoOneCommit'
    PROVE  IInv'
  <1>1. TypeOK BY DEF IInv
  <1>2. /\ run' \in [Run -> Record] /\ job' \in Job
        /\ run'[r] = [run[r] EXCEPT !.step = "none"]
        /\ \A s \in Run \ {r} : run'[s] = run[s]
        /\ job'.run = job.run /\ job'.finished /\ job'.ok = ok /\ job'.stuck = stuck
    BY <1>1, FinishEffect
  <1>3. run[r] \in Record
    BY <1>1 DEF TypeOK, Record
  <1>4. /\ run'[r].step = "none" /\ run'[r].target = run[r].target
        /\ run'[r].previous = run[r].previous /\ run'[r].moved = run[r].moved
    BY <1>2, <1>3 DEF Record
  <1>5. /\ TypeOK' /\ OneRunAndItIsTold' /\ ClaimIsOne' /\ CommitsKnown'
        /\ job'.run = r
        /\ \A s \in Run \ {r} : run'[s].step = "none"
        /\ \A s \in Run \ {r} : Progress(s)'
    BY <1>2, <1>4, RunStepKeeps
  <1>6. Progress(r)'
    BY <1>4 DEF Progress, UndoSteps
  <1>7. Quiet'
    BY <1>4, <1>5 DEF Quiet
  <1>8. FailuresArePutBack'
    BY <1>2, <1>4, <1>5 DEF FailuresArePutBack
  <1> QED BY <1>5, <1>6, <1>7, <1>8 DEF IInv

\* A step that goes on, or begins the rollback.
LEMMA MoveKeeps ==
    ASSUME IInv, NEW r \in Run, InFlight(r), armed = "no",
           run' \in [Run -> Record], job' \in Job, disk' \in [Parts -> Commit \cup {Mixed}],
           failed' \in BOOLEAN,
           UNCHANGED <<starting, cancelled, applying, armed>>,
           \A s \in Run \ {r} : run'[s] = run[s],
           run'[r].target = run[r].target, run'[r].previous = run[r].previous,
           job'.run = job.run, job'.finished = job.finished,
           Progress(r)'
    PROVE  IInv'
  <1>1. ~job.finished
    BY DEF IInv, OneRunAndItIsTold
  <1>2. /\ TypeOK' /\ OneRunAndItIsTold' /\ ClaimIsOne' /\ CommitsKnown'
        /\ \A s \in Run \ {r} : Progress(s)'
    BY <1>1, RunStepKeeps
  <1>3. Quiet' /\ RestartsOntoOneCommit' /\ FailuresArePutBack'
    BY <1>1 DEF Quiet, RestartsOntoOneCommit, FailuresArePutBack
  <1> QED BY <1>2, <1>3 DEF IInv

\* Facts about a run whose child has ended.
LEMMA ChildFacts ==
    ASSUME IInv, NEW r \in Run, run[r].step \in (Steps \cup UndoSteps) \ {"restart"},
           Succeeds(r) \/ Fails(r)
    PROVE  /\ TypeOK /\ InFlight(r) /\ Progress(r) /\ run[r] \in Record
           /\ run[r].target \in Commit /\ run[r].previous \in Commit
           /\ run[r].target # run[r].previous /\ run[r].target # Mixed
           /\ disk' \in [Parts -> Commit \cup {Mixed}] /\ failed' \in BOOLEAN
           /\ run[r].step = "fetch" => disk' = disk
           /\ run[r].step # "fetch" =>
                /\ Part[run[r].step] \in Parts
                /\ Succeeds(r) => disk'[Part[run[r].step]] = Goal(r)
                /\ Fails(r) => disk'[Part[run[r].step]] \in {disk[Part[run[r].step]], Mixed}
                /\ \A p \in Parts \ {Part[run[r].step]} : disk'[p] = disk[p]
  <1>1. TypeOK /\ Progress(r) /\ run[r] \in Record
    BY DEF IInv, TypeOK, Record
  <1>2. InFlight(r)
    BY DEF InFlight, Steps, UndoSteps
  <1>3. /\ run[r].target \in Commit /\ run[r].previous \in Commit
        /\ run[r].target # run[r].previous /\ run[r].target # Mixed
    BY <1>2, ConstantsAssumption DEF IInv, CommitsKnown
  <1> QED BY <1>1, <1>2, <1>3, ChildEffect

LEMMA StepEndsKeeps == ASSUME IInv, NEW r \in Run, StepEnds(r) PROVE IInv'
  <1>1. /\ run[r].step \in Steps \ {"restart"} /\ armed = "no"
        /\ UNCHANGED <<starting, cancelled, applying, armed>>
    BY DEF StepEnds
  <1>2. run[r].step \in {"fetch", "checkout", "build", "deps"}
    BY <1>1 DEF Steps
  <1>3. Succeeds(r) \/ Fails(r)
    BY DEF StepEnds
  <1>4. /\ TypeOK /\ InFlight(r) /\ Progress(r) /\ run[r] \in Record
        /\ run[r].target \in Commit /\ run[r].previous \in Commit
        /\ run[r].target # run[r].previous /\ run[r].target # Mixed
        /\ disk' \in [Parts -> Commit \cup {Mixed}] /\ failed' \in BOOLEAN
        /\ run[r].step = "fetch" => disk' = disk
        /\ run[r].step # "fetch" =>
             /\ Part[run[r].step] \in Parts
             /\ Succeeds(r) => disk'[Part[run[r].step]] = Goal(r)
             /\ Fails(r) => disk'[Part[run[r].step]] \in {disk[Part[run[r].step]], Mixed}
             /\ \A p \in Parts \ {Part[run[r].step]} : disk'[p] = disk[p]
    BY <1>1, <1>3, ChildFacts
  <1>5. Goal(r) = run[r].target
    BY <1>2 DEF Goal, UndoSteps
  \* What is on disk afterwards, step by step.
  <1>6. /\ run[r].step = "fetch" => disk' = disk
        /\ run[r].step = "checkout" =>
             /\ Succeeds(r) => disk'["tree"] = run[r].target
             /\ Fails(r) => disk'["tree"] \in {disk["tree"], Mixed}
        /\ run[r].step = "build" =>
             disk'["tree"] = disk["tree"] /\ (Succeeds(r) => disk'["binary"] = run[r].target)
        /\ run[r].step = "deps" =>
             /\ disk'["tree"] = disk["tree"] /\ disk'["binary"] = disk["binary"]
             /\ Succeeds(r) => disk'["venv"] = run[r].target
    <2>1. /\ Part["checkout"] = "tree" /\ Part["build"] = "binary" /\ Part["deps"] = "venv"
          /\ Parts = {"tree", "venv", "binary"}
      BY DEF Part, Parts
    <2> QED BY <1>2, <1>4, <1>5, <2>1
  <1>7. CASE Succeeds(r) /\ GoOn(r)
    <2>1. /\ run' \in [Run -> Record] /\ job' \in Job
          /\ run'[r].step = After[run[r].step]
          /\ run'[r].target = run[r].target /\ run'[r].previous = run[r].previous
          /\ run'[r].moved = (run[r].moved \/ run[r].step = "checkout")
          /\ \A s \in Run \ {r} : run'[s] = run[s]
          /\ job'.run = job.run /\ job'.finished = job.finished
      BY <1>1, <1>4, <1>7, GoOnEffect
    <2>2. /\ After["fetch"] = "checkout" /\ After["checkout"] = "build"
          /\ After["build"] = "deps" /\ After["deps"] = "restart"
      BY DEF After
    <2>3. Progress(r)'
      BY <1>2, <1>4, <1>6, <1>7, <2>1, <2>2 DEF Progress, UndoSteps
    <2> QED BY <1>1, <1>4, <2>1, <2>3, MoveKeeps
  <1>8. ASSUME NEW moved \in BOOLEAN, GiveUp(r, moved),
               \/ Succeeds(r) /\ moved = (run[r].moved \/ run[r].step = "checkout")
               \/ Fails(r) /\ moved = run[r].moved
        PROVE  IInv'
    <2>1. CASE moved
      <3>1. /\ run' \in [Run -> Record] /\ job' \in Job
            /\ run'[r].step = "undoTree" /\ run'[r].moved
            /\ run'[r].target = run[r].target /\ run'[r].previous = run[r].previous
            /\ \A s \in Run \ {r} : run'[s] = run[s]
            /\ job'.run = job.run /\ job'.finished = job.finished
        BY <1>4, <1>8, <2>1, RollBackEffect
      <3>2. Progress(r)'
        BY <3>1 DEF Progress, UndoSteps
      <3> QED BY <1>1, <1>4, <3>1, <3>2, MoveKeeps
    <2>2. CASE ~moved
      <3>1. Finish(r, FALSE, FALSE)
        BY <1>8, <2>2 DEF GiveUp
      <3>2. ~run[r].moved /\ disk'["tree"] # run[r].target
        BY <1>2, <1>4, <1>6, <1>8, <2>2 DEF Progress
      <3>3. RestartsOntoOneCommit' /\ armed' \in {"no", "updater"}
        BY <1>1 DEF RestartsOntoOneCommit
      <3> QED BY <1>1, <1>4, <3>1, <3>2, <3>3, FinishKeeps
    <2> QED BY <2>1, <2>2
  <1>9. CASE Succeeds(r) /\ GiveUp(r, run[r].moved \/ run[r].step = "checkout")
    <2> DEFINE moved == run[r].moved \/ run[r].step = "checkout"
    <2>1. moved \in BOOLEAN OBVIOUS
    <2> QED BY <1>8, <1>9, <2>1
  <1>10. CASE Fails(r) /\ GiveUp(r, run[r].moved)
    <2>1. run[r].moved \in BOOLEAN BY <1>4 DEF Record
    <2> QED BY <1>8, <1>10, <2>1
  <1> QED BY <1>7, <1>9, <1>10 DEF StepEnds

LEMMA UndoTreeKeeps == ASSUME IInv, NEW r \in Run, UndoTree(r) PROVE IInv'
  <1>1. /\ run[r].step = "undoTree" /\ armed = "no" /\ run[r].step \in UndoSteps
        /\ UNCHANGED <<starting, cancelled, applying, armed>>
        /\ Succeeds(r) \/ Fails(r)
    BY DEF UndoTree, UndoSteps
  <1>2. /\ TypeOK /\ InFlight(r) /\ Progress(r) /\ run[r] \in Record
        /\ disk' \in [Parts -> Commit \cup {Mixed}] /\ failed' \in BOOLEAN
        /\ Succeeds(r) => disk'[Part["undoTree"]] = Goal(r)
    BY <1>1, ChildFacts
  <1>3. RestartsOntoOneCommit' /\ armed' \in {"no", "updater"}
    BY <1>1 DEF RestartsOntoOneCommit
  <1>4. CASE Succeeds(r) /\ run' = [run EXCEPT ![r].step = "undoDeps"] /\ UNCHANGED job
    <2>1. /\ run' \in [Run -> Record] /\ job' \in Job
          /\ run'[r] = [run[r] EXCEPT !.step = "undoDeps"]
          /\ \A s \in Run \ {r} : run'[s] = run[s]
      BY <1>2, <1>4, UndoDepsEffect
    <2>2. /\ run'[r].step = "undoDeps" /\ run'[r].target = run[r].target
          /\ run'[r].previous = run[r].previous /\ run'[r].moved = run[r].moved
      BY <1>2, <2>1 DEF Record
    <2>3. disk'["tree"] = run[r].previous
      BY <1>1, <1>2, <1>4 DEF Part, Goal
    <2>4. Progress(r)'
      BY <1>1, <1>2, <2>2, <2>3 DEF Progress, UndoSteps
    <2> QED BY <1>1, <1>2, <1>4, <2>1, <2>2, <2>4, MoveKeeps
  <1>5. CASE Fails(r) /\ Finish(r, FALSE, TRUE)
    BY <1>1, <1>2, <1>3, <1>5, FinishKeeps
  <1> QED BY <1>4, <1>5 DEF UndoTree

LEMMA UndoDepsKeeps == ASSUME IInv, NEW r \in Run, UndoDeps(r) PROVE IInv'
  <1>1. /\ run[r].step = "undoDeps" /\ armed = "no" /\ run[r].step \in UndoSteps
        /\ UNCHANGED <<starting, cancelled, applying, armed>>
        /\ Succeeds(r) \/ Fails(r)
    BY DEF UndoDeps, UndoSteps
  <1>2. Part["undoDeps"] = "venv" /\ "tree" \in Parts \ {"venv"}
    BY DEF Part, Parts
  <1>3. /\ InFlight(r) /\ Progress(r) /\ run[r].target # run[r].previous
        /\ disk' \in [Parts -> Commit \cup {Mixed}] /\ failed' \in BOOLEAN
        /\ Succeeds(r) => disk'["venv"] = Goal(r)
        /\ disk'["tree"] = disk["tree"]
    BY <1>1, <1>2, ChildFacts
  <1>4. RestartsOntoOneCommit' /\ armed' \in {"no", "updater"}
    BY <1>1 DEF RestartsOntoOneCommit
  <1>5. CASE Succeeds(r) /\ Finish(r, FALSE, FALSE)
    <2>1. disk'["tree"] = run[r].previous /\ disk'["venv"] = run[r].previous
      BY <1>1, <1>3, <1>5 DEF Goal, Progress
    <2> QED BY <1>1, <1>3, <1>4, <1>5, <2>1, FinishKeeps
  <1>6. CASE Fails(r) /\ Finish(r, FALSE, TRUE)
    BY <1>1, <1>3, <1>4, <1>6, FinishKeeps
  <1> QED BY <1>5, <1>6 DEF UndoDeps

LEMMA RestartKeeps == ASSUME IInv, NEW r \in Run, Restart(r) PROVE IInv'
  <1>1. /\ run[r].step = "restart" /\ armed' = "updater" /\ Finish(r, TRUE, FALSE)
        /\ UNCHANGED <<disk, starting, cancelled, applying, failed>>
    BY DEF Restart
  <1>2. InFlight(r) /\ run[r].target \in Commit /\ Progress(r)
    BY <1>1 DEF InFlight, IInv, CommitsKnown
  <1>3. disk \in [Parts -> Commit \cup {Mixed}] /\ failed \in BOOLEAN
    BY DEF IInv, TypeOK
  <1>4. disk = [p \in Parts |-> run[r].target]
    BY <1>1, <1>2, <1>3 DEF Progress, Parts
  <1>5. RestartsOntoOneCommit'
    BY <1>1, <1>2, <1>4 DEF RestartsOntoOneCommit
  <1> QED BY <1>1, <1>2, <1>3, <1>5, FinishKeeps

(***************************************************************************)
(* The theorems                                                            *)
(***************************************************************************)

LEMMA StepIInv == IInv /\ [Next]_vars => IInv'
  <1> SUFFICES ASSUME IInv, [Next]_vars PROVE IInv'
    OBVIOUS
  <1>1. CASE ApplyRefused \/ Cancel \/ UserRestart
             \/ \E c \in Client : Apply(c) \/ ApplyEnds(c) \/ ApplyCut(c)
    BY <1>1, Requests
  <1>2. CASE Exit
    <2>1. Reborn /\ disk' \in [Parts -> Commit \cup {Mixed}]
      BY <1>2 DEF Exit, IInv, TypeOK
    <2> QED BY <2>1, Reboots
  <1>3. CASE Crash
    <2>1. Reborn BY <1>3 DEF Crash
    <2> QED BY <1>3, <2>1, CrashType, Reboots
  <1>4. ASSUME NEW c \in Client, NEW r \in Run, NEW target \in Commit, Launch(c, r, target)
        PROVE  IInv'
    BY <1>4, Launches
  <1>5. ASSUME NEW r \in Run, RunStep(r) PROVE IInv'
    BY <1>5, StepEndsKeeps, UndoTreeKeeps, UndoDepsKeeps, RestartKeeps DEF RunStep
  <1>6. CASE UNCHANGED vars
    <2>1. \A r \in Run : Progress(r)' <=> Progress(r)
      BY <1>6 DEF vars, Progress
    <2>2. TypeOK' /\ OneRunAndItIsTold' /\ ClaimIsOne' /\ CommitsKnown'
      BY <1>6 DEF vars, IInv, TypeOK, OneRunAndItIsTold, ClaimIsOne, CommitsKnown, InFlight
    <2>3. Quiet' /\ RestartsOntoOneCommit' /\ FailuresArePutBack'
      BY <1>6 DEF vars, IInv, Quiet, RestartsOntoOneCommit, FailuresArePutBack
    <2> QED BY <2>1, <2>2, <2>3 DEF IInv
  <1> QED BY <1>1, <1>2, <1>3, <1>4, <1>5, <1>6 DEF Next

\* The inductive invariant holds in every reachable state.
THEOREM Inductive == Spec => []IInv
  BY InitIInv, StepIInv, PTL DEF Spec

\* Every state of every behaviour is well typed.
THEOREM TypeCorrect == Spec => []TypeOK
  <1>1. IInv => TypeOK BY DEF IInv
  <1> QED BY <1>1, Inductive, PTL

\* However many clients apply at once, at most one run rewrites the
\* installation, and the job document tells of it until its rollback is over.
THEOREM OneRunOnly == Spec => []OneRunAndItIsTold
  <1>1. IInv => OneRunAndItIsTold BY DEF IInv
  <1> QED BY <1>1, Inductive, PTL

\* The updater restarts the backend only onto an installation of one commit.
THEOREM OneCommit == Spec => []RestartsOntoOneCommit
  <1>1. IInv => RestartsOntoOneCommit BY DEF IInv
  <1> QED BY <1>1, Inductive, PTL

\* A user's restart never interrupts a run that writes to the installation.
THEOREM RunsAreSpared == Spec => []RestartsSpareRuns
  <1>1. IInv => RestartsSpareRuns BY DEF IInv, Quiet, RestartsSpareRuns
  <1> QED BY <1>1, Inductive, PTL

\* A failed run whose rollback is not reported as failed leaves the tree, and
\* the virtualenv if the tree had moved, where they were.
THEOREM PutBack == Spec => []FailuresArePutBack
  <1>1. IInv => FailuresArePutBack BY DEF IInv
  <1> QED BY <1>1, Inductive, PTL

\* Neither the updater's restart nor a user's puts a mixed installation into
\* service (__run_restart, __veto_restart).
THEOREM SafeRestarts == Spec => []RestartsAreSafe
  BY OneCommit, RunsAreSpared, PTL DEF RestartsAreSafe
=============================================================================
