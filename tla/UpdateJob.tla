------------------------------ MODULE UpdateJob ------------------------------
(***************************************************************************)
(* An in-place update: UpdateService's run                                 *)
(* (backend/src/update_service/update_service.py) and the restarts it      *)
(* vetoes and forces (backend/src/config_service/config_service.py).       *)
(*                                                                         *)
(* A run is a task; its step is the child process it waits for:            *)
(*   fetch, checkout, build, deps   the update, in this order              *)
(*   restart                        the frontend's grace before the exit   *)
(*   undoTree, undoDeps             the rollback                           *)
(* or "none" when it is not under way.  The code keeps one job document    *)
(* for all runs.                                                           *)
(*                                                                         *)
(* What is on disk is reduced to the commit each part belongs to, or Mixed *)
(* when the process writing it died halfway.  A request that is refused    *)
(* (wrong channel, dirty tree, moved target, missing tools, ...) is one    *)
(* choice.  Left out: the state document, the log, and the deadline past   *)
(* which the restart veto stands down, which exceeds the sum of the        *)
(* timeouts of a run.                                                      *)
(***************************************************************************)
EXTENDS Naturals, FiniteSets

CONSTANTS
    Client,  \* slots for UPDATE_APPLY handlers
    Run,     \* slots for run tasks
    Commit,  \* the commits a channel may point at
    Mixed,   \* half of one commit, half of another
    None     \* no run, no commit

ASSUME ConstantsAssumption == None \notin Run \cup Commit /\ Mixed \notin Commit

VARIABLES
    disk,       \* the working tree, the virtualenv and the frontend binary
    run,        \* the run tasks
    job,        \* UpdateService.__job
    starting,   \* UpdateService.__starting
    cancelled,  \* UpdateService.__cancelled
    applying,   \* clients whose apply handler awaits __refresh
    armed,      \* who set __restart_requested: "no", "user" or "updater"
    failed      \* a child process has failed by itself since the run began

vars == <<disk, run, job, starting, cancelled, applying, armed, failed>>

Steps == {"fetch", "checkout", "build", "deps", "restart"}
UndoSteps == {"undoTree", "undoDeps"}
Parts == {"tree", "venv", "binary"}

NoRun == [step |-> "none", target |-> None, previous |-> None, moved |-> FALSE]

\* A job document: the run it tells of (None: a refusal), whether it is
\* finished and how, and whether its message says that the rollback failed.
NoJob == [run |-> None, finished |-> TRUE, ok |-> FALSE, cancellable |-> FALSE, stuck |-> FALSE]

TypeOK ==
    /\ disk \in [Parts -> Commit \cup {Mixed}]
    /\ run \in [Run -> [step : {"none"} \cup Steps \cup UndoSteps, target : Commit \cup {None},
                        previous : Commit \cup {None}, moved : BOOLEAN]]
    /\ job \in [run : Run \cup {None}, finished : BOOLEAN, ok : BOOLEAN,
                cancellable : BOOLEAN, stuck : BOOLEAN]
    /\ starting \in BOOLEAN /\ cancelled \in BOOLEAN /\ failed \in BOOLEAN
    /\ applying \subseteq Client
    /\ armed \in {"no", "user", "updater"}

InFlight(r) == run[r].step # "none"

(***************************************************************************)
(* UPDATE_APPLY and UPDATE_CANCEL                                          *)
(***************************************************************************)

\* Mutant of RunInFlight: a run counts once it has a job.
JobInFlight == ~job.finished

\* __run_in_flight: claimed by a handler, or told of by an unfinished job.
RunInFlight == starting \/ ~job.finished

\* __refuse: a finished, failed job of its own, unless a run is being told of.
Refusal == job' = IF job.finished THEN NoJob ELSE job

ApplyRefused ==
    /\ RunInFlight
    /\ Refusal
    /\ UNCHANGED <<disk, run, starting, cancelled, applying, armed, failed>>

\* handle_apply claims the slot and awaits __refresh.
Apply(c) ==
    /\ c \notin applying
    /\ ~RunInFlight
    /\ starting' = TRUE
    /\ applying' = applying \cup {c}
    /\ UNCHANGED <<disk, run, job, cancelled, armed, failed>>

\* Mutant of ApplyEnds: the claim outlives a refusal.
ApplyEndsClaimed(c) ==
    /\ c \in applying
    /\ applying' = applying \ {c}
    /\ Refusal
    /\ UNCHANGED <<disk, run, starting, cancelled, armed, failed>>

\* ... which may end in a refusal,
ApplyEnds(c) ==
    /\ c \in applying
    /\ applying' = applying \ {c}
    /\ starting' = FALSE
    /\ Refusal
    /\ UNCHANGED <<disk, run, cancelled, armed, failed>>

\* or in a raise: the client left and the handler is cancelled.
ApplyCut(c) ==
    /\ c \in applying
    /\ applying' = applying \ {c}
    /\ starting' = FALSE
    /\ UNCHANGED <<disk, run, job, cancelled, armed, failed>>

\* ... or in a run towards another commit, from a clean tree: the job takes
\* over the claim before the handler lets go of it.
Launch(c, r, target) ==
    /\ c \in applying /\ ~InFlight(r)
    /\ disk["tree"] \in Commit \ {target}
    /\ applying' = applying \ {c}
    /\ starting' = FALSE
    /\ cancelled' = FALSE /\ failed' = FALSE
    /\ run' = [run EXCEPT ![r] = [step |-> "fetch", target |-> target,
                                  previous |-> disk["tree"], moved |-> FALSE]]
    /\ job' = [NoJob EXCEPT !.run = r, !.finished = FALSE, !.cancellable = TRUE]
    /\ UNCHANGED <<disk, armed>>

Cancel ==
    /\ ~job.finished /\ job.cancellable
    /\ cancelled' = TRUE
    /\ UNCHANGED <<disk, run, job, starting, applying, armed, failed>>

(***************************************************************************)
(* The run                                                                 *)
(***************************************************************************)

Part == [checkout |-> "tree", undoTree |-> "tree", build |-> "binary",
         deps |-> "venv", undoDeps |-> "venv"]

Goal(r) == IF run[r].step \in UndoSteps THEN run[r].previous ELSE run[r].target

\* Mutant of Succeeds: a build that left a stub behind counts as one.
SucceedsUnverified(r) ==
    /\ \/ disk' = IF run[r].step = "fetch" THEN disk ELSE [disk EXCEPT ![Part[run[r].step]] = Goal(r)]
       \/ run[r].step = "build" /\ disk' = [disk EXCEPT !["binary"] = Mixed]
    /\ UNCHANGED failed

\* The child of run r succeeded: its part of the disk is what it should be.
\* A child that a cancellation signalled may still have been faster.
Succeeds(r) ==
    /\ disk' = IF run[r].step = "fetch" THEN disk ELSE [disk EXCEPT ![Part[run[r].step]] = Goal(r)]
    /\ UNCHANGED failed

\* It failed, timed out or was killed: its part is as it was, or half written.
Fails(r) ==
    /\ \/ UNCHANGED disk
       \/ run[r].step # "fetch" /\ disk' = [disk EXCEPT ![Part[run[r].step]] = Mixed]
    /\ failed' = (failed \/ ~cancelled)

After == [fetch |-> "checkout", checkout |-> "build", build |-> "deps", deps |-> "restart"]
CancellableSteps == {"fetch", "deps", "build"}

\* Mutant of GoOn: the checkout is not remembered.
GoOnUnmoved(r) ==
    /\ run' = [run EXCEPT ![r].step = After[@]]
    /\ job' = [job EXCEPT !.cancellable = After[run[r].step] \in CancellableSteps]

\* On to the next step.
GoOn(r) ==
    LET next == After[run[r].step] IN
    /\ run' = [run EXCEPT ![r].step = next, ![r].moved = @ \/ run[r].step = "checkout"]
    /\ job' = [job EXCEPT !.cancellable = next \in CancellableSteps]

\* __finish, and the task is over.
Finish(r, ok, stuck) ==
    /\ run' = [run EXCEPT ![r].step = "none"]
    /\ job' = [job EXCEPT !.finished = TRUE, !.cancellable = FALSE, !.ok = ok, !.stuck = stuck]

\* __fail: a tree that has been moved is rolled back before the job is closed.
GiveUp(r, moved) ==
    IF moved
    THEN /\ run' = [run EXCEPT ![r].step = "undoTree", ![r].moved = TRUE]
         /\ job' = [job EXCEPT !.cancellable = FALSE]
    ELSE Finish(r, FALSE, FALSE)

\* A drain of a fraction of a second precedes an exit: no child that was
\* started after the exit was armed ends before it.
StepEnds(r) ==
    /\ run[r].step \in Steps \ {"restart"} /\ armed = "no"
    /\ \/ Succeeds(r) /\ ~cancelled /\ GoOn(r)
       \/ Succeeds(r) /\ cancelled /\ GiveUp(r, run[r].moved \/ run[r].step = "checkout")
       \/ Fails(r) /\ GiveUp(r, run[r].moved)
    /\ UNCHANGED <<starting, cancelled, applying, armed>>

\* __rollback: the tree, then the virtualenv.  A run that was cancelled still
\* is, so that the children of its rollback are signalled as well.
UndoTree(r) ==
    /\ run[r].step = "undoTree" /\ armed = "no"
    /\ \/ Succeeds(r) /\ run' = [run EXCEPT ![r].step = "undoDeps"] /\ UNCHANGED job
       \/ Fails(r) /\ Finish(r, FALSE, TRUE)
    /\ UNCHANGED <<starting, cancelled, applying, armed>>

UndoDeps(r) ==
    /\ run[r].step = "undoDeps" /\ armed = "no"
    /\ \/ Succeeds(r) /\ Finish(r, FALSE, FALSE)
       \/ Fails(r) /\ Finish(r, FALSE, TRUE)
    /\ UNCHANGED <<starting, cancelled, applying, armed>>

\* __run_restart: the exit is armed past every veto, and the run is done.
Restart(r) ==
    /\ run[r].step = "restart" /\ armed = "no"
    /\ armed' = "updater"
    /\ Finish(r, TRUE, FALSE)
    /\ UNCHANGED <<disk, starting, cancelled, applying, failed>>

(***************************************************************************)
(* Restarts                                                                *)
(***************************************************************************)

\* The update's restart veto.
Veto == RunInFlight

\* CONFIG_RESTART.
UserRestart ==
    /\ armed = "no" /\ ~Veto
    /\ armed' = "user"
    /\ UNCHANGED <<disk, run, job, starting, cancelled, applying, failed>>

\* The process is gone and comes back: what it was about is forgotten.
Reborn ==
    /\ run' = [r \in Run |-> NoRun]
    /\ job' = NoJob
    /\ starting' = FALSE /\ cancelled' = FALSE /\ failed' = FALSE
    /\ applying' = {}
    /\ armed' = "no"

\* ConfigService.run.
Exit == armed # "no" /\ Reborn /\ UNCHANGED disk

\* The power fails, or the process dies, with its children.
Crash ==
    /\ Reborn
    /\ \/ UNCHANGED disk
       \/ \E r \in Run :
            run[r].step \in DOMAIN Part /\ disk' = [disk EXCEPT ![Part[run[r].step]] = Mixed]

(***************************************************************************)
(* The specification                                                       *)
(***************************************************************************)

Init ==
    /\ disk \in {[p \in Parts |-> c] : c \in Commit}
    /\ run = [r \in Run |-> NoRun]
    /\ job = NoJob
    /\ starting = FALSE /\ cancelled = FALSE /\ failed = FALSE
    /\ applying = {}
    /\ armed = "no"

RunStep(r) == StepEnds(r) \/ UndoTree(r) \/ UndoDeps(r) \/ Restart(r)

Next ==
    \/ ApplyRefused \/ Cancel \/ UserRestart \/ Exit \/ Crash
    \/ \E c \in Client : Apply(c) \/ ApplyEnds(c) \/ ApplyCut(c)
    \/ \E c \in Client, r \in Run, target \in Commit : Launch(c, r, target)
    \/ \E r \in Run : RunStep(r)

Spec == Init /\ [][Next]_vars

\* Every child ends (each has a timeout), and an armed exit happens.
UpdateFairness ==
    /\ \A r \in Run : WF_vars(RunStep(r))
    /\ WF_vars(Exit)
    /\ \A c \in Client : WF_vars(ApplyEnds(c) \/ \E r \in Run, target \in Commit : Launch(c, r, target))

FairSpec == Spec /\ UpdateFairness

(***************************************************************************)
(* What an update promises                                                 *)
(***************************************************************************)

\* At most one run rewrites the installation, and the job document tells of it
\* until its rollback is over: the flag that every gate reads (another apply,
\* the restart veto, the dashboard's banner) is right.
OneRunAndItIsTold ==
    \A r \in Run : InFlight(r) => job.run = r /\ ~job.finished /\ \A s \in Run \ {r} : ~InFlight(s)

\* The updater restarts the backend only onto an installation of one commit:
\* tree, virtualenv and binary.
RestartsOntoOneCommit ==
    armed = "updater" => \E c \in Commit : disk = [p \in Parts |-> c]

\* A user's restart never interrupts a run that writes to the installation.
RestartsSpareRuns == armed = "user" => \A r \in Run : run[r].step \in {"none", "fetch"}

\* Neither restart puts a mixed installation into service: the updater's comes
\* after the whole of a run, the user's before any of it.
RestartsAreSafe == RestartsOntoOneCommit /\ RestartsSpareRuns

\* A failed run that does not report its rollback as failed leaves no tree of
\* its target behind, and has put tree and virtualenv back if it moved the tree.
FailuresArePutBack ==
    job.run # None /\ job.finished /\ ~job.ok /\ ~job.stuck =>
        /\ disk["tree"] # run[job.run].target
        /\ run[job.run].moved => /\ disk["tree"] = run[job.run].previous
                                /\ disk["venv"] = run[job.run].previous

\* A job that is under way is closed, or its process has gone: nothing keeps
\* the gates closed for good.
GatesOpenAgain == RunInFlight ~> ~RunInFlight

(***************************************************************************)
(* What the source says of itself and the code does not do                 *)
(***************************************************************************)

\* handle_cancel: "rolled back like any other failure, so 'cancel' means 'put
\* it back', not 'abandon it wherever it got to'", when nothing else fails.
CancelPutsItBack ==
    job.run # None /\ job.finished /\ cancelled /\ ~failed =>
        disk["tree"] = run[job.run].previous
=============================================================================
