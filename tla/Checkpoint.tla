----------------------------- MODULE Checkpoint -----------------------------
(***************************************************************************)
(* Saving, rotating and resuming checkpoints of the RL trainer: the driver *)
(* (verl/trainer/ppo/ray_trainer.py: _save_checkpoint, _load_checkpoint    *)
(* and the step loop of fit), the FSDP checkpoint manager of every rank of *)
(* the actor and of the critic (verl/utils/checkpoint), and the files of   *)
(* the Alpha-Stabler (verl/workers/fsdp_workers.py).  A process may die at *)
(* any point of this, and only the disk survives it.                       *)
(*                                                                         *)
(* A file holds the version of the training state that was written to it:  *)
(* the step, and the run (process incarnation) that trained this step.     *)
(***************************************************************************)
EXTENDS Integers, Sequences, FiniteSets, Functions

CONSTANTS
  Rank, Root,            \* the ranks of a worker group, and rank 0
  use_critic,            \* is there a critic worker group?
  alpha_stabler,         \* does the actor run the Alpha-Stabler?
  max_ckpt_to_keep,      \* 0 stands for null: keep all
  save_freq,
  esi,                   \* can the instance be close to expiration?
  total_training_steps,
  Missing,               \* content of a file that does not exist
  Torn,                  \* content of a file whose writer died, or is at it
  Mixed,                 \* a state put together from several saves
  ResumeModes,           \* the values of trainer.resume_mode of the runs
  MaxStep,               \* bound: the last step that is modelled
  MaxRuns                \* bound: processes that are started

ASSUME RankAssumption == Root \in Rank /\ IsFiniteSet(Rank)
ASSUME ConfigAssumption ==
  /\ use_critic \in BOOLEAN /\ alpha_stabler \in BOOLEAN /\ esi \in BOOLEAN
  /\ max_ckpt_to_keep \in Nat
  /\ save_freq \in Nat \ {0}
  /\ total_training_steps \in Nat \ {0}
  /\ ResumeModes \subseteq {"auto", "disable", "resume_path"}
  /\ Missing # Torn /\ Missing # Mixed /\ Torn # Mixed
  /\ {Missing, Torn, Mixed} \cap ([step : Nat, run : Nat] \cup Nat) = {}
  /\ MaxStep \in Nat /\ MaxRuns \in Nat \ {0}

VARIABLES
  job,          \* "up", "down" after a crash or a failed start, or "done"
  at,           \* where the driver is: training, or in a part of _save_checkpoint
  global_steps, \* the step that is trained or saved
  run,          \* number of the process (a ghost: the code does not count them)
  live,         \* live[p]: version of the state held by worker p
  position,     \* batches the dataloader has handed out
  written,      \* written[r]: files rank r has written in the save under way
  saved_paths,  \* previous_saved_paths of rank 0, per role
  disk,         \* disk[s][f]: content of file f of the folder of step s
  tracker       \* content of latest_checkpointed_iteration.txt

driver == <<job, at, global_steps, run>>
workers == <<live, position>>
vars == <<driver, workers, written, saved_paths, disk, tracker>>

-----------------------------------------------------------------------------
Step == 1..MaxStep

Roles == IF use_critic THEN {"actor", "critic"} ELSE {"actor"}

Worker == [role : Roles, rank : Rank]

\* The files of one rank, in the order they are written ("optim" stands for the
\* optimizer's and the extra state's, which nothing separates).
FilesOf(role) == IF alpha_stabler /\ role = "actor"
                 THEN <<"model", "optim", "alpha">> ELSE <<"model", "optim">>

File(role, r, name) == [role |-> role, rank |-> r, name |-> name]
DataFile == File("driver", Root, "data")
WorkerFiles(role) == {File(role, r, n) : r \in Rank, n \in Range(FilesOf(role))}
Files == {DataFile} \cup (UNION {WorkerFiles(role) : role \in Roles})

Version == [step : Nat, run : Nat]
Fresh == [step |-> 0, run |-> 0]

Whole(s, F) == \A f \in F : disk[s][f] \notin {Missing, Torn}

\* The driver's position: the name of the part, and the role it concerns.
At(part, role) == <<part, role>>
Training == At("train", "")

-----------------------------------------------------------------------------
(* The step loop of fit.                                                   *)

IsLastStep == global_steps >= total_training_steps

\* The end of an iteration: the next step, or the end of the run.
EndOfStep ==
  /\ global_steps' = global_steps + 1
  /\ job' = IF IsLastStep THEN "done" ELSE job

\* One step of training: a batch is taken and every worker is updated.  Then a
\* checkpoint is due at the last step, every save_freq steps, or when the
\* instance is about to expire.
TrainStep ==
  /\ job = "up" /\ at = Training /\ global_steps \in Step
  /\ position' = position + 1
  /\ live' = [p \in Worker |-> [step |-> live[p].step + 1, run |-> run]]
  /\ \E expiring \in (IF esi THEN BOOLEAN ELSE {FALSE}) :
       IF IsLastStep \/ global_steps % save_freq = 0 \/ expiring
       THEN at' = At("prune", "actor") /\ UNCHANGED <<job, global_steps>>
       ELSE EndOfStep /\ UNCHANGED at
  /\ UNCHANGED <<run, written, saved_paths, disk, tracker>>

-----------------------------------------------------------------------------
(* _save_checkpoint.                                                       *)

\* How many of its saves rank 0 removes before it writes a new one, so that the
\* new one is the last of max_ckpt_to_keep.
KeepStart(paths) ==
  IF max_ckpt_to_keep > 0 /\ Len(paths) >= max_ckpt_to_keep
  THEN Len(paths) - max_ckpt_to_keep + 1 ELSE 0

\* The files the rotation for a role removes from the folder of step s.
Removed(role, s, f) ==
  /\ f \in WorkerFiles(role)
  /\ \E i \in 1..KeepStart(saved_paths[role]) : saved_paths[role][i] = s

\* Rank 0 removes the oldest saves of this role; then all ranks meet.
Prune ==
  /\ job = "up" /\ at[1] = "prune"
  /\ disk' = [s \in Step |-> [f \in Files |->
                IF Removed(at[2], s, f) THEN Missing ELSE disk[s][f]]]
  /\ saved_paths' = [saved_paths EXCEPT ![at[2]] = SubSeq(@, KeepStart(@) + 1, Len(@))]
  /\ at' = At("write", at[2])
  /\ written' = [r \in Rank |-> 0]
  /\ UNCHANGED <<job, global_steps, run, workers, tracker>>

\* The file that rank r writes next.
NextFile(r) == File(at[2], r, FilesOf(at[2])[written[r] + 1])

\* The Alpha-Stabler's file comes after a barrier.
CanWrite(r) ==
  /\ job = "up" /\ at[1] = "write" /\ written[r] < Len(FilesOf(at[2]))
  /\ written[r] = 2 => \A q \in Rank : written[q] >= 2

WriteFile(r) ==
  /\ CanWrite(r)
  /\ disk' = [disk EXCEPT ![global_steps][NextFile(r)] = live[[role |-> at[2], rank |-> r]]]
  /\ written' = [written EXCEPT ![r] = @ + 1]
  /\ UNCHANGED <<driver, workers, saved_paths, tracker>>

\* When the workers' call returns.  (Faulty variant: when rank 0 has written.)
RootWritten == written[Root] = Len(FilesOf(at[2]))
AllWritten == \A r \in Rank : written[r] = Len(FilesOf(at[2]))

\* The last barrier: the save is remembered and the driver goes on.
WorkersSaved ==
  /\ job = "up" /\ at[1] = "write" /\ AllWritten
  /\ saved_paths' = [saved_paths EXCEPT ![at[2]] = Append(@, global_steps)]
  /\ at' = IF use_critic /\ at[2] = "actor" THEN At("prune", "critic") ELSE At("data", "")
  /\ UNCHANGED <<job, global_steps, run, workers, written, disk, tracker>>

\* What is written to data.pt.  (Faulty variant: not this moment's position.)
StalePosition == position - 1
DataState == position

SaveData ==
  /\ job = "up" /\ at = At("data", "")
  /\ disk' = [disk EXCEPT ![global_steps][DataFile] = [step |-> DataState, run |-> run]]
  /\ at' = At("tracker", "")
  /\ UNCHANGED <<job, global_steps, run, workers, written, saved_paths, tracker>>

\* Opening the tracker empties it; the number gets there when it is closed.
OpenTracker ==
  /\ job = "up" /\ at = At("tracker", "")
  /\ tracker' = Torn
  /\ at' = At("number", "")
  /\ UNCHANGED <<job, global_steps, run, workers, written, saved_paths, disk>>

CloseTracker ==
  /\ job = "up" /\ at = At("number", "")
  /\ tracker' = global_steps
  /\ at' = Training
  /\ EndOfStep
  /\ UNCHANGED <<run, workers, written, saved_paths, disk>>

-----------------------------------------------------------------------------
(* Crash and resume.                                                       *)

\* The files that a crash may leave torn.
BeingWritten ==
  CASE at[1] = "write" -> {NextFile(r) : r \in {q \in Rank : CanWrite(q)}}
    [] at[1] = "data" -> {DataFile}
    [] OTHER -> {}

\* The process dies, and with it what it knew; the rmtree of a rotation may have
\* got through the files of some ranks.
Crash ==
  /\ job = "up"
  /\ job' = "down"
  /\ \/ \E torn \in SUBSET BeingWritten :
          disk' = [s \in Step |-> [f \in Files |->
                     IF s = global_steps /\ f \in torn THEN Torn ELSE disk[s][f]]]
     \/ /\ at[1] = "prune"
        /\ \E gone \in SUBSET Rank :
             disk' = [s \in Step |-> [f \in Files |->
                        IF Removed(at[2], s, f) /\ f.rank \in gone THEN Missing ELSE disk[s][f]]]
  /\ at' = Training
  /\ written' = [r \in Rank |-> 0]
  /\ saved_paths' = [role \in Roles |-> <<>>]
  /\ UNCHANGED <<global_steps, run, workers, tracker>>

\* A new process.
\* (Faulty variant: it trains the step it resumes from once more.)
StartSameStep(steps) == steps
FirstStep(steps) == steps + 1

Start(steps) ==
  /\ job' = "up"
  /\ global_steps' = FirstStep(steps)
  /\ run' = run + 1
  /\ saved_paths' = [role \in Roles |-> <<>>]
  /\ UNCHANGED <<at, written, disk, tracker>>

CanStart == job \in {"down", "done"} /\ run < MaxRuns

Scratch ==
  /\ Start(0)
  /\ live' = [p \in Worker |-> Fresh]
  /\ position' = 0

\* The folder of step s exists as soon as a file was written there: removing a
\* save removes the files of a role, not the folder.
FolderExists(s) == \E f \in Files : disk[s][f] # Missing

Loadable(s) == Whole(s, Files \ {DataFile}) /\ disk[s][DataFile] # Torn

\* Every worker loads its own files.  A missing data.pt only gives a warning.
Load(s) ==
  /\ Loadable(s)
  /\ Start(s)
  /\ live' = [p \in Worker |-> disk[s][File(p.role, p.rank, "model")]]
  /\ position' = IF disk[s][DataFile] = Missing THEN 0 ELSE disk[s][DataFile].step

\* The process ends with an exception while it loads.
Refuse ==
  /\ job' = "down"
  /\ run' = run + 1
  /\ UNCHANGED <<at, global_steps, workers, written, saved_paths, disk, tracker>>

LoadOrRefuse(s) == Load(s) \/ (~Loadable(s) /\ Refuse)

\* int() of an empty tracker raises.
ResumeAuto ==
  /\ CanStart /\ "auto" \in ResumeModes
  /\ \/ tracker = Missing /\ Scratch
     \/ tracker = Torn /\ Refuse
     \/ tracker \in Step /\ LoadOrRefuse(tracker)

\* The latest checkpoint is looked for before the mode is asked: the tracker is read,
\* and an empty one raises, although it is not what decides the folder.
ResumePath(s) ==
  /\ CanStart /\ "resume_path" \in ResumeModes
  /\ FolderExists(s)
  /\ \/ tracker = Torn /\ Refuse
     \/ tracker # Torn /\ LoadOrRefuse(s)

ResumeDisabled ==
  /\ CanStart /\ "disable" \in ResumeModes
  /\ Scratch

Over == \* a bound is reached
  /\ \/ job \in {"down", "done"} /\ run = MaxRuns
     \/ job = "up" /\ global_steps \notin Step
  /\ UNCHANGED vars

-----------------------------------------------------------------------------
Init ==
  /\ job = "up"
  /\ at = Training
  /\ global_steps = 1
  /\ run = 1
  /\ live = [p \in Worker |-> Fresh]
  /\ position = 0
  /\ written = [r \in Rank |-> 0]
  /\ saved_paths = [role \in Roles |-> <<>>]
  /\ disk = [s \in Step |-> [f \in Files |-> Missing]]
  /\ tracker = Missing

Save == Prune \/ (\E r \in Rank : WriteFile(r)) \/ WorkersSaved
        \/ SaveData \/ OpenTracker \/ CloseTracker

Resume == ResumeAuto \/ ResumeDisabled \/ \E s \in Step : ResumePath(s)

Next == TrainStep \/ Save \/ Crash \/ Resume \/ Over

Spec == Init /\ [][Next]_vars

-----------------------------------------------------------------------------
(* Properties.                                                             *)

Places == {Training, At("data", ""), At("tracker", ""), At("number", "")}
          \cup ({"prune", "write"} \X Roles)

\* The type invariant.
TypeOK ==
  /\ job \in {"up", "down", "done"}
  /\ at \in Places
  /\ global_steps \in 1..(MaxStep + 1)
  /\ run \in 1..MaxRuns
  /\ live \in [Worker -> Version]
  /\ position \in Nat
  /\ written \in [Rank -> 0..3]
  /\ saved_paths \in [Roles -> Seq(Step)]
  /\ disk \in [Step -> [Files -> Version \cup {Missing, Torn}]]
  /\ tracker \in Step \cup {Missing, Torn}

\* The state of the workers and of the dataloader, as one version.
Live ==
  LET v == live[[role |-> "actor", rank |-> Root]]
  IN IF (\A p \in Worker : live[p] = v) /\ position = v.step THEN v ELSE Mixed

\* The state in the folder of step s, as one version: every file of it is of the
\* same save.
Stored(s) ==
  LET v == disk[s][DataFile]
  IN IF ~Whole(s, Files) THEN Torn
     ELSE IF \A f \in Files : disk[s][f] = v THEN v ELSE Mixed

Promise == INSTANCE Resumption WITH
  live <- Live,
  Unreadable <- Torn,
  stored <- IF tracker = Missing THEN Fresh
            ELSE IF tracker = Torn THEN Torn ELSE Stored(tracker)

\* A resumed run gets back the last committed save, with the actor, the critic,
\* the dataloader and the Alpha-Stabler of every rank from that same save, also
\* when the folder was left half written by an earlier process.
ResumesLastSave == Promise!Spec

\* The tracker names a checkpoint that is all there, whatever the save or the
\* rotation under way has done so far: "latest checkpointed iteration tracker
\* (for atomic usage)" in _save_checkpoint.
TrackerNamesCheckpoint ==
  tracker \in Step => Stored(tracker) \in Version /\ Stored(tracker).step = tracker

\* Whatever a run resumes from, the steps it counts are those its workers were
\* trained for, and the folder of a step holds the state after that step.
StepsInLine ==
  /\ job = "up" /\ at = Training => \A p \in Worker : live[p].step = global_steps - 1
  /\ \A s \in Step : \A f \in Files \ {DataFile} :
       disk[s][f] \notin {Missing, Torn} => disk[s][f].step = s
=============================================================================
