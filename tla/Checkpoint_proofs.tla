------------------------- MODULE Checkpoint_proofs -------------------------
(***************************************************************************)
(* Proofs about Checkpoint, for any ranks, roles, save frequency and       *)
(* number of processes: its types, that steps, workers and folders stay in *)
(* line, that the tracker names a whole checkpoint, and that a resumed run *)
(* gets back the last committed save.                                      *)
(***************************************************************************)
EXTENDS Checkpoint, TLAPS

\* Only a running process saves, and the step that is saved is one of the steps.
SavesAStep == at # Training => job = "up" /\ global_steps \in Step

LEMMA RoleFacts == "actor" \in Roles /\ Roles \subseteq {"actor", "critic"}
                   /\ (use_critic <=> "critic" \in Roles)
  BY ConfigAssumption DEF Roles

LEMMA PlaceFacts ==
  ASSUME at \in Places
  PROVE  /\ at[1] \in {"prune", "write"} => at[2] \in Roles /\ at = <<at[1], at[2]>> /\ at # Training
         /\ at[1] \notin {"prune", "write"} =>
              at \in {Training, At("data", ""), At("tracker", ""), At("number", "")}
         /\ Training \in Places /\ At("data", "") \in Places
         /\ At("tracker", "") \in Places /\ At("number", "") \in Places
         /\ \A role \in Roles : At("prune", role) \in Places /\ At("write", role) \in Places
<1>1. ASSUME NEW part \in {"prune", "write"}, NEW role \in Roles, at = <<part, role>>
      PROVE  at[1] = part /\ at[2] = role /\ at = <<at[1], at[2]>> /\ at # Training
  <2>1. at[1] = part /\ at[2] = role
    BY <1>1
  <2>2. part # "train"
    OBVIOUS
  <2>3. QED BY <1>1, <2>1, <2>2 DEF Training, At
<1>2. /\ at[1] \in {"prune", "write"} => at[2] \in Roles /\ at = <<at[1], at[2]>> /\ at # Training
      /\ at[1] \notin {"prune", "write"} =>
           at \in {Training, At("data", ""), At("tracker", ""), At("number", "")}
  <2>1. CASE at \in {"prune", "write"} \X Roles
    <3>1. PICK part \in {"prune", "write"} : \E role \in Roles : at = <<part, role>>
      BY <2>1
    <3>2. PICK role \in Roles : at = <<part, role>>
      BY <3>1
    <3>3. QED BY <3>2, <1>1
  <2>2. CASE at \in {Training, At("data", ""), At("tracker", ""), At("number", "")}
    <3>1. /\ Training[1] = "train" /\ At("data", "")[1] = "data"
          /\ At("tracker", "")[1] = "tracker" /\ At("number", "")[1] = "number"
      BY DEF Training, At
    <3>2. at[1] \in {"train", "data", "tracker", "number"}
      BY <2>2, <3>1
    <3>3. QED BY <2>2, <3>2
  <2>3. QED BY <2>1, <2>2 DEF Places
<1>3. /\ Training \in Places /\ At("data", "") \in Places
      /\ At("tracker", "") \in Places /\ At("number", "") \in Places
  BY DEF Places
<1>4. \A role \in Roles : At("prune", role) \in Places /\ At("write", role) \in Places
  BY DEF Places, At
<1>5. QED BY <1>2, <1>3, <1>4

LEMMA DistinctPlaces ==
  /\ At("data", "") # Training /\ At("tracker", "") # Training /\ At("number", "") # Training
  /\ At("data", "") # At("tracker", "") /\ At("data", "") # At("number", "")
  /\ At("tracker", "") # At("number", "")
  /\ \A role \in Roles : \A part \in {"prune", "write"} :
       At(part, role) \notin {Training, At("data", ""), At("tracker", ""), At("number", "")}
  BY DEF Training, At

LEMMA FilesFacts ==
  /\ \A role \in Roles : Len(FilesOf(role)) \in {2, 3}
                         /\ DOMAIN FilesOf(role) = 1..Len(FilesOf(role))
  /\ \A role \in Roles, r \in Rank : \A i \in 1..Len(FilesOf(role)) :
       File(role, r, FilesOf(role)[i]) \in WorkerFiles(role)
  /\ \A role \in Roles : WorkerFiles(role) \subseteq Files
  /\ DataFile \in Files
  /\ \A f \in Files : f = DataFile \/ \E role \in Roles : f \in WorkerFiles(role)
  /\ \A role \in Roles : DataFile \notin WorkerFiles(role)
  /\ \A role, other \in Roles : role # other => WorkerFiles(role) \cap WorkerFiles(other) = {}
<1>1. \A role \in Roles : Len(FilesOf(role)) \in {2, 3}
                         /\ DOMAIN FilesOf(role) = 1..Len(FilesOf(role))
  <2>1. Len(<<"model", "optim">>) = 2 /\ Len(<<"model", "optim", "alpha">>) = 3
    OBVIOUS
  <2>2. DOMAIN <<"model", "optim">> = 1..2 /\ DOMAIN <<"model", "optim", "alpha">> = 1..3
    OBVIOUS
  <2>3. TAKE role \in Roles
  <2>4. FilesOf(role) = <<"model", "optim">> \/ FilesOf(role) = <<"model", "optim", "alpha">>
    BY DEF FilesOf
  <2>5. QED BY <2>1, <2>2, <2>4
<1>2. \A role \in Roles, r \in Rank : \A i \in 1..Len(FilesOf(role)) :
       File(role, r, FilesOf(role)[i]) \in WorkerFiles(role)
  BY <1>1 DEF WorkerFiles, Range
<1>3. \A role \in Roles : WorkerFiles(role) \subseteq Files
  BY DEF Files
<1>4. DataFile \in Files /\ \A f \in Files : f = DataFile \/ \E role \in Roles : f \in WorkerFiles(role)
  <2>1. DataFile \in Files
    BY DEF Files
  <2>2. ASSUME NEW f \in UNION {WorkerFiles(role) : role \in Roles}
        PROVE  \E role \in Roles : f \in WorkerFiles(role)
    BY Zenon
  <2>3. QED BY <2>1, <2>2, Zenon DEF Files
<1>5. \A role \in Roles : \A f \in WorkerFiles(role) : f.role = role
  BY DEF WorkerFiles, File
<1>6. DataFile.role = "driver" /\ "driver" \notin Roles
  BY RoleFacts DEF DataFile, File
<1>7. QED BY <1>1, <1>2, <1>3, <1>4, <1>5, <1>6

\* Every file of a worker is one of those it writes.
LEMMA WrittenFiles ==
  ASSUME NEW role \in Roles, NEW f \in WorkerFiles(role)
  PROVE  \E r \in Rank : \E i \in 1..Len(FilesOf(role)) : f = File(role, r, FilesOf(role)[i])
<1>1. PICK r \in Rank, n \in Range(FilesOf(role)) : f = File(role, r, n)
  BY DEF WorkerFiles
<1>2. PICK i \in DOMAIN FilesOf(role) : n = FilesOf(role)[i]
  BY DEF Range
<1>3. i \in 1..Len(FilesOf(role))
  BY FilesFacts
<1>4. QED BY <1>1, <1>2, <1>3

LEMMA ContentFacts == Missing \notin Version /\ Torn \notin Version /\ Missing \notin Nat /\ Torn \notin Nat
                      /\ Missing # Torn /\ Mixed \notin Version /\ Fresh \in Version
  BY ConfigAssumption DEF Version, Fresh

LEMMA StepFacts == Step \subseteq Nat /\ Missing \notin Step /\ Torn \notin Step
  BY ContentFacts, ConfigAssumption DEF Step

-----------------------------------------------------------------------------
(* Types, under every resume mode.                                         *)

TypeInv == TypeOK /\ SavesAStep

LEMMA TypeInit == Init => TypeInv
<1> SUFFICES ASSUME Init PROVE TypeInv
  OBVIOUS
<1>1. at \in Places /\ SavesAStep
  BY DEF Init, Places, SavesAStep
<1>2. job \in {"up", "down", "done"} /\ global_steps \in 1..(MaxStep + 1) /\ run \in 1..MaxRuns
      /\ position \in Nat /\ tracker \in Step \cup {Missing, Torn}
  BY ConfigAssumption DEF Init
<1>3. live \in [Worker -> Version] /\ written \in [Rank -> 0..3]
  BY ContentFacts DEF Init
<1>4. saved_paths \in [Roles -> Seq(Step)]
  BY DEF Init
<1>5. disk \in [Step -> [Files -> Version \cup {Missing, Torn}]]
  BY DEF Init
<1>6. QED BY <1>1, <1>2, <1>3, <1>4, <1>5 DEF TypeInv, TypeOK

LEMMA EndOfStepTypes ==
  ASSUME TypeOK, EndOfStep, global_steps \in Step
  PROVE  global_steps' \in 1..(MaxStep + 1) /\ job' \in {"up", "down", "done"}
  BY ConfigAssumption DEF TypeOK, EndOfStep, Step

LEMMA TypeTrainStep == TypeInv /\ TrainStep => TypeInv'
<1> SUFFICES ASSUME TypeOK, SavesAStep, TrainStep PROVE TypeInv'
  BY DEF TypeInv
<1>1. live' \in [Worker -> Version] /\ position' \in Nat
  BY ConfigAssumption DEF TrainStep, TypeOK, Version
<1>2. /\ at' \in Places /\ (at' # Training => job' = "up" /\ global_steps' \in Step)
      /\ global_steps' \in 1..(MaxStep + 1) /\ job' \in {"up", "down", "done"}
  <2>1. CASE at' = At("prune", "actor") /\ UNCHANGED <<job, global_steps>>
    BY <2>1, RoleFacts, PlaceFacts DEF TypeOK, TrainStep
  <2>2. CASE EndOfStep /\ UNCHANGED at
    BY <2>2, EndOfStepTypes DEF TypeOK, TrainStep
  <2>3. QED BY <2>1, <2>2 DEF TrainStep
<1>3. QED BY <1>1, <1>2 DEF TypeInv, TypeOK, SavesAStep, TrainStep

LEMMA TypePrune == TypeInv /\ Prune => TypeInv'
<1> SUFFICES ASSUME TypeOK, SavesAStep, Prune PROVE TypeInv'
  BY DEF TypeInv
<1>1. at[2] \in Roles /\ at # Training /\ at' \in Places /\ global_steps \in Step
  BY PlaceFacts DEF TypeOK, SavesAStep, Prune
<1>2. disk' \in [Step -> [Files -> Version \cup {Missing, Torn}]]
  BY DEF Prune, TypeOK
<1>3. saved_paths' \in [Roles -> Seq(Step)]
  <2>1. saved_paths[at[2]] \in Seq(Step)
    BY <1>1 DEF TypeOK
  <2>2. KeepStart(saved_paths[at[2]]) + 1 \in Nat \ {0}
    BY <2>1, ConfigAssumption DEF KeepStart
  <2>3. SubSeq(saved_paths[at[2]], KeepStart(saved_paths[at[2]]) + 1, Len(saved_paths[at[2]])) \in Seq(Step)
    BY <2>1, <2>2
  <2>4. QED BY <2>1, <2>2, <2>3 DEF Prune, TypeOK
<1>4. written' \in [Rank -> 0..3]
  BY DEF Prune
<1>5. QED BY <1>1, <1>2, <1>3, <1>4 DEF TypeInv, TypeOK, SavesAStep, Prune, workers

LEMMA TypeWriteFile == ASSUME NEW r \in Rank PROVE TypeInv /\ WriteFile(r) => TypeInv'
<1> SUFFICES ASSUME TypeOK, SavesAStep, WriteFile(r) PROVE TypeInv'
  BY DEF TypeInv
<1>1. at[2] \in Roles /\ at # Training /\ global_steps \in Step
  BY PlaceFacts DEF TypeOK, SavesAStep, WriteFile, CanWrite
<1>2. written[r] \in 0..3 /\ written[r] < Len(FilesOf(at[2])) /\ written[r] + 1 \in 1..Len(FilesOf(at[2]))
  BY <1>1, FilesFacts DEF TypeOK, WriteFile, CanWrite
<1>3. NextFile(r) \in Files
  BY <1>1, <1>2, FilesFacts DEF NextFile
<1>4. live[[role |-> at[2], rank |-> r]] \in Version
  BY <1>1 DEF TypeOK, Worker
<1>5. disk' \in [Step -> [Files -> Version \cup {Missing, Torn}]]
  BY <1>1, <1>3, <1>4 DEF TypeOK, WriteFile
<1>6. written' \in [Rank -> 0..3]
  <2>1. written[r] + 1 \in 0..3
    BY <1>1, <1>2, FilesFacts
  <2>2. QED BY <2>1 DEF TypeOK, WriteFile
<1>7. QED BY <1>1, <1>5, <1>6 DEF TypeInv, TypeOK, SavesAStep, WriteFile, driver, workers

LEMMA TypeWorkersSaved == TypeInv /\ WorkersSaved => TypeInv'
<1> SUFFICES ASSUME TypeOK, SavesAStep, WorkersSaved PROVE TypeInv'
  BY DEF TypeInv
<1>1. at[2] \in Roles /\ at # Training /\ global_steps \in Step
  BY PlaceFacts DEF TypeOK, SavesAStep, WorkersSaved
<1>2. saved_paths' \in [Roles -> Seq(Step)]
  <2>1. Append(saved_paths[at[2]], global_steps) \in Seq(Step)
    BY <1>1 DEF TypeOK
  <2>2. QED BY <2>1 DEF TypeOK, WorkersSaved
<1>3. at' \in Places
  BY PlaceFacts, RoleFacts DEF TypeOK, WorkersSaved
<1>4. QED BY <1>1, <1>2, <1>3 DEF TypeInv, TypeOK, SavesAStep, WorkersSaved, workers

LEMMA TypeSaveData == TypeInv /\ SaveData => TypeInv'
<1> SUFFICES ASSUME TypeOK, SavesAStep, SaveData PROVE TypeInv'
  BY DEF TypeInv
<1>1. global_steps \in Step /\ at' \in Places
  BY DistinctPlaces, PlaceFacts DEF TypeOK, SavesAStep, SaveData
<1>2. [step |-> DataState, run |-> run] \in Version
  BY ConfigAssumption DEF TypeOK, DataState, Version
<1>3. disk' \in [Step -> [Files -> Version \cup {Missing, Torn}]]
  BY <1>1, <1>2, FilesFacts DEF TypeOK, SaveData
<1>4. QED BY <1>1, <1>3 DEF TypeInv, TypeOK, SavesAStep, SaveData, workers

LEMMA TypeTracker == TypeInv /\ (OpenTracker \/ CloseTracker) => TypeInv'
<1> SUFFICES ASSUME TypeOK, SavesAStep, OpenTracker \/ CloseTracker PROVE TypeInv'
  BY DEF TypeInv
<1>1. global_steps \in Step /\ at' \in Places
  BY DistinctPlaces, PlaceFacts DEF TypeOK, SavesAStep, OpenTracker, CloseTracker
<1>2. CASE OpenTracker
  BY <1>1, <1>2 DEF TypeInv, TypeOK, SavesAStep, OpenTracker, workers
<1>3. CASE CloseTracker
  BY <1>1, <1>3, EndOfStepTypes DEF TypeInv, TypeOK, SavesAStep, CloseTracker, workers
<1>4. QED BY <1>2, <1>3

LEMMA TypeCrash == TypeInv /\ Crash => TypeInv'
<1> SUFFICES ASSUME TypeOK, SavesAStep, Crash PROVE TypeInv'
  BY DEF TypeInv
<1>1. disk' \in [Step -> [Files -> Version \cup {Missing, Torn}]]
  BY DEF Crash, TypeOK
<1>2. at' \in Places /\ at' = Training
  BY PlaceFacts DEF TypeOK, Crash
<1>3. written' \in [Rank -> 0..3] /\ saved_paths' \in [Roles -> Seq(Step)]
  BY DEF Crash
<1>4. QED BY <1>1, <1>2, <1>3 DEF TypeInv, TypeOK, SavesAStep, Crash, workers

\* What a folder that can be loaded gives the workers.
LEMMA LoadableFacts ==
  ASSUME TypeOK, NEW s \in Step, Loadable(s), NEW p \in Worker
  PROVE  File(p.role, p.rank, "model") \in WorkerFiles(p.role)
         /\ disk[s][File(p.role, p.rank, "model")] \in Version
<1>1. p.role \in Roles /\ p.rank \in Rank
  BY DEF Worker
<1>2. FilesOf(p.role)[1] = "model" /\ 1 \in 1..Len(FilesOf(p.role))
  <2>1. 1 \in 1..Len(FilesOf(p.role))
    <3>1. Len(FilesOf(p.role)) \in {2, 3}
      BY <1>1, FilesFacts
    <3>2. QED BY <3>1
  <2>2. <<"model", "optim">>[1] = "model" /\ <<"model", "optim", "alpha">>[1] = "model"
    OBVIOUS
  <2>3. QED BY <2>1, <2>2 DEF FilesOf
<1>3. File(p.role, p.rank, "model") \in WorkerFiles(p.role)
  BY <1>1, <1>2, FilesFacts
<1>4. File(p.role, p.rank, "model") \in Files \ {DataFile}
  BY <1>1, <1>3, FilesFacts
<1>5. disk[s][File(p.role, p.rank, "model")] \notin {Missing, Torn}
  BY <1>4 DEF Loadable, Whole
<1>6. disk[s][File(p.role, p.rank, "model")] \in Version \cup {Missing, Torn}
  BY <1>4 DEF TypeOK
<1>7. QED BY <1>3, <1>5, <1>6

LEMMA StartTypes ==
  ASSUME TypeInv, CanStart, NEW s \in Nat, s <= MaxStep, Start(s),
         live' \in [Worker -> Version], position' \in Nat
  PROVE  TypeInv'
<1>1. global_steps' \in 1..(MaxStep + 1) /\ run' \in 1..MaxRuns
  BY ConfigAssumption DEF TypeInv, TypeOK, CanStart, Start, FirstStep
<1>2. saved_paths' \in [Roles -> Seq(Step)]
  BY DEF Start
<1>3. at' = Training
  BY DEF Start, CanStart, TypeInv, SavesAStep
<1>4. QED BY <1>1, <1>2, <1>3, PlaceFacts DEF TypeInv, TypeOK, SavesAStep, Start

LEMMA TypeResume == TypeInv /\ Resume => TypeInv'
<1> SUFFICES ASSUME TypeInv, Resume PROVE TypeInv'
  OBVIOUS
<1>1. ASSUME CanStart, Scratch PROVE TypeInv'
  <2>1. live' \in [Worker -> Version] /\ position' \in Nat
    BY <1>1, ContentFacts DEF Scratch
  <2>2. Start(0)
    BY <1>1 DEF Scratch
  <2>3. QED BY <1>1, <2>1, <2>2, StartTypes, ConfigAssumption
<1>2. ASSUME CanStart, NEW s \in Step, Load(s) PROVE TypeInv'
  <2>1. live' \in [Worker -> Version]
    BY <1>2, LoadableFacts DEF Load, TypeInv
  <2>2. position' \in Nat
    <3>1. disk[s][DataFile] \in Version \cup {Missing, Torn} /\ disk[s][DataFile] # Torn
      BY <1>2, FilesFacts DEF Load, Loadable, TypeInv, TypeOK
    <3>2. QED BY <1>2, <3>1 DEF Load, Version
  <2>3. Start(s) /\ s \in Nat /\ s <= MaxStep
    BY <1>2 DEF Load, Step
  <2>4. QED BY <1>2, <2>1, <2>2, <2>3, StartTypes
<1>3. ASSUME CanStart, Refuse PROVE TypeInv'
  <2>1. run' \in 1..MaxRuns
    BY <1>3, ConfigAssumption DEF CanStart, Refuse, TypeInv, TypeOK
  <2>2. at = Training
    BY <1>3 DEF CanStart, TypeInv, SavesAStep
  <2>3. QED BY <1>3, <2>1, <2>2 DEF Refuse, TypeInv, TypeOK, SavesAStep, workers
<1>4. QED BY <1>1, <1>2, <1>3
  DEF Resume, ResumeAuto, ResumeDisabled, ResumePath, LoadOrRefuse

LEMMA TypeStep == TypeInv /\ [Next]_vars => TypeInv'
<1> SUFFICES ASSUME TypeInv, [Next]_vars PROVE TypeInv'
  OBVIOUS
<1>1. CASE TrainStep
  BY <1>1, TypeTrainStep
<1>2. CASE Save
  BY <1>2, TypePrune, TypeWriteFile, TypeWorkersSaved, TypeSaveData, TypeTracker DEF Save
<1>3. CASE Crash
  BY <1>3, TypeCrash
<1>4. CASE Resume
  BY <1>4, TypeResume
<1>5. CASE UNCHANGED vars
  BY <1>5 DEF TypeInv, TypeOK, SavesAStep, vars, driver, workers
<1>6. QED BY <1>1, <1>2, <1>3, <1>4, <1>5 DEF Next, Over

\* Every variable keeps its type, in every resume mode: in particular a step is
\* only saved while it is one of the steps, and a crash leaves files that are
\* versions, torn or missing.
THEOREM TypeCorrect == Spec => []TypeOK
<1>1. Init => TypeInv
  BY TypeInit
<1>2. TypeInv /\ [Next]_vars => TypeInv'
  BY TypeStep
<1>3. TypeInv => TypeOK
  BY DEF TypeInv
<1>4. QED BY <1>1, <1>2, <1>3, PTL DEF Spec

-----------------------------------------------------------------------------
(* The steps that are counted, under every resume mode.                    *)

\* The last step the workers were trained for: that of the iteration, once its save
\* has begun.
StepTrained == IF at = Training THEN global_steps - 1 ELSE global_steps

Counted == job = "up" => \A p \in Worker : live[p].step = StepTrained

OfItsStep(s) ==
  \A f \in Files \ {DataFile} : disk[s][f] \notin {Missing, Torn} => disk[s][f].step = s

FoldersOfTheirStep == \A s \in Step : OfItsStep(s)

StepsInv == TypeInv /\ Counted /\ FoldersOfTheirStep

LEMMA StepsInit == Init => StepsInv
<1> SUFFICES ASSUME Init PROVE Counted /\ FoldersOfTheirStep
  BY TypeInit DEF StepsInv
<1>1. Counted
  BY DEF Init, Counted, StepTrained, Fresh
<1>2. FoldersOfTheirStep
  BY DEF Init, FoldersOfTheirStep, OfItsStep
<1>3. QED BY <1>1, <1>2

\* Where a step of _save_checkpoint begins and ends: only the last one is back in
\* training.
LEMMA Saving ==
  ASSUME TypeInv
  PROVE  /\ Prune => at # Training /\ at' # Training
         /\ \A r \in Rank : WriteFile(r) => at # Training /\ at[2] \in Roles
         /\ WorkersSaved => at # Training /\ at' # Training
         /\ SaveData \/ OpenTracker => at # Training /\ at' # Training
         /\ CloseTracker => at # Training /\ at' = Training
<1>1. \A role \in Roles : At("prune", role) # Training /\ At("write", role) # Training
  BY DEF Training, At
<1>2. at \in Places
  BY DEF TypeInv, TypeOK
<1>3. at[1] = "prune" \/ at[1] = "write" => at # Training /\ at[2] \in Roles
  <2>1. at[1] = "prune" => at # Training /\ at[2] \in Roles
    BY <1>2, PlaceFacts, Zenon
  <2>2. at[1] = "write" => at # Training /\ at[2] \in Roles
    BY <1>2, PlaceFacts, Zenon
  <2>3. QED BY <2>1, <2>2
<1>4. Prune => at # Training /\ at' # Training
  BY <1>1, <1>3 DEF Prune
<1>5. \A r \in Rank : WriteFile(r) => at # Training /\ at[2] \in Roles
  BY <1>3 DEF WriteFile, CanWrite
<1>6. WorkersSaved => at # Training /\ at' # Training
  <2> SUFFICES ASSUME WorkersSaved PROVE at # Training /\ at' # Training
    OBVIOUS
  <2>1. CASE use_critic /\ at[2] = "actor"
    <3>1. at' = At("prune", "critic")
      BY <2>1, Zenon DEF WorkersSaved
    <3>2. at' # Training
      BY <2>1, <3>1, <1>1, RoleFacts
    <3>3. QED BY <1>3, <3>2, Zenon DEF WorkersSaved
  <2>2. CASE ~(use_critic /\ at[2] = "actor")
    <3>1. at' = At("data", "")
      BY <2>2, Zenon DEF WorkersSaved
    <3>2. at' # Training
      BY <3>1, DistinctPlaces, Zenon
    <3>3. QED BY <1>3, <3>2, Zenon DEF WorkersSaved
  <2>3. QED BY <2>1, <2>2
<1>7. SaveData \/ OpenTracker => at # Training /\ at' # Training
  <2>1. SaveData => at = At("data", "") /\ at' = At("tracker", "")
    BY Zenon DEF SaveData
  <2>2. OpenTracker => at = At("tracker", "") /\ at' = At("number", "")
    BY Zenon DEF OpenTracker
  <2>3. QED BY <2>1, <2>2, DistinctPlaces, Zenon
<1>8. CloseTracker => at # Training /\ at' = Training
  <2>1. CloseTracker => at = At("number", "") /\ at' = Training
    BY Zenon DEF CloseTracker
  <2>2. QED BY <2>1, DistinctPlaces, Zenon
<1>9. QED BY <1>4, <1>5, <1>6, <1>7, <1>8

\* Files that disappear or are left torn are no longer of any step.
LEMMA FilesLost ==
  ASSUME FoldersOfTheirStep,
         \A s \in Step : \A f \in Files :
           disk'[s][f] = disk[s][f] \/ disk'[s][f] \in {Missing, Torn}
  PROVE  FoldersOfTheirStep'
  BY DEF FoldersOfTheirStep, OfItsStep

\* The driver moves on within the iteration whose step was trained.
LEMMA CountedKept ==
  ASSUME Counted, job = "up", UNCHANGED <<live, global_steps>>, at # Training, at' # Training
  PROVE  Counted'
  BY DEF Counted, StepTrained

LEMMA StepsTrain == StepsInv /\ TrainStep => Counted' /\ FoldersOfTheirStep'
<1> SUFFICES ASSUME StepsInv, TrainStep PROVE Counted' /\ FoldersOfTheirStep'
  OBVIOUS
<1>1. global_steps \in Nat /\ job = "up" /\ at = Training
  BY StepFacts DEF TrainStep
<1>2. \A p \in Worker : live'[p].step = global_steps
  BY <1>1 DEF TrainStep, StepsInv, Counted, StepTrained
<1>3. StepTrained' = global_steps
  <2>1. CASE at' = At("prune", "actor") /\ UNCHANGED <<job, global_steps>>
    <3>1. at' # Training
      BY <2>1 DEF Training, At
    <3>2. QED BY <2>1, <3>1 DEF StepTrained
  <2>2. CASE EndOfStep /\ UNCHANGED at
    BY <1>1, <2>2 DEF EndOfStep, StepTrained
  <2>3. QED BY <2>1, <2>2 DEF TrainStep
<1>4. FoldersOfTheirStep'
  BY DEF TrainStep, StepsInv, FoldersOfTheirStep, OfItsStep
<1>5. QED BY <1>2, <1>3, <1>4 DEF Counted

LEMMA StepsPrune == StepsInv /\ Prune => Counted' /\ FoldersOfTheirStep'
<1> SUFFICES ASSUME StepsInv, Prune PROVE Counted' /\ FoldersOfTheirStep'
  OBVIOUS
<1>1. at # Training /\ at' # Training
  BY Saving DEF StepsInv
<1>2. \A s \in Step : \A f \in Files :
        disk'[s][f] = disk[s][f] \/ disk'[s][f] \in {Missing, Torn}
  BY DEF Prune
<1>3. QED BY <1>1, <1>2, FilesLost, CountedKept DEF StepsInv, Prune, workers

\* A rank writes what it holds into the folder of the step that it was trained for.
LEMMA StepsWriteFile ==
  ASSUME NEW r \in Rank PROVE StepsInv /\ WriteFile(r) => Counted' /\ FoldersOfTheirStep'
<1> SUFFICES ASSUME StepsInv, WriteFile(r) PROVE Counted' /\ FoldersOfTheirStep'
  OBVIOUS
<1> DEFINE v == live[[role |-> at[2], rank |-> r]]
<1>1. at[2] \in Roles /\ at # Training /\ job = "up" /\ global_steps \in Step
  BY Saving DEF StepsInv, TypeInv, SavesAStep
<1>2. v.step = global_steps
  BY <1>1 DEF StepsInv, Counted, StepTrained, Worker
<1>3. ASSUME NEW s \in Step, NEW f \in Files
      PROVE  disk'[s][f] = disk[s][f] \/ (s = global_steps /\ disk'[s][f] = v)
  BY DEF WriteFile, StepsInv, TypeInv, TypeOK
<1> HIDE DEF v
<1>4. FoldersOfTheirStep'
  BY <1>2, <1>3 DEF StepsInv, FoldersOfTheirStep, OfItsStep
<1>5. QED BY <1>1, <1>4, CountedKept DEF StepsInv, WriteFile, driver, workers

LEMMA StepsOtherSaves ==
  StepsInv /\ (WorkersSaved \/ SaveData \/ OpenTracker \/ CloseTracker)
    => Counted' /\ FoldersOfTheirStep'
<1> SUFFICES ASSUME StepsInv, WorkersSaved \/ SaveData \/ OpenTracker \/ CloseTracker
             PROVE  Counted' /\ FoldersOfTheirStep'
  OBVIOUS
<1>1. at # Training /\ job = "up"
  BY Saving DEF StepsInv, TypeInv, SavesAStep
<1>2. Counted'
  <2>1. CASE WorkersSaved \/ SaveData \/ OpenTracker
    <3>1. UNCHANGED workers /\ global_steps' = global_steps
      BY <2>1, Zenon DEF WorkersSaved, SaveData, OpenTracker
    <3>2. at' # Training
      BY <2>1, Saving DEF StepsInv
    <3>3. QED BY <1>1, <3>1, <3>2, CountedKept DEF StepsInv, workers
  <2>2. CASE CloseTracker
    <3>1. global_steps' = global_steps + 1 /\ UNCHANGED workers /\ at' = Training
      BY <2>2, Zenon DEF CloseTracker, EndOfStep
    <3>2. global_steps \in Nat
      BY DEF StepsInv, TypeInv, TypeOK
    <3>3. StepTrained = global_steps /\ StepTrained' = global_steps
      BY <1>1, <3>1, <3>2 DEF StepTrained
    <3>4. QED BY <1>1, <3>1, <3>3 DEF StepsInv, Counted, workers
  <2>3. QED BY <2>1, <2>2
<1>3. ASSUME NEW s \in Step, NEW f \in Files \ {DataFile} PROVE disk'[s][f] = disk[s][f]
  <2>1. CASE SaveData
    <3>1. disk' = [disk EXCEPT ![global_steps][DataFile] = [step |-> DataState, run |-> run]]
      BY <2>1, Zenon DEF SaveData
    <3>2. disk \in [Step -> [Files -> Version \cup {Missing, Torn}]]
      BY DEF StepsInv, TypeInv, TypeOK
    <3>3. QED BY <3>1, <3>2
  <2>2. CASE WorkersSaved \/ OpenTracker \/ CloseTracker
    BY <2>2, Zenon DEF WorkersSaved, OpenTracker, CloseTracker
  <2>3. QED BY <2>1, <2>2
<1>4. FoldersOfTheirStep'
  BY <1>3 DEF StepsInv, FoldersOfTheirStep, OfItsStep
<1>5. QED BY <1>2, <1>4

LEMMA StepsCrash == StepsInv /\ Crash => Counted' /\ FoldersOfTheirStep'
<1> SUFFICES ASSUME StepsInv, Crash PROVE Counted' /\ FoldersOfTheirStep'
  OBVIOUS
<1>1. \A s \in Step : \A f \in Files :
        disk'[s][f] = disk[s][f] \/ disk'[s][f] \in {Missing, Torn}
  BY DEF Crash
<1>2. QED BY <1>1, FilesLost DEF StepsInv, Crash, Counted

\* A folder that is loaded gives every worker the step of the folder, which the
\* counter goes on from; a run from scratch starts at step 1.
LEMMA StepsResume == StepsInv /\ Resume => Counted' /\ FoldersOfTheirStep'
<1> SUFFICES ASSUME StepsInv, Resume PROVE Counted' /\ FoldersOfTheirStep'
  OBVIOUS
<1>1. FoldersOfTheirStep'
  BY DEF StepsInv, FoldersOfTheirStep, OfItsStep, Resume, ResumeAuto, ResumeDisabled,
         ResumePath, LoadOrRefuse, Load, Scratch, Refuse, Start
<1>2. ASSUME CanStart, NEW s \in Nat, Start(s), \A p \in Worker : live'[p].step = s
      PROVE  Counted'
  <2>1. at' = Training /\ global_steps' = s + 1
    BY <1>2 DEF CanStart, Start, FirstStep, StepsInv, TypeInv, SavesAStep
  <2>2. QED BY <1>2, <2>1 DEF Counted, StepTrained
<1>3. ASSUME CanStart, Scratch PROVE Counted'
  BY <1>2, <1>3 DEF Scratch, Fresh
<1>4. ASSUME CanStart, NEW s \in Step, Load(s) PROVE Counted'
  <2>1. ASSUME NEW p \in Worker PROVE live'[p].step = s
    <3>1. p.role \in Roles
      BY DEF Worker
    <3>2. File(p.role, p.rank, "model") \in Files \ {DataFile}
      BY <1>4, <3>1, LoadableFacts, FilesFacts DEF Load, StepsInv, TypeInv
    <3>3. disk[s][File(p.role, p.rank, "model")] \notin {Missing, Torn}
      BY <1>4, <3>2 DEF Load, Loadable, Whole
    <3>4. disk[s][File(p.role, p.rank, "model")].step = s
      BY <3>2, <3>3 DEF StepsInv, FoldersOfTheirStep, OfItsStep
    <3>5. QED BY <1>4, <3>4 DEF Load
  <2>2. s \in Nat /\ Start(s)
    BY <1>4, StepFacts DEF Load
  <2>3. QED BY <1>2, <1>4, <2>1, <2>2
<1>5. ASSUME Refuse PROVE Counted'
  BY <1>5 DEF Refuse, Counted
<1>6. Counted'
  BY <1>3, <1>4, <1>5 DEF Resume, ResumeAuto, ResumeDisabled, ResumePath, LoadOrRefuse
<1>7. QED BY <1>1, <1>6

\* However runs are started (from the tracker, from a folder that is named, or from
\* scratch), whichever rank has written what when a process dies and whatever the
\* rotation removed: the counter of a run is one ahead of the step its workers were
\* trained for, and the folder of a step holds the workers' state after that step.
THEOREM StepsCorrect == Spec => []StepsInLine
<1>1. Init => StepsInv
  BY StepsInit
<1>2. StepsInv /\ [Next]_vars => StepsInv'
  <2> SUFFICES ASSUME StepsInv, [Next]_vars PROVE Counted' /\ FoldersOfTheirStep'
    BY TypeStep DEF StepsInv
  <2>1. CASE TrainStep
    BY <2>1, StepsTrain
  <2>2. CASE Save
    BY <2>2, StepsPrune, StepsWriteFile, StepsOtherSaves DEF Save
  <2>3. CASE Crash
    BY <2>3, StepsCrash
  <2>4. CASE Resume
    BY <2>4, StepsResume
  <2>5. CASE UNCHANGED vars
    BY <2>5 DEF StepsInv, Counted, StepTrained, FoldersOfTheirStep, OfItsStep, vars, driver, workers
  <2>6. QED BY <2>1, <2>2, <2>3, <2>4, <2>5 DEF Next, Over
<1>3. StepsInv => StepsInLine
  BY DEF StepsInv, Counted, StepTrained, FoldersOfTheirStep, OfItsStep, StepsInLine
<1>4. QED BY <1>1, <1>2, <1>3, PTL DEF Spec

-----------------------------------------------------------------------------
(* resume_mode auto, and more than one save kept: the tracker.             *)

AutoKeepsTwo == ResumeModes = {"auto"} /\ max_ckpt_to_keep # 1

\* The state that a save under way writes.
ThisVersion == [step |-> global_steps, run |-> run]

\* The folder of step t holds one version, of step t.
Named(t) ==
  \E v \in Version : v.step = t /\ v.run <= run /\ \A f \in Files : disk[t][f] = v

TrackerNamed == tracker \in Step => Named(tracker)

\* Between two saves the workers and the dataloader hold one version, of the step
\* before global_steps; during a save they hold ThisVersion.
InLine ==
  job = "up" =>
    IF at = Training
    THEN \E v \in Version : /\ v.step = global_steps - 1 /\ v.run <= run /\ position = v.step
                            /\ \A p \in Worker : live[p] = v
    ELSE position = global_steps /\ \A p \in Worker : live[p] = ThisVersion

\* A running process is past the step that the tracker names.
TrackerBehind ==
  job = "up" => /\ tracker \in Step => tracker < global_steps
                /\ at = At("number", "") => tracker = Torn

\* Has a save that is at this place written the files of this role?
SavedAt(place, role) == \/ place \in {At("data", ""), At("tracker", ""), At("number", "")}
                        \/ role = "actor" /\ place[2] = "critic"
Saved(role) == SavedAt(at, role)

\* The saves that can be rotated are in order, and until a role has been saved
\* anew they end at most at the save the tracker names.
PathsBehind ==
  job = "up" => \A role \in Roles :
    /\ \A i, j \in 1..Len(saved_paths[role]) : i < j => saved_paths[role][i] < saved_paths[role][j]
    /\ \A i \in 1..Len(saved_paths[role]) : saved_paths[role][i] <= global_steps
    /\ ~Saved(role) => \A i \in 1..Len(saved_paths[role]) :
                         tracker \in Step /\ saved_paths[role][i] <= tracker

\* What the save under way has written so far.
SavedSoFar ==
  job = "up" =>
    /\ \A role \in Roles : Saved(role) =>
         \A f \in WorkerFiles(role) : disk[global_steps][f] = ThisVersion
    /\ at[1] = "write" => \A r \in Rank :
         /\ written[r] <= Len(FilesOf(at[2]))
         /\ \A i \in 1..written[r] :
              disk[global_steps][File(at[2], r, FilesOf(at[2])[i])] = ThisVersion
    /\ at \in {At("tracker", ""), At("number", "")} =>
         disk[global_steps][DataFile] = ThisVersion

ResumeInv == TrackerNamed /\ InLine /\ TrackerBehind /\ PathsBehind /\ SavedSoFar

LEMMA AtParts == \A part, role : At(part, role)[1] = part /\ At(part, role)[2] = role
  BY DEF At

LEMMA SavedFacts ==
  ASSUME NEW role \in Roles
  PROVE  /\ ~SavedAt(Training, role)
         /\ \A part \in {"prune", "write"} :
              /\ ~SavedAt(At(part, "actor"), role)
              /\ SavedAt(At(part, "critic"), role) <=> role = "actor"
         /\ SavedAt(At("data", ""), role) /\ SavedAt(At("tracker", ""), role)
         /\ SavedAt(At("number", ""), role)
<1>1. /\ Training[2] = "" /\ Training[1] = "train"
      /\ \A part, other : At(part, other)[1] = part /\ At(part, other)[2] = other
  BY AtParts DEF Training
<1>2. \A part \in {"prune", "write", "train"} : \A other :
        At(part, other) \notin {At("data", ""), At("tracker", ""), At("number", "")}
  <2>1. /\ At("data", "")[1] = "data" /\ At("tracker", "")[1] = "tracker"
        /\ At("number", "")[1] = "number"
    BY <1>1
  <2>2. ASSUME NEW part \in {"prune", "write", "train"}, NEW other
        PROVE  At(part, other)[1] \notin {"data", "tracker", "number"}
    BY <1>1
  <2>3. QED BY <2>1, <2>2
<1>3. QED BY <1>1, <1>2, RoleFacts DEF SavedAt, Training

\* The rotation of a role that is not saved yet spares the save the tracker names.
LEMMA RotationSpares ==
  ASSUME TypeOK, PathsBehind, max_ckpt_to_keep # 1, job = "up",
         NEW role \in Roles, ~Saved(role), tracker \in Step
  PROVE  \A i \in 1..KeepStart(saved_paths[role]) : saved_paths[role][i] # tracker
<1> DEFINE paths == saved_paths[role]
<1>1. paths \in Seq(Step) /\ Len(paths) \in Nat
  BY DEF TypeOK
<1>2. \A i, j \in 1..Len(paths) : i < j => paths[i] < paths[j]
  BY DEF PathsBehind
<1>3. \A i \in 1..Len(paths) : paths[i] <= tracker
  BY DEF PathsBehind
<1>4. \A i \in 1..Len(paths) : paths[i] \in Nat
  <2>1. \A i \in 1..Len(paths) : paths[i] \in Step
    BY <1>1
  <2>2. QED BY <2>1, StepFacts
<1> HIDE DEF paths
<1>5. KeepStart(paths) = 0 \/ (KeepStart(paths) \in Nat /\ KeepStart(paths) < Len(paths))
  BY <1>1, ConfigAssumption DEF KeepStart
<1>6. ASSUME NEW i \in 1..KeepStart(paths) PROVE paths[i] # tracker
  <2>1. i \in 1..Len(paths) /\ Len(paths) \in 1..Len(paths) /\ i < Len(paths)
    BY <1>1, <1>5
  <2>2. paths[i] < paths[Len(paths)] /\ paths[Len(paths)] <= tracker
    BY <1>2, <1>3, <2>1
  <2>3. tracker \in Nat /\ paths[i] \in Nat /\ paths[Len(paths)] \in Nat
    BY <1>4, <2>1, StepFacts
  <2>4. QED BY <2>2, <2>3
<1>7. QED BY <1>6 DEF paths

LEMMA ResumeInit == Init => ResumeInv
<1> SUFFICES ASSUME Init PROVE ResumeInv
  OBVIOUS
<1>1. TrackerNamed
  BY StepFacts DEF Init, TrackerNamed
<1>2. InLine
  <2>1. Fresh \in Version /\ Fresh.step = 0 /\ Fresh.run = 0
    BY ContentFacts DEF Fresh
  <2>2. \A p \in Worker : live[p] = Fresh
    BY DEF Init
  <2>3. at = Training /\ position = 0 /\ global_steps - 1 = 0 /\ run = 1
    BY DEF Init
  <2>4. QED BY <2>1, <2>2, <2>3 DEF InLine
<1>3. TrackerBehind
  BY StepFacts, DistinctPlaces DEF Init, TrackerBehind
<1>4. PathsBehind
  BY DEF Init, PathsBehind
<1>5. SavedSoFar
  <2>1. at = Training /\ at[1] = "train"
    BY AtParts DEF Init, Training
  <2>2. \A role \in Roles : ~Saved(role)
    BY <2>1, SavedFacts DEF Saved
  <2>3. QED BY <2>1, <2>2, DistinctPlaces DEF SavedSoFar
<1>6. QED BY <1>1, <1>2, <1>3, <1>4, <1>5 DEF ResumeInv

IInv == TypeInv /\ ResumeInv

\* An action that leaves the tracker and its folder alone.
LEMMA TrackerNamedKept ==
  ASSUME TypeOK, TypeOK', TrackerNamed, tracker' = tracker, run' >= run,
         tracker \in Step => \A f \in Files : disk'[tracker][f] = disk[tracker][f]
  PROVE  TrackerNamed'
<1> SUFFICES ASSUME tracker \in Step PROVE Named(tracker)'
  BY DEF TrackerNamed
<1>1. PICK v \in Version : v.step = tracker /\ v.run <= run /\ \A f \in Files : disk[tracker][f] = v
  BY DEF Named, TrackerNamed
<1>2. v.run <= run'
  BY <1>1, ConfigAssumption DEF TypeOK, Version
<1>3. \A f \in Files : disk'[tracker'][f] = v
  BY <1>1
<1>4. QED BY <1>1, <1>2, <1>3 DEF Named

\* The step a save is writing is not the step of the tracker.
LEMMA TrackerApart ==
  ASSUME ResumeInv, job = "up", global_steps \in Step, tracker \in Step
  PROVE  tracker # global_steps
<1>1. tracker < global_steps
  BY DEF ResumeInv, TrackerBehind
<1>2. tracker \in Nat /\ global_steps \in Nat
  BY StepFacts
<1>3. QED BY <1>1, <1>2

\* No step of a save, of its rotation or of a crash touches the folder that the
\* tracker names.
LEMMA TrackerSpared ==
  ASSUME max_ckpt_to_keep # 1, TypeInv, ResumeInv,
         Prune \/ (\E r \in Rank : WriteFile(r)) \/ SaveData \/ Crash,
         tracker \in Step, NEW f \in Files
  PROVE  disk'[tracker][f] = disk[tracker][f]
<1>1. ASSUME at[1] = "prune", job = "up" PROVE ~Removed(at[2], tracker, f)
  <2>1. PICK role \in Roles : at = At("prune", role) /\ at[2] = role
    BY <1>1, PlaceFacts DEF TypeInv, TypeOK, At
  <2>2. at[2] \in Roles /\ ~Saved(at[2])
    BY <2>1, SavedFacts, RoleFacts DEF Saved
  <2>3. QED BY <1>1, <2>2, RotationSpares DEF Removed, ResumeInv, TypeInv
<1>2. ASSUME job = "up", at # Training PROVE tracker # global_steps
  BY <1>2, TrackerApart DEF TypeInv, SavesAStep
<1>3. CASE Prune
  BY <1>1, <1>3 DEF Prune
<1>4. CASE \E r \in Rank : WriteFile(r)
  <2>1. PICK r \in Rank : WriteFile(r)
    BY <1>4
  <2>2. job = "up" /\ at # Training
    BY <2>1, PlaceFacts DEF WriteFile, CanWrite, TypeInv, TypeOK
  <2>3. QED BY <1>2, <2>1, <2>2 DEF WriteFile, TypeInv, TypeOK
<1>5. CASE SaveData
  <2>1. job = "up" /\ at # Training
    BY <1>5, DistinctPlaces DEF SaveData
  <2>2. QED BY <1>2, <1>5, <2>1 DEF SaveData, TypeInv, TypeOK
<1>6. CASE Crash
  <2>1. tracker # global_steps
    <3>1. tracker < global_steps
      BY <1>6 DEF Crash, ResumeInv, TrackerBehind
    <3>2. tracker \in Nat /\ global_steps \in Int
      BY StepFacts, ConfigAssumption DEF TypeInv, TypeOK
    <3>3. QED BY <3>1, <3>2
  <2>2. CASE \E torn \in SUBSET BeingWritten :
               disk' = [s \in Step |-> [g \in Files |->
                          IF s = global_steps /\ g \in torn THEN Torn ELSE disk[s][g]]]
    BY <2>1, <2>2
  <2>3. CASE at[1] = "prune" /\ \E gone \in SUBSET Rank :
               disk' = [s \in Step |-> [g \in Files |->
                          IF Removed(at[2], s, g) /\ g.rank \in gone THEN Missing ELSE disk[s][g]]]
    BY <1>1, <1>6, <2>3 DEF Crash
  <2>4. QED BY <1>6, <2>2, <2>3 DEF Crash
<1>7. QED BY <1>3, <1>4, <1>5, <1>6

LEMMA ResumeTrainStep == IInv /\ TypeInv' /\ TrainStep => ResumeInv'
<1> SUFFICES ASSUME TypeOK, TypeOK', ResumeInv, TrainStep PROVE ResumeInv'
  BY DEF IInv, TypeInv
<1>1. TrackerNamed'
  BY TrackerNamedKept, ConfigAssumption DEF ResumeInv, TrainStep, TypeOK
<1>2. PICK v \in Version : /\ v.step = global_steps - 1 /\ v.run <= run /\ position = v.step
                           /\ \A p \in Worker : live[p] = v
  BY DEF ResumeInv, InLine, TrainStep
<1>3. global_steps \in Nat /\ run \in Nat /\ v.step \in Nat /\ v.step + 1 = global_steps
  BY <1>2, StepFacts DEF TrainStep, TypeOK, Version
<1>4. position' = global_steps /\ \A p \in Worker : live'[p] = ThisVersion
  BY <1>2, <1>3 DEF TrainStep, ThisVersion
<1>5. ThisVersion \in Version /\ ThisVersion.step = global_steps /\ ThisVersion.run = run
  BY <1>3 DEF ThisVersion, Version
<1>6. \A role \in Roles : ~Saved(role)
  BY SavedFacts DEF Saved, TrainStep
<1>7. CASE at' = At("prune", "actor") /\ UNCHANGED <<job, global_steps>>
  <2>1. InLine'
    BY <1>4, <1>7, DistinctPlaces, RoleFacts DEF InLine, TrainStep, ThisVersion
  <2>2. TrackerBehind'
    BY <1>7, DistinctPlaces, RoleFacts DEF TrackerBehind, ResumeInv, TrainStep
  <2>3. PathsBehind'
    BY <1>6, <1>7 DEF PathsBehind, ResumeInv, TrainStep
  <2>4. SavedSoFar'
    <3>1. \A role \in Roles : ~SavedAt(at', role)
      BY <1>7, SavedFacts
    <3>2. at'[1] = "prune" /\ at' \notin {At("tracker", ""), At("number", "")}
      BY <1>7, AtParts, DistinctPlaces, RoleFacts
    <3>3. QED BY <3>1, <3>2 DEF SavedSoFar, Saved
  <2>5. QED BY <1>1, <2>1, <2>2, <2>3, <2>4 DEF ResumeInv
<1>8. CASE EndOfStep /\ UNCHANGED at
  <2>1. at' = Training /\ at'[1] = "train" /\ global_steps' = global_steps + 1
    BY <1>8, AtParts DEF TrainStep, EndOfStep, Training
  <2>2. InLine'
    <3>1. ThisVersion.step = global_steps' - 1 /\ ThisVersion.run <= run' /\ position' = ThisVersion.step
      BY <1>3, <1>4, <1>5, <2>1 DEF TrainStep
    <3>2. QED BY <1>4, <1>5, <2>1, <3>1 DEF InLine
  <2>3. TrackerBehind'
    <3>1. tracker \in Step => tracker \in Nat /\ tracker < global_steps /\ tracker < global_steps'
      <4>1. tracker \in Step => tracker < global_steps
        BY DEF TrackerBehind, ResumeInv, TrainStep
      <4>2. QED BY <1>3, <2>1, <4>1, StepFacts
    <3>2. tracker' = tracker /\ at' # At("number", "")
      BY <2>1, DistinctPlaces DEF TrainStep
    <3>3. QED BY <3>1, <3>2 DEF TrackerBehind
  <2>4. PathsBehind'
    <3>1. \A role \in Roles : \A i \in 1..Len(saved_paths[role]) :
             saved_paths[role][i] <= global_steps /\ saved_paths[role][i] \in Nat
      <4>1. \A role \in Roles : saved_paths[role] \in Seq(Step)
        BY DEF TypeOK
      <4>2. \A role \in Roles : \A i \in 1..Len(saved_paths[role]) : saved_paths[role][i] \in Step
        BY <4>1
      <4>3. QED BY <4>2, StepFacts DEF PathsBehind, ResumeInv, TrainStep
    <3>2. \A role \in Roles : \A i \in 1..Len(saved_paths[role]) :
             saved_paths[role][i] <= global_steps'
      BY <1>3, <2>1, <3>1
    <3>3. QED BY <1>6, <3>2 DEF PathsBehind, ResumeInv, TrainStep
  <2>5. SavedSoFar'
    <3>1. \A role \in Roles : ~SavedAt(at', role)
      BY <2>1, SavedFacts
    <3>2. QED BY <2>1, <3>1, DistinctPlaces DEF SavedSoFar, Saved
  <2>6. QED BY <1>1, <2>2, <2>3, <2>4, <2>5 DEF ResumeInv
<1>9. QED BY <1>7, <1>8 DEF TrainStep

LEMMA ResumePrune == max_ckpt_to_keep # 1 /\ IInv /\ TypeInv' /\ Prune => ResumeInv'
<1> SUFFICES ASSUME max_ckpt_to_keep # 1, TypeOK, SavesAStep, TypeOK', ResumeInv, Prune PROVE ResumeInv'
  BY DEF IInv, TypeInv
<1>1. PICK role \in Roles : at = At("prune", role) /\ at[2] = role /\ at' = At("write", role)
  BY PlaceFacts DEF TypeOK, Prune, At
<1>2. \A other \in Roles : Saved(other)' <=> Saved(other)
  BY <1>1, SavedFacts, RoleFacts DEF Saved
<1>3. ~Saved(role) /\ \A other \in Roles : Saved(other) => other # role
  BY <1>1, SavedFacts, RoleFacts DEF Saved
<1>4. TrackerNamed'
  <2>1. ASSUME tracker \in Step, NEW f \in Files PROVE disk'[tracker][f] = disk[tracker][f]
    BY <2>1, TrackerSpared DEF TypeInv
  <2>2. run' >= run /\ tracker' = tracker /\ TrackerNamed
    BY ConfigAssumption DEF ResumeInv, Prune, TypeOK
  <2>3. QED BY <2>1, <2>2, TrackerNamedKept
<1>5. at # Training /\ at' # Training /\ at' \notin {At("tracker", ""), At("number", "")}
  BY <1>1, DistinctPlaces
<1>6. InLine'
  BY <1>5 DEF InLine, ResumeInv, Prune, ThisVersion, workers
<1>7. TrackerBehind'
  BY <1>5 DEF TrackerBehind, ResumeInv, Prune
<1>8. PathsBehind'
  <2> DEFINE paths == saved_paths[role]
             from == KeepStart(paths)
  <2>1. paths \in Seq(Step) /\ Len(paths) \in Nat /\ from \in 0..Len(paths)
    BY ConfigAssumption DEF TypeOK, KeepStart
  <2>2. saved_paths'[role] = SubSeq(paths, from + 1, Len(paths))
    BY <1>1 DEF Prune, TypeOK
  <2>3. /\ Len(saved_paths'[role]) = Len(paths) - from
        /\ \A i \in 1..(Len(paths) - from) : saved_paths'[role][i] = paths[i + from]
    <3> HIDE DEF from, paths
    <3>1. QED BY <2>1, <2>2
  <2>4. \A i \in 1..(Len(paths) - from) : i + from \in 1..Len(paths)
    BY <2>1
  <2>5. /\ \A i, j \in 1..Len(paths) : i < j => paths[i] < paths[j]
        /\ \A i \in 1..Len(paths) : paths[i] <= global_steps
        /\ \A i \in 1..Len(paths) : tracker \in Step /\ paths[i] <= tracker
    BY <1>3 DEF PathsBehind, ResumeInv, Prune
  <2> HIDE DEF paths, from
  <2>6. /\ \A i, j \in 1..Len(saved_paths'[role]) : i < j => saved_paths'[role][i] < saved_paths'[role][j]
        /\ \A i \in 1..Len(saved_paths'[role]) : saved_paths'[role][i] <= global_steps
        /\ \A i \in 1..Len(saved_paths'[role]) : tracker \in Step /\ saved_paths'[role][i] <= tracker
    BY <2>1, <2>3, <2>4, <2>5, SMTT(20)
  <2>7. \A other \in Roles \ {role} : saved_paths'[other] = saved_paths[other]
    BY <1>1 DEF Prune, TypeOK
  <2>8. global_steps' = global_steps /\ tracker' = tracker /\ job = "up"
    BY DEF Prune
  <2>9. ASSUME NEW other \in Roles
        PROVE  /\ \A i, j \in 1..Len(saved_paths'[other]) : i < j => saved_paths'[other][i] < saved_paths'[other][j]
               /\ \A i \in 1..Len(saved_paths'[other]) : saved_paths'[other][i] <= global_steps'
               /\ ~Saved(other)' => \A i \in 1..Len(saved_paths'[other]) :
                                      tracker' \in Step /\ saved_paths'[other][i] <= tracker'
    <3>1. CASE other = role
      BY <2>6, <2>8, <3>1
    <3>2. CASE other # role
      <4>1. saved_paths'[other] = saved_paths[other]
        BY <2>7, <3>2
      <4>2. QED BY <1>2, <2>8, <4>1 DEF PathsBehind, ResumeInv
    <3>3. QED BY <3>1, <3>2
  <2>10. QED BY <2>9 DEF PathsBehind
<1>9. SavedSoFar'
  <2>1. ASSUME NEW other \in Roles, Saved(other)', NEW f \in WorkerFiles(other)
        PROVE  disk'[global_steps'][f] = ThisVersion'
    <3>1. Saved(other) /\ other # role
      BY <1>2, <1>3, <2>1
    <3>2. f \in Files /\ f \notin WorkerFiles(role)
      BY <2>1, <3>1, FilesFacts
    <3>3. global_steps \in Step
      BY <1>5, <1>1 DEF ResumeInv, Prune, TypeOK, SavesAStep
    <3>4. disk'[global_steps][f] = disk[global_steps][f]
      BY <1>1, <3>2, <3>3 DEF Prune, Removed
    <3>5. QED BY <2>1, <3>1, <3>4 DEF SavedSoFar, ResumeInv, Prune, ThisVersion
  <2>2. \A r \in Rank : 1..written'[r] = {} /\ written'[r] <= Len(FilesOf(at'[2]))
    <3>1. Len(FilesOf(role)) \in {2, 3} /\ at'[2] = role
      BY <1>1, FilesFacts, AtParts
    <3>2. \A r \in Rank : written'[r] = 0
      BY DEF Prune
    <3>3. QED BY <3>1, <3>2
  <2>3. QED BY <1>5, <2>1, <2>2 DEF SavedSoFar
<1>10. QED BY <1>4, <1>6, <1>7, <1>8, <1>9 DEF ResumeInv

LEMMA ResumeWriteFile ==
  ASSUME NEW r \in Rank
  PROVE  max_ckpt_to_keep # 1 /\ IInv /\ TypeInv' /\ WriteFile(r) => ResumeInv'
<1> SUFFICES ASSUME max_ckpt_to_keep # 1, TypeOK, SavesAStep, TypeOK', ResumeInv, WriteFile(r) PROVE ResumeInv'
  BY DEF IInv, TypeInv
<1> DEFINE role == at[2]
<1>1. /\ role \in Roles /\ at[1] = "write" /\ at # Training /\ job = "up"
      /\ global_steps \in Step /\ written[r] + 1 \in 1..Len(FilesOf(role)) /\ written[r] \in 0..3
  <2>1. at[2] \in Roles /\ at[1] = "write" /\ at # Training /\ job = "up" /\ global_steps \in Step
    BY PlaceFacts DEF TypeOK, SavesAStep, WriteFile, CanWrite
  <2>2. written[r] \in 0..3 /\ written[r] < Len(FilesOf(role)) /\ Len(FilesOf(role)) \in {2, 3}
    BY <2>1, FilesFacts DEF TypeOK, WriteFile, CanWrite
  <2>3. QED BY <2>1, <2>2
<1>2. NextFile(r) = File(role, r, FilesOf(role)[written[r] + 1]) /\ NextFile(r) \in WorkerFiles(role)
      /\ NextFile(r) \in Files /\ NextFile(r) # DataFile
  BY <1>1, FilesFacts DEF NextFile
<1>3. live[[role |-> at[2], rank |-> r]] = ThisVersion
  BY <1>1 DEF ResumeInv, InLine, Worker
<1>4. /\ UNCHANGED <<job, at, global_steps, run, live, position, saved_paths, tracker>>
      /\ ThisVersion' = ThisVersion
  BY DEF WriteFile, driver, workers, ThisVersion
<1>5. /\ disk'[global_steps][NextFile(r)] = ThisVersion
      /\ \A f \in Files : f # NextFile(r) => disk'[global_steps][f] = disk[global_steps][f]
      /\ \A s \in Step : s # global_steps => disk'[s] = disk[s]
  BY <1>1, <1>2, <1>3 DEF WriteFile, TypeOK
<1>6. TrackerNamed'
  <2>1. tracker \in Step => \A f \in Files : disk'[tracker][f] = disk[tracker][f]
    BY TrackerSpared DEF TypeInv
  <2>2. run' >= run /\ tracker' = tracker /\ TrackerNamed
    BY <1>4, ConfigAssumption DEF ResumeInv, TypeOK
  <2>3. QED BY <2>1, <2>2, TrackerNamedKept
<1>7. InLine' /\ TrackerBehind'
  BY <1>1, <1>4 DEF InLine, TrackerBehind, ResumeInv
<1>8. PathsBehind'
  BY <1>4 DEF PathsBehind, ResumeInv, Saved
<1>9. SavedSoFar'
  <2>1. ASSUME NEW other \in Roles, Saved(other)', NEW f \in WorkerFiles(other)
        PROVE  disk'[global_steps'][f] = ThisVersion'
    <3>1. disk[global_steps][f] = ThisVersion /\ f \in Files
      BY <1>1, <1>4, <2>1, FilesFacts DEF ResumeInv, SavedSoFar, Saved
    <3>2. QED BY <1>4, <1>5, <3>1
  <2>2. ASSUME NEW q \in Rank, NEW i \in 1..written'[q]
        PROVE  disk'[global_steps'][File(at'[2], q, FilesOf(at'[2])[i])] = ThisVersion'
    <3>1. CASE q = r /\ i = written[r] + 1
      BY <1>2, <1>4, <1>5, <3>1
    <3>2. CASE ~(q = r /\ i = written[r] + 1)
      <4>1. i \in 1..written[q] /\ i \in 1..Len(FilesOf(role))
        <5>1. written'[q] = (IF q = r THEN written[r] + 1 ELSE written[q])
          BY DEF WriteFile, TypeOK
        <5>2. i \in 1..written[q]
          BY <1>1, <2>2, <3>2, <5>1
        <5>3. written[q] <= Len(FilesOf(role)) /\ written[q] \in Nat /\ Len(FilesOf(role)) \in Nat
          <6>1. written[q] <= Len(FilesOf(role)) /\ Len(FilesOf(role)) \in {2, 3}
            BY <1>1, FilesFacts DEF ResumeInv, SavedSoFar
          <6>2. written[q] \in 0..3
            BY DEF TypeOK
          <6>3. QED BY <6>1, <6>2
        <5>4. QED BY <5>2, <5>3
      <4>2. File(role, q, FilesOf(role)[i]) \in Files
        BY <1>1, <4>1, FilesFacts
      <4>3. disk[global_steps][File(role, q, FilesOf(role)[i])] = ThisVersion
        BY <1>1, <4>1 DEF ResumeInv, SavedSoFar
      <4>4. QED BY <1>4, <1>5, <4>2, <4>3
    <3>3. QED BY <3>1, <3>2
  <2>3. at' \notin {At("tracker", ""), At("number", "")}
    <3>1. at[1] = "write" /\ At("tracker", "")[1] = "tracker" /\ At("number", "")[1] = "number"
      BY <1>1, AtParts
    <3>2. QED BY <1>4, <3>1
  <2>4. ASSUME NEW q \in Rank PROVE written'[q] <= Len(FilesOf(at'[2]))
    <3>1. written[q] <= Len(FilesOf(role)) /\ Len(FilesOf(role)) \in {2, 3}
      BY <1>1, FilesFacts DEF ResumeInv, SavedSoFar
    <3>2. written'[q] = (IF q = r THEN written[r] + 1 ELSE written[q])
      BY DEF WriteFile, TypeOK
    <3>3. QED BY <1>1, <1>4, <3>1, <3>2
  <2>5. QED BY <2>1, <2>2, <2>3, <2>4 DEF SavedSoFar
<1>10. QED BY <1>6, <1>7, <1>8, <1>9 DEF ResumeInv

LEMMA ResumeWorkersSaved == IInv /\ TypeInv' /\ WorkersSaved => ResumeInv'
<1> SUFFICES ASSUME TypeOK, SavesAStep, TypeOK', ResumeInv, WorkersSaved PROVE ResumeInv'
  BY DEF IInv, TypeInv
<1>1. PICK role \in Roles : at = At("write", role) /\ at[2] = role /\ at[1] = "write"
  BY PlaceFacts DEF TypeOK, WorkersSaved, At
<1>2. job = "up" /\ at # Training /\ global_steps \in Step
  BY <1>1, DistinctPlaces DEF SavesAStep, WorkersSaved
<1>3. /\ UNCHANGED <<job, global_steps, run, live, position, disk, tracker>>
      /\ ThisVersion' = ThisVersion
  BY DEF WorkersSaved, workers, ThisVersion
<1>4. /\ at' = At("data", "") \/ (at' = At("prune", "critic") /\ role = "actor" /\ "critic" \in Roles)
      /\ at' = At("data", "") => (role = "critic" \/ Roles = {"actor"})
  <2>1. CASE use_critic /\ role = "actor"
    <3>1. at' = At("prune", "critic") /\ "critic" \in Roles
      BY <1>1, <2>1 DEF WorkersSaved, Roles
    <3>2. QED BY <2>1, <3>1, DistinctPlaces
  <2>2. CASE ~(use_critic /\ role = "actor")
    <3>1. at' = At("data", "")
      BY <1>1, <2>2 DEF WorkersSaved
    <3>2. role = "critic" \/ Roles = {"actor"}
      BY <2>2, RoleFacts DEF Roles
    <3>3. QED BY <3>1, <3>2
  <2>3. QED BY <2>1, <2>2
<1>5. \A other \in Roles : Saved(other)' <=> Saved(other) \/ other = role
  <2>1. CASE at' = At("data", "")
    BY <1>1, <1>4, <2>1, SavedFacts, RoleFacts DEF Saved
  <2>2. CASE at' = At("prune", "critic")
    BY <1>1, <1>4, <2>2, SavedFacts, RoleFacts, DistinctPlaces, AtParts DEF Saved
  <2>3. QED BY <1>4, <2>1, <2>2
<1>6. /\ at' # Training /\ at' \notin {At("tracker", ""), At("number", "")}
      /\ at'[1] # "write"
  BY <1>4, DistinctPlaces, AtParts
<1>7. TrackerNamed'
  <2>1. run' >= run /\ TrackerNamed
    BY <1>3, ConfigAssumption DEF ResumeInv, TypeOK
  <2>2. QED BY <1>3, <2>1, TrackerNamedKept
<1>8. InLine' /\ TrackerBehind'
  BY <1>2, <1>3, <1>6 DEF InLine, TrackerBehind, ResumeInv
<1>9. PathsBehind'
  <2> DEFINE paths == saved_paths[role]
  <2>1. paths \in Seq(Step) /\ saved_paths'[role] = Append(paths, global_steps)
    BY <1>1 DEF WorkersSaved, TypeOK
  <2>2. \A i \in 1..Len(paths) : paths[i] \in Step
    BY <2>1
  <2>3. \A i \in 1..Len(paths) : paths[i] < global_steps
    <3>1. ~Saved(role)
      BY <1>1, SavedFacts, RoleFacts DEF Saved
    <3>2. \A i \in 1..Len(paths) : tracker \in Step /\ paths[i] <= tracker
      BY <1>2, <3>1 DEF ResumeInv, PathsBehind
    <3>3. tracker \in Step => tracker < global_steps
      BY <1>2 DEF ResumeInv, TrackerBehind
    <3> HIDE DEF paths
    <3>4. ASSUME NEW i \in 1..Len(paths) PROVE paths[i] < global_steps
      <4>1. tracker \in Nat /\ global_steps \in Nat /\ paths[i] \in Nat
        BY <1>2, <2>2, <3>2, StepFacts
      <4>2. paths[i] <= tracker /\ tracker < global_steps
        BY <3>2, <3>3
      <4>3. QED BY <4>1, <4>2
    <3>5. QED BY <3>4
  <2>4. \A i, j \in 1..Len(paths) : i < j => paths[i] < paths[j]
    BY <1>2 DEF ResumeInv, PathsBehind
  <2> HIDE DEF paths
  <2>5. /\ Len(saved_paths'[role]) = Len(paths) + 1 /\ Len(paths) \in Nat
        /\ saved_paths'[role][Len(paths) + 1] = global_steps
        /\ \A i \in 1..Len(paths) : saved_paths'[role][i] = paths[i]
    BY <2>1
  <2>6. \A i \in 1..(Len(paths) + 1) : i \in 1..Len(paths) \/ i = Len(paths) + 1
    BY <2>5
  <2>7. /\ \A i, j \in 1..Len(saved_paths'[role]) : i < j => saved_paths'[role][i] < saved_paths'[role][j]
        /\ \A i \in 1..Len(saved_paths'[role]) : saved_paths'[role][i] <= global_steps
    <3>1. global_steps \in Nat /\ \A i \in 1..Len(paths) : paths[i] \in Nat
      BY <1>2, <2>2, StepFacts
    <3>2. ASSUME NEW i \in 1..(Len(paths) + 1)
          PROVE  saved_paths'[role][i] <= global_steps
      BY <2>3, <2>5, <2>6, <3>1
    <3>3. ASSUME NEW i \in 1..(Len(paths) + 1), NEW j \in 1..(Len(paths) + 1), i < j
          PROVE  saved_paths'[role][i] < saved_paths'[role][j]
      <4>1. i \in 1..Len(paths)
        BY <2>5, <3>3
      <4>2. CASE j \in 1..Len(paths)
        BY <2>4, <2>5, <3>3, <4>1, <4>2
      <4>3. CASE j = Len(paths) + 1
        BY <2>3, <2>5, <4>1, <4>3
      <4>4. QED BY <2>6, <4>2, <4>3
    <3>4. QED BY <2>5, <3>2, <3>3
  <2>8. \A other \in Roles \ {role} : saved_paths'[other] = saved_paths[other]
    BY <1>1 DEF WorkersSaved, TypeOK
  <2>9. ASSUME NEW other \in Roles
        PROVE  /\ \A i, j \in 1..Len(saved_paths'[other]) : i < j => saved_paths'[other][i] < saved_paths'[other][j]
               /\ \A i \in 1..Len(saved_paths'[other]) : saved_paths'[other][i] <= global_steps'
               /\ ~Saved(other)' => \A i \in 1..Len(saved_paths'[other]) :
                                      tracker' \in Step /\ saved_paths'[other][i] <= tracker'
    <3>1. CASE other = role
      BY <1>3, <1>5, <2>7, <3>1
    <3>2. CASE other # role
      <4>1. saved_paths'[other] = saved_paths[other]
        BY <2>8, <3>2
      <4>2. QED BY <1>2, <1>3, <1>5, <3>2, <4>1 DEF PathsBehind, ResumeInv
    <3>3. QED BY <3>1, <3>2
  <2>10. QED BY <2>9 DEF PathsBehind
<1>10. SavedSoFar'
  <2>1. ASSUME NEW other \in Roles, Saved(other)', NEW f \in WorkerFiles(other)
        PROVE  disk'[global_steps'][f] = ThisVersion'
    <3>1. CASE Saved(other)
      BY <1>2, <1>3, <2>1, <3>1 DEF SavedSoFar, ResumeInv
    <3>2. CASE other = role
      <4>1. PICK r \in Rank : \E i \in 1..Len(FilesOf(role)) : f = File(role, r, FilesOf(role)[i])
        BY <2>1, <3>2, WrittenFiles
      <4>2. PICK i \in 1..Len(FilesOf(role)) : f = File(role, r, FilesOf(role)[i])
        BY <4>1
      <4>3. written[r] = Len(FilesOf(role))
        BY <1>1 DEF WorkersSaved, AllWritten
      <4>4. QED BY <1>1, <1>2, <1>3, <4>2, <4>3 DEF SavedSoFar, ResumeInv
    <3>3. QED BY <1>5, <2>1, <3>1, <3>2
  <2>2. QED BY <1>6, <2>1 DEF SavedSoFar
<1>11. QED BY <1>7, <1>8, <1>9, <1>10 DEF ResumeInv

LEMMA ResumeSaveData == max_ckpt_to_keep # 1 /\ IInv /\ TypeInv' /\ SaveData => ResumeInv'
<1> SUFFICES ASSUME max_ckpt_to_keep # 1, TypeOK, SavesAStep, TypeOK', ResumeInv, SaveData PROVE ResumeInv'
  BY DEF IInv, TypeInv
<1>1. /\ job = "up" /\ at # Training /\ global_steps \in Step
      /\ at' # Training /\ at' # At("number", "") /\ at'[1] = "tracker"
  BY DistinctPlaces, AtParts DEF SavesAStep, SaveData
<1>2. /\ UNCHANGED <<job, global_steps, run, live, position, saved_paths, tracker>>
      /\ ThisVersion' = ThisVersion
  BY DEF SaveData, workers, ThisVersion
<1>3. [step |-> DataState, run |-> run] = ThisVersion
  BY <1>1 DEF DataState, ThisVersion, ResumeInv, InLine
<1>4. /\ disk'[global_steps][DataFile] = ThisVersion
      /\ \A f \in Files : f # DataFile => disk'[global_steps][f] = disk[global_steps][f]
      /\ \A s \in Step : s # global_steps => disk'[s] = disk[s]
  <2>1. disk' = [disk EXCEPT ![global_steps][DataFile] = ThisVersion]
    BY <1>3 DEF SaveData
  <2>2. DataFile \in Files
    BY FilesFacts
  <2> HIDE DEF ThisVersion
  <2>3. QED BY <1>1, <2>1, <2>2 DEF TypeOK
<1>5. \A role \in Roles : Saved(role)' /\ Saved(role)
  BY SavedFacts DEF Saved, SaveData
<1>6. TrackerNamed'
  <2>1. tracker \in Step => \A f \in Files : disk'[tracker][f] = disk[tracker][f]
    BY TrackerSpared DEF TypeInv
  <2>2. run' >= run /\ tracker' = tracker /\ TrackerNamed
    BY <1>2, ConfigAssumption DEF ResumeInv, TypeOK
  <2>3. QED BY <2>1, <2>2, TrackerNamedKept
<1>7. InLine' /\ TrackerBehind'
  BY <1>1, <1>2 DEF InLine, TrackerBehind, ResumeInv
<1>8. PathsBehind'
  BY <1>2, <1>5 DEF PathsBehind, ResumeInv
<1>9. SavedSoFar'
  <2>1. ASSUME NEW role \in Roles, NEW f \in WorkerFiles(role)
        PROVE  disk'[global_steps'][f] = ThisVersion'
    <3>1. f \in Files /\ f # DataFile
      BY <2>1, FilesFacts
    <3>2. QED BY <1>1, <1>2, <1>4, <1>5, <2>1, <3>1 DEF SavedSoFar, ResumeInv
  <2>2. QED BY <1>1, <1>2, <1>4, <2>1 DEF SavedSoFar
<1>10. QED BY <1>6, <1>7, <1>8, <1>9 DEF ResumeInv

LEMMA ResumeOpenTracker == IInv /\ TypeInv' /\ OpenTracker => ResumeInv'
<1> SUFFICES ASSUME TypeOK, SavesAStep, TypeOK', ResumeInv, OpenTracker PROVE ResumeInv'
  BY DEF IInv, TypeInv
<1>1. /\ job = "up" /\ at # Training /\ at' # Training /\ at'[1] = "number"
      /\ tracker' = Torn /\ Torn \notin Step /\ at = At("tracker", "")
  BY DistinctPlaces, AtParts, StepFacts DEF OpenTracker
<1>2. /\ UNCHANGED <<job, global_steps, run, live, position, saved_paths, disk>>
      /\ ThisVersion' = ThisVersion
  BY DEF OpenTracker, workers, ThisVersion
<1>3. \A role \in Roles : Saved(role)' /\ Saved(role)
  BY SavedFacts DEF Saved, OpenTracker
<1>4. TrackerNamed' /\ TrackerBehind'
  BY <1>1 DEF TrackerNamed, TrackerBehind
<1>5. InLine'
  BY <1>1, <1>2 DEF InLine, ResumeInv
<1>6. PathsBehind'
  BY <1>2, <1>3 DEF PathsBehind, ResumeInv
<1>7. SavedSoFar'
  BY <1>1, <1>2, <1>3 DEF SavedSoFar, ResumeInv
<1>8. QED BY <1>4, <1>5, <1>6, <1>7 DEF ResumeInv

LEMMA ResumeCloseTracker == IInv /\ TypeInv' /\ CloseTracker => ResumeInv'
<1> SUFFICES ASSUME TypeOK, SavesAStep, TypeOK', ResumeInv, CloseTracker PROVE ResumeInv'
  BY DEF IInv, TypeInv
<1>1. /\ job = "up" /\ at # Training /\ at = At("number", "") /\ global_steps \in Step
      /\ at' = Training /\ tracker' = global_steps /\ global_steps' = global_steps + 1
  BY DistinctPlaces DEF SavesAStep, CloseTracker, EndOfStep
<1>2. UNCHANGED <<run, live, position, saved_paths, disk>>
  BY DEF CloseTracker, workers
<1>3. global_steps \in Nat /\ run \in Nat
  <2>1. global_steps \in Nat
    BY <1>1, StepFacts
  <2>2. run \in Nat
    BY ConfigAssumption DEF TypeOK
  <2>3. QED BY <2>1, <2>2
<1>4. /\ global_steps' - 1 = global_steps /\ global_steps' > global_steps
       /\ global_steps' \in Int
  <2>1. global_steps' = global_steps + 1
    BY <1>1
  <2>2. global_steps \in Nat
    BY <1>3
  <2>3. \A n, m \in Int : m = n + 1 => m - 1 = n /\ m > n
    OBVIOUS
  <2>4. global_steps' \in Int
    BY <2>1, <2>2
  <2>5. global_steps \in Int
    BY <2>2
  <2>6. QED BY <2>1, <2>3, <2>4, <2>5
<1>5. ThisVersion \in Version /\ ThisVersion.step = global_steps /\ ThisVersion.run = run
  BY <1>3 DEF ThisVersion, Version
<1>6. \A f \in Files : disk[global_steps][f] = ThisVersion
  <2>1. \A role \in Roles : Saved(role)
    BY <1>1, SavedFacts DEF Saved
  <2>2. QED BY <1>1, <2>1, FilesFacts DEF ResumeInv, SavedSoFar
<1>7. TrackerNamed'
  <2>1. ThisVersion.run <= run' /\ \A f \in Files : disk'[tracker'][f] = ThisVersion
    <3>1. run' = run /\ disk' = disk /\ tracker' = global_steps
      BY <1>1, <1>2
    <3>2. ThisVersion.run <= run'
      BY <1>3, <1>5, <3>1
    <3>3. QED BY <1>6, <3>1, <3>2
  <2>2. QED BY <1>1, <1>5, <2>1 DEF TrackerNamed, Named
<1>8. InLine'
  <2>1. position = global_steps /\ \A p \in Worker : live[p] = ThisVersion
    BY <1>1 DEF ResumeInv, InLine
  <2>2. /\ ThisVersion.step = global_steps' - 1 /\ ThisVersion.run <= run'
        /\ position' = ThisVersion.step /\ \A p \in Worker : live'[p] = ThisVersion
    <3>1. run' = run /\ position' = position /\ live' = live
      BY <1>2
    <3>2. global_steps' - 1 = global_steps /\ ThisVersion.run <= run'
      <4>1. ThisVersion.run <= run'
        BY <1>3, <1>5, <3>1
      <4>2. QED BY <1>4, <4>1
    <3>3. QED BY <1>5, <2>1, <3>1, <3>2
  <2>3. QED BY <1>1, <1>5, <2>2 DEF InLine
<1>9. TrackerBehind'
  <2>1. tracker' < global_steps'
    BY <1>1, <1>3, <1>4
  <2>2. QED BY <1>1, <2>1, DistinctPlaces DEF TrackerBehind
<1>10. PathsBehind'
  <2>1. ASSUME NEW role \in Roles, NEW i \in 1..Len(saved_paths[role])
        PROVE  saved_paths[role][i] <= global_steps /\ saved_paths[role][i] <= global_steps'
    <3>1. saved_paths[role][i] <= global_steps
      BY <1>1 DEF PathsBehind, ResumeInv
    <3>2. saved_paths[role] \in Seq(Step)
      BY DEF TypeOK
    <3>3. saved_paths[role][i] \in Step
      BY <3>2
    <3>4. saved_paths[role][i] \in Nat
      BY <3>3, StepFacts
    <3>5. QED BY <1>3, <1>4, <3>1, <3>4
  <2>2. QED BY <1>1, <1>2, <2>1 DEF PathsBehind, ResumeInv
<1>11. SavedSoFar'
  <2>1. at'[1] = "train" /\ at' \notin {At("tracker", ""), At("number", "")}
    BY <1>1, AtParts, DistinctPlaces DEF Training
  <2>2. \A role \in Roles : ~SavedAt(at', role)
    BY <1>1, SavedFacts
  <2>3. QED BY <2>1, <2>2 DEF SavedSoFar, Saved
<1>12. QED BY <1>7, <1>8, <1>9, <1>10, <1>11 DEF ResumeInv

\* A process that is not running owes nothing but the checkpoint of the tracker.
LEMMA NotRunning ==
  ASSUME job' # "up", TrackerNamed' PROVE ResumeInv'
  BY DEF ResumeInv, InLine, TrackerBehind, PathsBehind, SavedSoFar

LEMMA ResumeCrash == max_ckpt_to_keep # 1 /\ IInv /\ TypeInv' /\ Crash => ResumeInv'
<1> SUFFICES ASSUME max_ckpt_to_keep # 1, TypeOK, SavesAStep, TypeOK', ResumeInv, Crash PROVE ResumeInv'
  BY DEF IInv, TypeInv
<1>1. ASSUME tracker \in Step, NEW f \in Files PROVE disk'[tracker][f] = disk[tracker][f]
  BY <1>1, TrackerSpared DEF TypeInv
<1>2. run' >= run /\ tracker' = tracker /\ TrackerNamed
  BY ConfigAssumption DEF ResumeInv, Crash, TypeOK
<1>3. TrackerNamed'
  BY <1>1, <1>2, TrackerNamedKept
<1>4. QED BY <1>3, NotRunning DEF Crash

\* A process starts in a state that is in line, given what it loads.
LEMMA Started ==
  ASSUME TypeInv, CanStart, TypeOK', TrackerNamed, NEW s \in Nat, Start(s),
         tracker \in Step => tracker <= s,
         NEW v \in Version, v.step = s, v.run <= run, position' = s,
         \A p \in Worker : live'[p] = v
  PROVE  ResumeInv'
<1>1. /\ at' = Training /\ global_steps' = s + 1 /\ run' = run + 1 /\ tracker' = tracker
      /\ disk' = disk /\ saved_paths' = [role \in Roles |-> <<>>]
  BY DEF CanStart, Start, FirstStep, TypeInv, SavesAStep
<1>2. run \in Nat
  BY ConfigAssumption DEF TypeInv, TypeOK
<1>3. TrackerNamed'
  BY <1>1, <1>2, TrackerNamedKept DEF TypeInv
<1>4. InLine'
  <2>1. v.step = global_steps' - 1 /\ v.run <= run' /\ position' = v.step
    BY <1>1, <1>2 DEF Version
  <2>2. QED BY <1>1, <2>1 DEF InLine
<1>5. TrackerBehind'
  <2>1. tracker \in Step => tracker' < global_steps'
    BY <1>1, StepFacts
  <2>2. QED BY <1>1, <2>1, DistinctPlaces DEF TrackerBehind
<1>6. PathsBehind'
  BY <1>1 DEF PathsBehind
<1>7. SavedSoFar'
  <2>1. at'[1] = "train" /\ at' \notin {At("tracker", ""), At("number", "")}
    BY <1>1, AtParts, DistinctPlaces DEF Training
  <2>2. \A role \in Roles : ~SavedAt(at', role)
    BY <1>1, SavedFacts
  <2>3. QED BY <2>1, <2>2 DEF SavedSoFar, Saved
<1>8. QED BY <1>3, <1>4, <1>5, <1>6, <1>7 DEF ResumeInv

\* What a run that loads the folder of the tracker gets.
LEMMA LoadedVersion ==
  ASSUME TypeOK, TrackerNamed, tracker \in Step, Load(tracker)
  PROVE  \E v \in Version : /\ v.step = tracker /\ v.run <= run /\ position' = tracker
                            /\ \A p \in Worker : live'[p] = v
                            /\ \A f \in Files : disk[tracker][f] = v
<1>1. PICK v \in Version : v.step = tracker /\ v.run <= run /\ \A f \in Files : disk[tracker][f] = v
  BY DEF TrackerNamed, Named
<1>2. position' = tracker
  BY <1>1, FilesFacts, ContentFacts DEF Load
<1>3. ASSUME NEW p \in Worker PROVE live'[p] = v
  <2>1. File(p.role, p.rank, "model") \in Files
    <3>1. p.role \in Roles
      BY DEF Worker
    <3>2. QED BY <3>1, LoadableFacts, FilesFacts DEF Load
  <2>2. QED BY <1>1, <2>1 DEF Load
<1>4. QED BY <1>1, <1>2, <1>3

LEMMA ResumeResume == ResumeModes = {"auto"} /\ IInv /\ TypeInv' /\ Resume => ResumeInv'
<1> SUFFICES ASSUME ResumeModes = {"auto"}, TypeInv, TypeOK', ResumeInv, Resume PROVE ResumeInv'
  BY DEF IInv, TypeInv
<1>1. ResumeAuto
  BY DEF Resume, ResumeDisabled, ResumePath
<1>2. CASE tracker = Missing /\ Scratch
  <2>1. Fresh \in Version /\ Fresh.step = 0 /\ Fresh.run <= run
    BY ConfigAssumption, ContentFacts DEF Fresh, TypeInv, TypeOK
  <2>2. \A p \in Worker : live'[p] = Fresh
    BY <1>2 DEF Scratch
  <2>3. position' = 0 /\ Start(0) /\ tracker \notin Step
    BY <1>2, StepFacts DEF Scratch
  <2>4. CanStart /\ TrackerNamed
    BY <1>1 DEF ResumeAuto, ResumeInv
  <2>5. QED BY <2>1, <2>2, <2>3, <2>4, Started
<1>3. CASE Refuse
  <2>1. run' >= run /\ tracker' = tracker /\ TrackerNamed /\ disk' = disk
    BY <1>3, ConfigAssumption DEF Refuse, ResumeInv, TypeInv, TypeOK
  <2>2. TrackerNamed'
    BY <2>1, TrackerNamedKept DEF TypeInv
  <2>3. QED BY <1>3, <2>2, NotRunning DEF Refuse
<1>4. CASE tracker \in Step /\ Load(tracker)
  <2>1. PICK v \in Version : /\ v.step = tracker /\ v.run <= run /\ position' = tracker
                             /\ \A p \in Worker : live'[p] = v
    BY <1>4, LoadedVersion DEF TypeInv, ResumeInv
  <2>2. CanStart /\ TrackerNamed /\ Start(tracker) /\ tracker \in Nat
    BY <1>1, <1>4, StepFacts DEF ResumeAuto, ResumeInv, Load
  <2>3. QED BY <2>1, <2>2, Started
<1>5. QED BY <1>1, <1>2, <1>3, <1>4 DEF ResumeAuto, LoadOrRefuse

LEMMA ResumeStep == AutoKeepsTwo /\ IInv /\ [Next]_vars => IInv'
<1> SUFFICES ASSUME AutoKeepsTwo, IInv, [Next]_vars PROVE ResumeInv'
  BY TypeStep DEF IInv
<1>1. TypeInv'
  BY TypeStep DEF IInv
<1>2. CASE TrainStep
  BY <1>1, <1>2, ResumeTrainStep
<1>3. CASE Save
  BY <1>1, <1>3, ResumePrune, ResumeWriteFile, ResumeWorkersSaved, ResumeSaveData,
     ResumeOpenTracker, ResumeCloseTracker DEF Save, AutoKeepsTwo
<1>4. CASE Crash
  BY <1>1, <1>4, ResumeCrash DEF AutoKeepsTwo
<1>5. CASE Resume
  BY <1>1, <1>5, ResumeResume DEF AutoKeepsTwo
<1>6. CASE UNCHANGED vars
  BY <1>6 DEF IInv, ResumeInv, TrackerNamed, Named, InLine, TrackerBehind, PathsBehind,
              SavedSoFar, Saved, ThisVersion, vars, driver, workers
<1>7. QED BY <1>2, <1>3, <1>4, <1>5, <1>6 DEF Next, Over

LEMMA NamedIsStored ==
  ASSUME NEW t \in Step, NEW v \in Version, \A f \in Files : disk[t][f] = v
  PROVE  Stored(t) = v
<1>1. disk[t][DataFile] = v /\ Whole(t, Files)
  BY FilesFacts, ContentFacts DEF Whole
<1>2. QED BY <1>1 DEF Stored

\* With resume_mode auto and at least two saves kept (or all of them), the tracker
\* names a checkpoint that is all there and of its step, whatever crashed when.
THEOREM TrackerCorrect ==
  ASSUME AutoKeepsTwo PROVE Spec => []TrackerNamesCheckpoint
<1>1. Init => IInv
  BY TypeInit, ResumeInit DEF IInv
<1>2. IInv /\ [Next]_vars => IInv'
  BY ResumeStep
<1>3. IInv => TrackerNamesCheckpoint
  <2> SUFFICES ASSUME TypeOK, TrackerNamed, tracker \in Step
               PROVE  Stored(tracker) \in Version /\ Stored(tracker).step = tracker
    BY DEF IInv, TypeInv, ResumeInv, TrackerNamesCheckpoint
  <2>1. PICK v \in Version : v.step = tracker /\ \A f \in Files : disk[tracker][f] = v
    BY DEF TrackerNamed, Named
  <2>2. QED BY <2>1, NamedIsStored
<1>4. QED BY <1>1, <1>2, <1>3, PTL DEF Spec

-----------------------------------------------------------------------------
(* The refinement of Resumption.                                           *)

\* What Resumption calls stored, as Checkpoint substitutes it.
StoredNow == IF tracker = Missing THEN Fresh
             ELSE IF tracker = Torn THEN Torn ELSE Stored(tracker)

LEMMA RootWorker == [role |-> "actor", rank |-> Root] \in Worker
  BY RoleFacts, RankAssumption DEF Worker

LEMMA LiveIs ==
  ASSUME NEW v \in Version, position = v.step, \A p \in Worker : live[p] = v
  PROVE  Live = v
  BY RootWorker DEF Live

LEMMA NextLiveIs ==
  ASSUME NEW v \in Version, position' = v.step, \A p \in Worker : live'[p] = v
  PROVE  Live' = v
  BY RootWorker DEF Live

LEMMA NextStoredIs ==
  ASSUME tracker' \in Step, NEW v \in Version, \A f \in Files : disk'[tracker'][f] = v
  PROVE  StoredNow' = v
<1>1. disk'[tracker'][DataFile] = v /\ Whole(tracker, Files)'
  BY FilesFacts, ContentFacts DEF Whole
<1>2. tracker' # Missing /\ tracker' # Torn
  BY StepFacts
<1>3. QED BY <1>1, <1>2 DEF StoredNow, Stored

LEMMA StoredIs ==
  ASSUME tracker \in Step, NEW v \in Version, \A f \in Files : disk[tracker][f] = v
  PROVE  StoredNow = v
  BY NamedIsStored, StepFacts DEF StoredNow

\* A step that leaves the tracker and its folder alone leaves StoredNow alone.
LEMMA StoredKept ==
  ASSUME TypeInv, TrackerNamed, tracker' = tracker,
         tracker \in Step => \A f \in Files : disk'[tracker][f] = disk[tracker][f]
  PROVE  StoredNow' = StoredNow
<1>1. CASE tracker \in Step
  <2>1. PICK v \in Version : \A f \in Files : disk[tracker][f] = v
    BY <1>1 DEF TrackerNamed, Named
  <2>2. \A f \in Files : disk'[tracker'][f] = v
    BY <1>1, <2>1
  <2>3. StoredNow = v
    BY <1>1, <2>1, StoredIs
  <2>4. StoredNow' = v
    BY <1>1, <2>1, <2>2, NextStoredIs
  <2>5. QED BY <2>3, <2>4
<1>2. CASE tracker \in {Missing, Torn}
  BY <1>2 DEF StoredNow
<1>3. QED BY <1>1, <1>2 DEF TypeInv, TypeOK

LEMMA LiveKept == UNCHANGED workers => Live' = Live
  BY DEF workers, Live

LEMMA RefineInit == Init => Promise!Init
<1> SUFFICES ASSUME Init PROVE Live = Fresh /\ StoredNow = Fresh
  BY DEF Promise!Init, Promise!Fresh, StoredNow, Fresh
<1>1. Fresh \in Version /\ Fresh.step = 0
  BY ContentFacts DEF Fresh
<1>2. Live = Fresh
  BY <1>1, LiveIs DEF Init
<1>3. QED BY <1>2 DEF Init, StoredNow

LEMMA RefineTrain ==
  ASSUME IInv, TrainStep PROVE Promise!Train
<1>1. PICK v \in Version : /\ v.step = global_steps - 1 /\ v.run <= run /\ position = v.step
                           /\ \A p \in Worker : live[p] = v
  BY DEF IInv, ResumeInv, InLine, TrainStep
<1> DEFINE w == [step |-> v.step + 1, run |-> run]
<1>2. w \in Version /\ w.step = v.step + 1 /\ w.run = run /\ run >= v.run
  BY <1>1, ConfigAssumption DEF IInv, TypeInv, TypeOK, Version
<1>3. position' = w.step /\ \A p \in Worker : live'[p] = w
  BY <1>1, <1>2 DEF TrainStep
<1>4. Live = v
  BY <1>1, LiveIs
<1> HIDE DEF w
<1>5. Live' = w
  BY <1>2, <1>3, NextLiveIs
<1>6. StoredNow' = StoredNow
  BY StoredKept DEF IInv, ResumeInv, TrainStep
<1>7. w = [step |-> v.step + 1, run |-> w.run]
  BY <1>2 DEF w
<1>8. QED BY <1>2, <1>4, <1>5, <1>6, <1>7 DEF Promise!Train, StoredNow, Fresh

LEMMA RefineOpen ==
  ASSUME OpenTracker PROVE Promise!Spoil
<1>1. Live' = Live
  BY LiveKept DEF OpenTracker
<1>2. StoredNow' = Torn
  BY ContentFacts DEF OpenTracker, StoredNow
<1>3. QED BY <1>1, <1>2 DEF Promise!Spoil, StoredNow

LEMMA RefineClose ==
  ASSUME IInv, CloseTracker PROVE Promise!Commit
<1>1. /\ job = "up" /\ at # Training /\ at = At("number", "") /\ global_steps \in Step
      /\ tracker' = global_steps /\ disk' = disk
  BY DistinctPlaces DEF CloseTracker, IInv, TypeInv, SavesAStep
<1>2. ThisVersion \in Version /\ ThisVersion.step = global_steps
  <2>1. global_steps \in Nat
    BY <1>1, StepFacts
  <2>2. run \in Nat
    BY ConfigAssumption DEF IInv, TypeInv, TypeOK
  <2>3. QED BY <2>1, <2>2 DEF ThisVersion, Version
<1>3. \A f \in Files : disk[global_steps][f] = ThisVersion
  <2>1. \A role \in Roles : Saved(role)
    BY <1>1, SavedFacts DEF Saved
  <2>2. QED BY <1>1, <2>1, FilesFacts DEF IInv, ResumeInv, SavedSoFar
<1>4. position = global_steps /\ \A p \in Worker : live[p] = ThisVersion
  BY <1>1 DEF IInv, ResumeInv, InLine
<1>5. Live = ThisVersion
  BY <1>2, <1>4, LiveIs
<1>6. \A f \in Files : disk'[tracker'][f] = ThisVersion
  BY <1>1, <1>3
<1>7. StoredNow' = ThisVersion
  BY <1>1, <1>2, <1>6, NextStoredIs
<1>8. Live' = Live
  BY LiveKept DEF CloseTracker
<1>9. QED BY <1>5, <1>7, <1>8 DEF Promise!Commit, StoredNow

LEMMA RefineResume ==
  ASSUME IInv, ResumeAuto PROVE Promise!Restore \/ (Live' = Live /\ StoredNow' = StoredNow)
<1>1. TrackerNamed /\ TypeInv
  BY DEF IInv, ResumeInv
<1>2. ASSUME tracker = Missing, Scratch PROVE Promise!Restore
  <2>1. Fresh \in Version /\ Fresh.step = 0
    BY ContentFacts DEF Fresh
  <2>2. Live' = Fresh
    BY <1>2, <2>1, NextLiveIs DEF Scratch
  <2>3. StoredNow = Fresh /\ Fresh # Torn
    BY <1>2, <2>1, ContentFacts DEF StoredNow
  <2>4. StoredNow' = StoredNow
    BY <1>1, <1>2, StoredKept DEF Scratch, Start
  <2>5. QED BY <2>2, <2>3, <2>4 DEF Promise!Restore, StoredNow
<1>3. ASSUME Refuse PROVE Live' = Live /\ StoredNow' = StoredNow
  BY <1>1, <1>3, LiveKept, StoredKept DEF Refuse
<1>4. ASSUME tracker \in Step, Load(tracker) PROVE Promise!Restore
  <2>1. PICK v \in Version : /\ v.step = tracker /\ v.run <= run /\ position' = tracker
                             /\ \A p \in Worker : live'[p] = v
                             /\ \A f \in Files : disk[tracker][f] = v
    BY <1>1, <1>4, LoadedVersion DEF TypeInv
  <2>2. Live' = v
    BY <2>1, NextLiveIs
  <2>3. StoredNow = v /\ v # Torn
    BY <1>4, <2>1, StoredIs, ContentFacts
  <2>4. StoredNow' = StoredNow
    BY <1>1, <1>4, StoredKept DEF Load, Start
  <2>5. QED BY <2>2, <2>3, <2>4 DEF Promise!Restore, StoredNow
<1>5. QED BY <1>2, <1>3, <1>4 DEF ResumeAuto, LoadOrRefuse

LEMMA RefineStep ==
  ASSUME AutoKeepsTwo, IInv, [Next]_vars
  PROVE  Promise!Next \/ (Live' = Live /\ StoredNow' = StoredNow)
<1>1. CASE TrainStep
  BY <1>1, RefineTrain DEF Promise!Next
<1>2. CASE OpenTracker
  BY <1>2, RefineOpen DEF Promise!Next
<1>3. CASE CloseTracker
  BY <1>3, RefineClose DEF Promise!Next
<1>4. CASE Prune \/ (\E r \in Rank : WriteFile(r)) \/ SaveData \/ Crash
  <2>1. tracker \in Step => \A f \in Files : disk'[tracker][f] = disk[tracker][f]
    BY <1>4, TrackerSpared DEF AutoKeepsTwo, IInv
  <2>2. UNCHANGED workers /\ tracker' = tracker
    BY <1>4 DEF Prune, WriteFile, SaveData, Crash
  <2>3. QED BY <2>1, <2>2, LiveKept, StoredKept DEF IInv, ResumeInv
<1>5. CASE WorkersSaved \/ UNCHANGED vars
  <2>1. UNCHANGED <<workers, tracker, disk>>
    BY <1>5 DEF WorkersSaved, vars
  <2>2. QED BY <2>1, LiveKept, StoredKept DEF IInv, ResumeInv
<1>6. CASE Resume
  <2>1. ResumeAuto
    BY <1>6 DEF AutoKeepsTwo, Resume, ResumeDisabled, ResumePath
  <2>2. QED BY <2>1, RefineResume DEF Promise!Next
<1>7. QED BY <1>1, <1>2, <1>3, <1>4, <1>5, <1>6 DEF Next, Save, Over

\* The protocol of saving, rotating, crashing and resuming implements Resumption:
\* with resume_mode auto and at least two saves kept, what a resumed run gets is the
\* last committed save, whole, and training only ever goes on from there.
THEOREM Resumes == ASSUME AutoKeepsTwo PROVE Spec => ResumesLastSave
<1>1. Init => IInv /\ Promise!Init
  BY TypeInit, ResumeInit, RefineInit DEF IInv
<1>2. IInv /\ [Next]_vars => IInv'
  BY ResumeStep
<1>3. IInv /\ [Next]_vars => [Promise!Next]_<<Live, StoredNow>>
  BY RefineStep
<1>4. QED BY <1>1, <1>2, <1>3, PTL DEF Spec, ResumesLastSave, Promise!Spec, StoredNow, Fresh
=============================================================================
