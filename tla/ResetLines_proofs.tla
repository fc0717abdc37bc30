-------------------------- MODULE ResetLines_proofs --------------------------
(***************************************************************************)
(* Proofs about ResetLines for every set of jobs and any number of jobs    *)
(* cut short.                                                              *)
(*                                                                         *)
(* The argument has a static half, about the sequences of writes as they   *)
(* stand in the code (each dangerous write is preceded, in the same        *)
(* sequence, by the writes that make it safe), and a dynamic half: in      *)
(* whatever state a job found the lines, and whatever happened before it,  *)
(* each line it has written since it started has the level of its last     *)
(* write.                                                                  *)
(***************************************************************************)
EXTENDS ResetLines, SequenceTheorems, TLAPS

AllJobs == Modes \cup {"program", "restart", "select", "deselect"}
Writes == [pin : Lines \cup {"designation"}, to : BOOLEAN]
Cores == Lines \ {"spi_select"}

\* Among the first n writes of job j, this one is the last to its pin.
LastWrite(j, n, write) ==
  \E m \in 1 .. n :
    /\ Steps[j][m] = write
    /\ \A k \in m + 1 .. n : Steps[j][k].pin # write.pin

\* What the first n writes of job j have to establish before a step of it.
Safe(step, j, n) ==
  /\ step = Hold("global") /\ j # "reset_all" => LastWrite(j, n, Hold("controller"))
  /\ step = Release("global") => LastWrite(j, n, Hold("spi"))
  /\ step = Release("controller") =>
       LastWrite(j, n, Release("global")) /\ LastWrite(j, n, Hold("spi"))
  /\ step = Release("spi") =>
       LastWrite(j, n, Hold("controller")) /\ LastWrite(j, n, Hold("global"))

Disciplined(j) == \A n \in 0 .. Len(Steps[j]) - 1 : Safe(Steps[j][n + 1], j, n)

\* The pins whose level a write of the job in progress decides: spi_select only
\* as long as it is an output pin, which no mode changes.
Decided == IF job \in Modes /\ ~ chipSelect THEN Lines ELSE Cores

\* The job in progress has made its first n writes, and they are in force.
Progress ==
  \E n \in 0 .. Len(Steps[job]) :
    /\ todo = SubSeq(Steps[job], n + 1, Len(Steps[job]))
    /\ \A write \in Writes :
         write.pin \in Decided /\ LastWrite(job, n, write) => line[write.pin] = write.to

JobsInv ==
  /\ job = Idle => todo = <<>>
  /\ job # Idle => Progress /\ reached = Idle

IInv == TypeOK /\ JobsInv /\ ModeReached /\ LoaderNeverDisturbs
-----------------------------------------------------------------------------
\* The sequences as tables: each has its length and its writes one by one.
LEMMA Tables ==
  /\ DOMAIN Steps = AllJobs
  /\ Steps["run"] = RunSteps /\ Steps["controller"] = ControllerSteps
  /\ Steps["global"] = GlobalSteps /\ Steps["spi"] = SpiSteps
  /\ Steps["reset_all"] = ResetAllSteps /\ Steps["program"] = ProgramSteps
  /\ Steps["restart"] = RestartSteps /\ Steps["select"] = <<Release("spi_select")>>
  /\ Steps["deselect"] = <<Hold("spi_select")>>
  BY DEF Steps, AllJobs, Modes

\* How many writes each sequence makes.
LEMMA Lengths ==
  /\ Len(RunSteps) = 5 /\ Len(ControllerSteps) = 4 /\ Len(GlobalSteps) = 4
  /\ Len(SpiSteps) = 4 /\ Len(ResetAllSteps) = 4 /\ Len(ProgramSteps) = 12
  /\ Len(RestartSteps) = 5
  BY DEF RunSteps, ControllerSteps, GlobalSteps, SpiSteps, ResetAllSteps, ProgramSteps,
         RestartSteps

\* Every sequence is made of writes to the four lines and of designations.
LEMMA StepsType ==
  ASSUME NEW j \in AllJobs
  PROVE  Steps[j] \in Seq(Writes)
  <1> USE DEF Writes, Hold, Release, Designate, Lines
  <1>1. RunSteps \in Seq(Writes) /\ ControllerSteps \in Seq(Writes)
    BY DEF RunSteps, ControllerSteps
  <1>2. GlobalSteps \in Seq(Writes) /\ SpiSteps \in Seq(Writes) /\ ResetAllSteps \in Seq(Writes)
    BY DEF GlobalSteps, SpiSteps, ResetAllSteps
  <1>3. RestartSteps \in Seq(Writes)
    BY DEF RestartSteps
  <1>4. ProgramSteps \in Seq(Writes)
    BY DEF ProgramSteps
  <1>5. <<Release("spi_select")>> \in Seq(Writes) /\ <<Hold("spi_select")>> \in Seq(Writes)
    OBVIOUS
  <1>6. QED
    BY <1>1, <1>2, <1>3, <1>4, <1>5, Tables DEF AllJobs, Modes

\* Steps that need nothing before them.
HarmlessSteps == {Hold("controller"), Hold("spi"), Hold("spi_select"), Release("spi_select"),
                  Designate(TRUE), Designate(FALSE)}
\* Such a step keeps the chip as it is.
LEMMA Harmless ==
  ASSUME NEW step \in HarmlessSteps, NEW j, NEW n
  PROVE  Safe(step, j, n)
  BY DEF HarmlessSteps, Safe, Hold, Release, Designate

\* The writes of each sequence, by position (resets.py, programmer.py).
LEMMA Entries ==
  /\ RunSteps[1] = Hold("controller") /\ RunSteps[2] = Hold("spi")
  /\ RunSteps[3] = Hold("spi_select") /\ RunSteps[4] = Release("global")
  /\ RunSteps[5] = Release("controller")
  /\ ControllerSteps[1] = Hold("spi") /\ ControllerSteps[2] = Hold("spi_select")
  /\ ControllerSteps[3] = Release("global") /\ ControllerSteps[4] = Hold("controller")
  /\ GlobalSteps[1] = Hold("controller") /\ GlobalSteps[2] = Hold("spi")
  /\ GlobalSteps[3] = Hold("spi_select") /\ GlobalSteps[4] = Hold("global")
  /\ SpiSteps[1] = Hold("controller") /\ SpiSteps[2] = Hold("global")
  /\ SpiSteps[3] = Hold("spi_select") /\ SpiSteps[4] = Release("spi")
  /\ ResetAllSteps[1] = Hold("spi") /\ ResetAllSteps[2] = Hold("spi_select")
  /\ ResetAllSteps[3] = Hold("global") /\ ResetAllSteps[4] = Hold("controller")
  /\ ProgramSteps[1] = Hold("controller") /\ ProgramSteps[2] = Hold("spi")
  /\ ProgramSteps[3] = Hold("global") /\ ProgramSteps[4] = Hold("spi_select")
  /\ ProgramSteps[5] = Release("spi") /\ ProgramSteps[6] = Designate(TRUE)
  /\ ProgramSteps[7] = Designate(FALSE) /\ ProgramSteps[8] = Hold("spi_select")
  /\ ProgramSteps[9] = Hold("spi") /\ ProgramSteps[10] = Release("global")
  /\ ProgramSteps[11] = Hold("controller") /\ ProgramSteps[12] = Release("controller")
  /\ RestartSteps[1] = Hold("spi") /\ RestartSteps[2] = Hold("spi_select")
  /\ RestartSteps[3] = Release("global") /\ RestartSteps[4] = Hold("controller")
  /\ RestartSteps[5] = Release("controller")
  BY DEF RunSteps, ControllerSteps, GlobalSteps, SpiSteps, ResetAllSteps,
         ProgramSteps, RestartSteps

\* The run mode releases the cores behind a held loader, and the CPU after them.
LEMMA RunDisciplined == Disciplined("run")
  <1>1. Steps["run"] = RunSteps /\ Len(RunSteps) = 5
    BY Tables, Lengths
  <1>2. SUFFICES ASSUME NEW n \in 0 .. 4 PROVE Safe(RunSteps[n + 1], "run", n)
    BY <1>1 DEF Disciplined
  <1>3. CASE n \in {0, 1, 2}
    BY <1>3, Entries, Harmless DEF HarmlessSteps
  <1>4. CASE n = 3
    <2>1. LastWrite("run", 3, Hold("spi"))
      BY <1>1, Entries DEF LastWrite, Hold, Release, Designate
    <2>2. QED
      BY <1>4, <2>1, Entries DEF Safe, Hold, Release
  <1>5. CASE n = 4
    <2>1. LastWrite("run", 4, Release("global")) /\ LastWrite("run", 4, Hold("spi"))
      BY <1>1, Entries DEF LastWrite, Hold, Release, Designate
    <2>2. QED
      BY <1>5, <2>1, Entries DEF Safe, Hold, Release
  <1>6. QED
    BY <1>3, <1>4, <1>5

\* The controller mode releases the cores behind a held loader.
LEMMA ControllerDisciplined == Disciplined("controller")
  <1>1. Steps["controller"] = ControllerSteps /\ Len(ControllerSteps) = 4
    BY Tables, Lengths
  <1>2. SUFFICES ASSUME NEW n \in 0 .. 3 PROVE Safe(ControllerSteps[n + 1], "controller", n)
    BY <1>1 DEF Disciplined
  <1>3. CASE n \in {0, 1, 3}
    BY <1>3, Entries, Harmless DEF HarmlessSteps
  <1>4. CASE n = 2
    <2>1. LastWrite("controller", 2, Hold("spi"))
      BY <1>1, Entries DEF LastWrite, Hold, Release, Designate
    <2>2. QED
      BY <1>4, <2>1, Entries DEF Safe, Hold, Release
  <1>5. QED
    BY <1>3, <1>4

\* The global mode holds the cores only under a held CPU.
LEMMA GlobalDisciplined == Disciplined("global")
  <1>1. Steps["global"] = GlobalSteps /\ Len(GlobalSteps) = 4
    BY Tables, Lengths
  <1>2. SUFFICES ASSUME NEW n \in 0 .. 3 PROVE Safe(GlobalSteps[n + 1], "global", n)
    BY <1>1 DEF Disciplined
  <1>3. CASE n \in {0, 1, 2}
    BY <1>3, Entries, Harmless DEF HarmlessSteps
  <1>4. CASE n = 3
    <2>1. LastWrite("global", 3, Hold("controller"))
      BY <1>1, Entries DEF LastWrite, Hold, Release, Designate
    <2>2. QED
      BY <1>4, <2>1, Entries DEF Safe, Hold, Release
  <1>5. QED
    BY <1>3, <1>4

\* The spi mode releases the loader last, next to a held CPU and held cores.
LEMMA SpiDisciplined == Disciplined("spi")
  <1>1. Steps["spi"] = SpiSteps /\ Len(SpiSteps) = 4
    BY Tables, Lengths
  <1>2. SUFFICES ASSUME NEW n \in 0 .. 3 PROVE Safe(SpiSteps[n + 1], "spi", n)
    BY <1>1 DEF Disciplined
  <1>3. CASE n \in {0, 2}
    BY <1>3, Entries, Harmless DEF HarmlessSteps
  <1>4. CASE n = 1
    <2>1. LastWrite("spi", 1, Hold("controller"))
      BY <1>1, Entries DEF LastWrite, Hold, Release, Designate
    <2>2. QED
      BY <1>4, <2>1, Entries DEF Safe, Hold, Release
  <1>5. CASE n = 3
    <2>1. LastWrite("spi", 3, Hold("controller")) /\ LastWrite("spi", 3, Hold("global"))
      BY <1>1, Entries DEF LastWrite, Hold, Release, Designate
    <2>2. QED
      BY <1>5, <2>1, Entries DEF Safe, Hold, Release
  <1>6. QED
    BY <1>3, <1>4, <1>5

\* reset_all releases nothing; it alone may hold the cores under a running CPU.
LEMMA ResetAllDisciplined == Disciplined("reset_all")
  <1>1. Steps["reset_all"] = ResetAllSteps /\ Len(ResetAllSteps) = 4
    BY Tables, Lengths
  <1>2. SUFFICES ASSUME NEW n \in 0 .. 3 PROVE Safe(ResetAllSteps[n + 1], "reset_all", n)
    BY <1>1 DEF Disciplined
  <1>3. CASE n \in {0, 1, 3}
    BY <1>3, Entries, Harmless DEF HarmlessSteps
  <1>4. CASE n = 2
    BY <1>4, Entries DEF Safe, Hold, Release
  <1>5. QED
    BY <1>3, <1>4

\* The programming sequence opens its load window over a held chip, closes it, and
\* releases the CPU last.
LEMMA ProgramDisciplined == Disciplined("program")
  <1>1. Steps["program"] = ProgramSteps /\ Len(ProgramSteps) = 12
    BY Tables, Lengths
  <1>2. SUFFICES ASSUME NEW n \in 0 .. 11 PROVE Safe(ProgramSteps[n + 1], "program", n)
    BY <1>1 DEF Disciplined
  <1>3. CASE n \in {0, 1, 3, 5, 6, 7, 8, 10}
    <2>1. ProgramSteps[n + 1] \in HarmlessSteps
      <3>1. /\ ProgramSteps[1] \in HarmlessSteps /\ ProgramSteps[2] \in HarmlessSteps
            /\ ProgramSteps[4] \in HarmlessSteps /\ ProgramSteps[6] \in HarmlessSteps
            /\ ProgramSteps[7] \in HarmlessSteps /\ ProgramSteps[8] \in HarmlessSteps
            /\ ProgramSteps[9] \in HarmlessSteps /\ ProgramSteps[11] \in HarmlessSteps
        BY Entries DEF HarmlessSteps
      <3>2. QED
        BY <1>3, <3>1
    <2>2. QED
      BY <2>1, Harmless
  <1>4. CASE n = 2
    <2>1. LastWrite("program", 2, Hold("controller"))
      BY <1>1, Entries DEF LastWrite, Hold, Release, Designate
    <2>2. QED
      BY <1>4, <2>1, Entries DEF Safe, Hold, Release
  <1>5. CASE n = 4
    <2>1. LastWrite("program", 4, Hold("controller")) /\ LastWrite("program", 4, Hold("global"))
      BY <1>1, Entries DEF LastWrite, Hold, Release, Designate
    <2>2. QED
      BY <1>5, <2>1, Entries DEF Safe, Hold, Release
  <1>6. CASE n = 9
    <2>1. LastWrite("program", 9, Hold("spi"))
      BY <1>1, Entries DEF LastWrite, Hold, Release, Designate
    <2>2. QED
      BY <1>6, <2>1, Entries DEF Safe, Hold, Release
  <1>7. CASE n = 11
    <2>1. LastWrite("program", 11, Release("global")) /\ LastWrite("program", 11, Hold("spi"))
      BY <1>1, Entries DEF LastWrite, Hold, Release, Designate
    <2>2. QED
      BY <1>7, <2>1, Entries DEF Safe, Hold, Release
  <1>8. QED
    BY <1>3, <1>4, <1>5, <1>6, <1>7

\* The restart releases the cores behind a held loader, and the CPU after them.
LEMMA RestartDisciplined == Disciplined("restart")
  <1>1. Steps["restart"] = RestartSteps /\ Len(RestartSteps) = 5
    BY Tables, Lengths
  <1>2. SUFFICES ASSUME NEW n \in 0 .. 4 PROVE Safe(RestartSteps[n + 1], "restart", n)
    BY <1>1 DEF Disciplined
  <1>3. CASE n \in {0, 1, 3}
    BY <1>3, Entries, Harmless DEF HarmlessSteps
  <1>4. CASE n = 2
    <2>1. LastWrite("restart", 2, Hold("spi"))
      BY <1>1, Entries DEF LastWrite, Hold, Release, Designate
    <2>2. QED
      BY <1>4, <2>1, Entries DEF Safe, Hold, Release
  <1>5. CASE n = 4
    <2>1. LastWrite("restart", 4, Release("global")) /\ LastWrite("restart", 4, Hold("spi"))
      BY <1>1, Entries DEF LastWrite, Hold, Release, Designate
    <2>2. QED
      BY <1>5, <2>1, Entries DEF Safe, Hold, Release
  <1>6. QED
    BY <1>3, <1>4, <1>5

\* The single toggles of spi_select touch nothing else.
LEMMA SelectDisciplined == Disciplined("select") /\ Disciplined("deselect")
  <1>1. ASSUME NEW j \in {"select", "deselect"}, NEW n \in 0 .. Len(Steps[j]) - 1
        PROVE  Safe(Steps[j][n + 1], j, n)
    <2>1. Steps[j] \in {<<Release("spi_select")>>, <<Hold("spi_select")>>}
      BY Tables
    <2>2. Len(Steps[j]) = 1 /\ Steps[j][1] \in {Release("spi_select"), Hold("spi_select")}
      BY <2>1
    <2>3. n = 0
      BY <1>1, <2>2
    <2>4. QED
      BY <2>2, <2>3, Harmless DEF HarmlessSteps
  <1>2. QED
    BY <1>1 DEF Disciplined

\* The static half: every dangerous write of every job is preceded by what makes it safe.
LEMMA AllDisciplined ==
  ASSUME NEW j \in AllJobs
  PROVE  Disciplined(j)
  BY RunDisciplined, ControllerDisciplined, GlobalDisciplined, SpiDisciplined, ResetAllDisciplined,
     ProgramDisciplined, RestartDisciplined, SelectDisciplined DEF AllJobs, Modes

\* A mode decides every line, and leaves each at the level it stands for.
LEMMA ModesWriteEveryLine ==
  ASSUME NEW j \in Modes, NEW l \in Lines
  PROVE  LastWrite(j, Len(Steps[j]), IF l \in Released(j) THEN Release(l) ELSE Hold(l))
  <1> USE DEF LastWrite, Hold, Release, Lines
  <1>1. CASE j = "run"
    <2>1. Steps[j] = RunSteps /\ Len(Steps[j]) = 5 /\ Released(j) = {"controller", "global"}
      BY <1>1, Tables, Lengths DEF Released
    <2>2. CASE l \in {"controller", "global"}
      BY <2>1, <2>2, Entries
    <2>3. CASE l \notin {"controller", "global"}
      BY <2>1, <2>3, Entries
    <2>4. QED
      BY <2>2, <2>3
  <1>2. CASE j = "controller"
    <2>1. Steps[j] = ControllerSteps /\ Len(Steps[j]) = 4 /\ Released(j) = {"global"}
      BY <1>2, Tables, Lengths DEF Released
    <2>2. CASE l \in {"global"}
      BY <2>1, <2>2, Entries
    <2>3. CASE l \notin {"global"}
      BY <2>1, <2>3, Entries
    <2>4. QED
      BY <2>2, <2>3
  <1>3. CASE j = "global"
    <2>1. Steps[j] = GlobalSteps /\ Len(Steps[j]) = 4 /\ Released(j) = {}
      BY <1>3, Tables, Lengths DEF Released
    <2>2. CASE l \in {}
      BY <2>1, <2>2, Entries
    <2>3. CASE l \notin {}
      BY <2>1, <2>3, Entries
    <2>4. QED
      BY <2>2, <2>3
  <1>4. CASE j = "spi"
    <2>1. Steps[j] = SpiSteps /\ Len(Steps[j]) = 4 /\ Released(j) = {"spi"}
      BY <1>4, Tables, Lengths DEF Released
    <2>2. CASE l \in {"spi"}
      BY <2>1, <2>2, Entries
    <2>3. CASE l \notin {"spi"}
      BY <2>1, <2>3, Entries
    <2>4. QED
      BY <2>2, <2>3
  <1>5. CASE j = "reset_all"
    <2>1. Steps[j] = ResetAllSteps /\ Len(Steps[j]) = 4 /\ Released(j) = {}
      BY <1>5, Tables, Lengths DEF Released
    <2>2. CASE l \in {}
      BY <2>1, <2>2, Entries
    <2>3. CASE l \notin {}
      BY <2>1, <2>3, Entries
    <2>4. QED
      BY <2>2, <2>3
  <1>6. QED
    BY <1>1, <1>2, <1>3, <1>4, <1>5 DEF Modes

\* No mode designates a pin.
LEMMA ModesDesignateNothing ==
  ASSUME NEW j \in Modes, NEW n \in 1 .. Len(Steps[j])
  PROVE  Steps[j][n].pin # "designation"
  <1> USE DEF Hold, Release
  <1>1. CASE j = "run"
    BY <1>1, Tables, Lengths, Entries
  <1>2. CASE j = "controller"
    BY <1>2, Tables, Lengths, Entries
  <1>3. CASE j = "global"
    BY <1>3, Tables, Lengths, Entries
  <1>4. CASE j = "spi"
    BY <1>4, Tables, Lengths, Entries
  <1>5. CASE j = "reset_all"
    BY <1>5, Tables, Lengths, Entries
  <1>6. QED
    BY <1>1, <1>2, <1>3, <1>4, <1>5 DEF Modes

-----------------------------------------------------------------------------
\* Between two writes: what a write of the job leaves of the writes before it.
LEMMA LastWriteStep ==
  ASSUME NEW j \in AllJobs, NEW n \in 0 .. Len(Steps[j]) - 1,
         NEW write \in Writes, LastWrite(j, n + 1, write)
  PROVE  \/ write = Steps[j][n + 1]
         \/ Steps[j][n + 1].pin # write.pin /\ LastWrite(j, n, write)
  <1>1. Steps[j] \in Seq(Writes)
    BY StepsType
  <1>2. Len(Steps[j]) \in Nat
    BY <1>1
  <1>3. PICK m \in 1 .. n + 1 :
          Steps[j][m] = write /\ \A k \in m + 1 .. n + 1 : Steps[j][k].pin # write.pin
    BY DEF LastWrite
  <1>4. CASE m = n + 1
    BY <1>3, <1>4
  <1>5. CASE m \in 1 .. n
    BY <1>2, <1>3, <1>5 DEF LastWrite
  <1>6. QED
    BY <1>2, <1>4, <1>5

\* The lines as any earlier program may have left them satisfy the invariant.
LEMMA InitIInv == Init => IInv
  <1> SUFFICES ASSUME Init PROVE IInv
    OBVIOUS
  <1>1. TypeOK
    <2>1. /\ line \in [Lines -> BOOLEAN]
          /\ todo \in Seq([pin : Lines \cup {"designation"}, to : BOOLEAN])
      BY EmptySeq DEF Init
    <2>2. faults \in 0 .. MaxFaults
      BY FaultsAssumption DEF Init
    <2>3. QED
      BY <2>1, <2>2 DEF Init, TypeOK
  <1>2. LoaderNeverDisturbs
    BY DEF Init, LoaderNeverDisturbs
  <1>3. JobsInv /\ ModeReached
    BY DEF Init, JobsInv, ModeReached
  <1>4. QED
    BY <1>1, <1>2, <1>3 DEF IInv

\* A job starts with all its writes to make.
LEMMA StartStep ==
  ASSUME IInv, NEW j \in Jobs, StartJob(j)
  PROVE  IInv'
  <1>1. j \in AllJobs
    BY JobsAssumption DEF AllJobs
  <1>2. Steps[j] \in Seq(Writes) /\ Len(Steps[j]) \in Nat
    BY <1>1, StepsType
  <1>3. TypeOK'
    BY <1>2 DEF StartJob, IInv, TypeOK, Writes
  <1>4. todo' = SubSeq(Steps[j], 0 + 1, Len(Steps[j]))
    BY <1>2, SubSeqFull DEF StartJob
  <1>5. \A write \in Writes : ~ LastWrite(j, 0, write)
    BY DEF LastWrite
  <1>6. Progress'
    BY <1>2, <1>4, <1>5 DEF Progress, StartJob, LastWrite
  <1>7. JobsInv' /\ ModeReached'
    BY <1>1, <1>6 DEF StartJob, JobsInv, ModeReached, AllJobs, Modes, Idle
  <1>8. LoaderNeverDisturbs'
    BY DEF StartJob, IInv, LoaderNeverDisturbs
  <1>9. QED
    BY <1>3, <1>7, <1>8 DEF IInv

\* The effect of a write on the lines.
LEMMA LevelsChange ==
  ASSUME TypeOK, NEW step \in Writes, line' \in LevelsAfter(step)
  PROVE  /\ line' \in [Lines -> BOOLEAN]
         /\ \A l \in Lines : line'[l] # line[l] => l = step.pin \/ step.pin = "designation"
         /\ step.pin \in Cores => line'[step.pin] = step.to
         /\ step.pin = "designation" => \A l \in Cores : line'[l] = line[l]
         /\ step.pin = "spi_select" => line'["spi_select"] = IF chipSelect THEN line["spi_select"]
                                                                ELSE step.to
  <1>1. line \in [Lines -> BOOLEAN] /\ step.pin \in Lines \cup {"designation"}
          /\ step.to \in BOOLEAN
    BY DEF TypeOK, Writes
  <1>2. CASE step.pin = "designation"
    <2>1. PICK level \in BOOLEAN : line' = [line EXCEPT !["spi_select"] = level]
      BY <1>2 DEF LevelsAfter
    <2>2. QED
      BY <1>1, <1>2, <2>1 DEF Lines, Cores
  <1>3. CASE step.pin = "spi_select" /\ chipSelect
    BY <1>1, <1>3 DEF LevelsAfter, Lines, Cores
  <1>4. CASE step.pin # "designation" /\ ~ (step.pin = "spi_select" /\ chipSelect)
    <2>1. line' = [line EXCEPT ![step.pin] = step.to]
      BY <1>4 DEF LevelsAfter
    <2>2. QED
      BY <1>1, <1>4, <2>1 DEF Lines, Cores
  <1>5. QED
    BY <1>2, <1>3, <1>4

\* One write: the lines it decides take its level, the others keep theirs.
LEMMA WriteStep ==
  ASSUME IInv, WritePin
  PROVE  IInv' /\ BootsIntoRunState /\ ("reset_all" \notin Jobs /\ NeverWedged => NeverWedged')
  <1>1. /\ job \in AllJobs /\ job # Idle /\ job' = job /\ reached = Idle /\ reached' = Idle
        /\ todo # <<>>
    BY JobsAssumption DEF IInv, JobsInv, TypeOK, WritePin, AllJobs
  <1>2. PICK n \in 0 .. Len(Steps[job]) :
          /\ todo = SubSeq(Steps[job], n + 1, Len(Steps[job]))
          /\ \A write \in Writes :
               write.pin \in Decided /\ LastWrite(job, n, write) => line[write.pin] = write.to
    BY <1>1 DEF IInv, JobsInv, Progress
  <1> DEFINE step == Steps[job][n + 1]
  <1>3. Steps[job] \in Seq(Writes) /\ Len(Steps[job]) \in Nat
    BY <1>1, StepsType
  <1>4. n \in 0 .. Len(Steps[job]) - 1
    BY <1>1, <1>2, <1>3, SubSeqEmpty
  <1>5. /\ step \in Writes /\ Head(todo) = step
        /\ Tail(todo) = SubSeq(Steps[job], n + 1 + 1, Len(Steps[job]))
    BY <1>2, <1>3, <1>4, HeadTailOfSubSeq, ElementOfSeq
  <1>6. Safe(step, job, n)
    BY <1>1, <1>4, AllDisciplined DEF Disciplined
  <1>7. /\ LastWrite(job, n, Hold("controller")) => line["controller"] = FALSE
        /\ LastWrite(job, n, Hold("global")) => line["global"] = FALSE
        /\ LastWrite(job, n, Hold("spi")) => line["spi"] = FALSE
        /\ LastWrite(job, n, Release("global")) => line["global"] = TRUE
    <2>1. {"controller", "global", "spi"} \subseteq Decided
      BY DEF Decided, Cores, Lines
    <2>2. ASSUME NEW l \in {"controller", "global", "spi"}, LastWrite(job, n, Hold(l))
          PROVE  line[l] = FALSE
      <3>1. Hold(l) \in Writes /\ Hold(l).pin = l /\ Hold(l).to = FALSE
        BY DEF Writes, Hold, Lines
      <3>2. QED
        BY <1>2, <2>1, <2>2, <3>1
    <2>3. ASSUME LastWrite(job, n, Release("global"))
          PROVE  line["global"] = TRUE
      <3>1. Release("global") \in Writes /\ Release("global").pin = "global"
              /\ Release("global").to = TRUE
        BY DEF Writes, Release, Lines
      <3>2. QED
        BY <1>2, <2>1, <2>3, <3>1
    <2>4. QED
      BY <2>2, <2>3
  <1>8. /\ line' \in LevelsAfter(step)
        /\ chipSelect' = IF step.pin = "designation" THEN step.to ELSE chipSelect
        /\ todo' = SubSeq(Steps[job], n + 1 + 1, Len(Steps[job]))
        /\ UNCHANGED <<job, reached, faults>>
    BY <1>5 DEF WritePin
  <1>9. /\ line' \in [Lines -> BOOLEAN]
        /\ \A l \in Lines : line'[l] # line[l] => l = step.pin \/ step.pin = "designation"
        /\ step.pin \in Cores => line'[step.pin] = step.to
        /\ step.pin = "designation" => \A l \in Cores : line'[l] = line[l]
        /\ step.pin = "spi_select" => line'["spi_select"] = IF chipSelect THEN line["spi_select"]
                                                               ELSE step.to
    BY <1>5, <1>8, LevelsChange DEF IInv
  <1>10. TypeOK'
    <2>1. todo' \in Seq(Writes)
      <3>1. todo \in Seq(Writes)
        BY DEF IInv, TypeOK, Writes
      <3>2. QED
        BY <1>1, <3>1, HeadTailProperties DEF WritePin
    <2>2. chipSelect' \in BOOLEAN
      BY <1>5, <1>8 DEF IInv, TypeOK, Writes
    <2>3. QED
      BY <1>8, <1>9, <2>1, <2>2 DEF IInv, TypeOK, Writes
  <1>11. Progress'
    <2>1. Decided' = Decided /\ (job \in Modes => step.pin # "designation")
      <3>1. CASE job \in Modes
        BY <1>4, <1>8, <3>1, ModesDesignateNothing DEF Decided
      <3>2. CASE job \notin Modes
        BY <1>8, <3>2 DEF Decided
      <3>3. QED
        BY <3>1, <3>2
    <2>2. ASSUME NEW write \in Writes, write.pin \in Decided, LastWrite(job, n + 1, write)
          PROVE  line'[write.pin] = write.to
      <3>1. write.pin \in Lines /\ (write.pin \notin Cores =>
               write.pin = "spi_select" /\ job \in Modes /\ ~ chipSelect)
        BY <2>2 DEF Decided, Cores, Lines
      <3>2. CASE write = step
        BY <1>9, <3>1, <3>2
      <3>3. CASE step.pin # write.pin /\ LastWrite(job, n, write)
        <4>1. line[write.pin] = write.to
          BY <1>2, <2>2, <3>3
        <4>2. line'[write.pin] = line[write.pin]
          BY <1>9, <2>1, <3>1, <3>3
        <4>3. QED
          BY <4>1, <4>2
      <3>4. QED
        BY <1>1, <1>4, <2>2, <3>2, <3>3, LastWriteStep
    <2>3. n + 1 \in 0 .. Len(Steps[job]) /\ n + 1 + 1 = (n + 1) + 1
      BY <1>3, <1>4
    <2>4. QED
      BY <1>8, <2>1, <2>2, <2>3 DEF Progress, LastWrite
  <1>12. JobsInv' /\ ModeReached'
    BY <1>1, <1>8, <1>11 DEF JobsInv, ModeReached
  <1> HIDE DEF step
  <1>13. step.pin \in Lines \cup {"designation"} /\ step.to \in BOOLEAN
           /\ step = [pin |-> step.pin, to |-> step.to]
    BY <1>5 DEF Writes
  <1>14. /\ step.pin = "controller" /\ step.to => step = Release("controller")
         /\ step.pin = "global" /\ step.to => step = Release("global")
         /\ step.pin = "global" /\ ~ step.to => step = Hold("global")
         /\ step.pin = "spi" /\ step.to => step = Release("spi")
    BY <1>13 DEF Hold, Release
  <1>15. Cores = {"controller", "global", "spi"}
    BY DEF Cores, Lines
  <1>16. /\ step = Release("controller") => line["global"] /\ ~ line["spi"]
         /\ step = Release("global") => ~ line["spi"]
         /\ step = Release("spi") => ~ line["controller"] /\ ~ line["global"]
         /\ step = Hold("global") /\ job # "reset_all" => ~ line["controller"]
    BY <1>6, <1>7 DEF Safe
  <1>17. \A l \in Cores : /\ line'[l] \in BOOLEAN
                          /\ line'[l] = line[l] \/ (l = step.pin /\ line'[l] = step.to)
    BY <1>9 DEF Cores
  <1>18. /\ line'["controller"] /\ ~ line["controller"] => step = Release("controller")
         /\ line'["global"] /\ ~ line["global"] => step = Release("global")
         /\ ~ line'["global"] /\ line["global"] => step = Hold("global")
         /\ line'["spi"] /\ ~ line["spi"] => step = Release("spi")
    BY <1>14, <1>15, <1>17
  <1>19. \A l, k \in Cores : line'[l] # line[l] /\ line'[k] # line[k] => l = k
    BY <1>17
  <1>20. LoaderNeverDisturbs'
    BY <1>15, <1>16, <1>17, <1>18, <1>19 DEF IInv, LoaderNeverDisturbs
  <1>21. BootsIntoRunState
    BY <1>16, <1>18 DEF BootsIntoRunState
  <1>22. "reset_all" \notin Jobs /\ NeverWedged => NeverWedged'
    <2>1. "reset_all" \notin Jobs => job # "reset_all"
      BY <1>1 DEF IInv, TypeOK
    <2>2. QED
      BY <1>15, <1>16, <1>17, <1>18, <1>19, <2>1 DEF NeverWedged
  <1>23. QED
    BY <1>10, <1>12, <1>20, <1>21, <1>22 DEF IInv

-----------------------------------------------------------------------------
\* A mode that made all its writes has the four levels it stands for.
LEMMA FinishStep ==
  ASSUME IInv, FinishJob
  PROVE  IInv'
  <1>1. /\ job \in AllJobs /\ job # Idle /\ job' = Idle /\ todo = <<>>
        /\ reached' = IF job \in Modes THEN job ELSE Idle
        /\ UNCHANGED <<line, chipSelect, todo, faults>>
    BY JobsAssumption DEF IInv, TypeOK, FinishJob, AllJobs
  <1>2. PICK n \in 0 .. Len(Steps[job]) :
          /\ todo = SubSeq(Steps[job], n + 1, Len(Steps[job]))
          /\ \A write \in Writes :
               write.pin \in Decided /\ LastWrite(job, n, write) => line[write.pin] = write.to
    BY <1>1 DEF IInv, JobsInv, Progress
  <1>3. Steps[job] \in Seq(Writes) /\ Len(Steps[job]) \in Nat
    BY <1>1, StepsType
  <1>4. n = Len(Steps[job])
    <2>1. SUFFICES ASSUME n \in 0 .. Len(Steps[job]) - 1 PROVE FALSE
      BY <1>3
    <2>2. n + 1 \in 1 .. Len(Steps[job]) /\ Len(Steps[job]) \in n + 1 .. Len(Steps[job])
      BY <1>3, <2>1
    <2>3. Len(todo) = Len(Steps[job]) - (n + 1) + 1
      BY <1>2, <1>3, <2>2, SubSeqProperties
    <2>4. QED
      BY <1>1, <1>3, <2>1, <2>3, EmptySeq
  <1>5. ASSUME job \in Modes, NEW l \in Decided
        PROVE  line[l] <=> l \in Released(job)
    <2>1. l \in Lines
      BY DEF Decided, Cores
    <2>2. /\ Hold(l) \in Writes /\ Hold(l).pin = l /\ Hold(l).to = FALSE
          /\ Release(l) \in Writes /\ Release(l).pin = l /\ Release(l).to = TRUE
      BY <2>1 DEF Writes, Hold, Release
    <2>3. LastWrite(job, n, IF l \in Released(job) THEN Release(l) ELSE Hold(l))
      BY <1>4, <1>5, <2>1, ModesWriteEveryLine
    <2>4. QED
      BY <1>2, <1>5, <2>2, <2>3
  <1>6. ModeReached'
    <2>1. SUFFICES ASSUME job \in Modes PROVE ModeReached'
      BY <1>1 DEF ModeReached
    <2>2. (IF chipSelect THEN Lines \ {"spi_select"} ELSE Lines) = Decided
      BY <2>1 DEF Decided, Cores
    <2>3. QED
      BY <1>1, <1>5, <2>1, <2>2 DEF ModeReached, Reaches
  <1>7. TypeOK' /\ JobsInv' /\ LoaderNeverDisturbs'
    BY <1>1 DEF IInv, TypeOK, JobsInv, LoaderNeverDisturbs
  <1>8. QED
    BY <1>6, <1>7 DEF IInv

\* A job cut short, and a new connection, leave the lines where they are.
LEMMA OtherStep ==
  ASSUME IInv, JobFails \/ Reopen \/ UNCHANGED vars
  PROVE  IInv'
  <1>1. CASE JobFails
    <2>1. faults' \in 0 .. MaxFaults /\ todo' \in Seq(Writes)
      BY <1>1, FaultsAssumption, EmptySeq DEF JobFails, IInv, TypeOK
    <2>2. reached' = Idle
      BY <1>1 DEF JobFails, IInv, JobsInv
    <2>3. QED
      BY <1>1, <2>1, <2>2 DEF JobFails, IInv, TypeOK, JobsInv, ModeReached,
                              LoaderNeverDisturbs, Writes
  <1>2. CASE Reopen
    BY <1>2 DEF Reopen, IInv, TypeOK, JobsInv, ModeReached, LoaderNeverDisturbs
  <1>3. CASE UNCHANGED vars
    BY <1>3 DEF vars, IInv, TypeOK, JobsInv, Progress, Decided, LastWrite, ModeReached, Reaches,
                LoaderNeverDisturbs
  <1>4. QED
    BY <1>1, <1>2, <1>3

\* The dynamic half: the invariant is inductive, no step wedges the chip unless the job is
\* reset_all, and the CPU boots only into its run state.
LEMMA IInvStep ==
  ASSUME IInv, [Next]_vars
  PROVE  /\ IInv'
         /\ BootsIntoRunState
         /\ "reset_all" \notin Jobs /\ NeverWedged => NeverWedged'
  <1>1. ASSUME NEW j \in Jobs, StartJob(j)
        PROVE  IInv' /\ UNCHANGED line
    BY <1>1, StartStep DEF StartJob
  <1>2. CASE FinishJob
    BY <1>2, FinishStep DEF FinishJob, BootsIntoRunState, NeverWedged
  <1>3. CASE JobFails \/ Reopen \/ UNCHANGED vars
    BY <1>3, OtherStep DEF JobFails, Reopen, vars, BootsIntoRunState, NeverWedged
  <1>4. CASE WritePin
    BY <1>4, WriteStep
  <1>5. QED
    BY <1>1, <1>2, <1>3, <1>4 DEF Next, BootsIntoRunState, NeverWedged

\* The SPI loader is never released next to a running CPU or crypto core, whatever the
\* jobs, in whatever order and wherever each is cut short (resets.py:14-16).
THEOREM LoaderIsSafe == Spec => []LoaderNeverDisturbs
  <1>1. IInv /\ [Next]_vars => IInv'
    BY IInvStep
  <1>2. IInv => LoaderNeverDisturbs
    BY DEF IInv
  <1>3. QED
    BY <1>1, <1>2, InitIInv, PTL DEF Spec

\* Every job boots the chip only into its run state and leaves the levels it is named
\* for, whatever the jobs before it left behind (resets.py:24-25, programmer.py:236-245).
THEOREM JobsDoWhatTheySay == Spec => JobsReachTheirLevels
  <1>1. IInv /\ [Next]_vars => IInv'
    BY IInvStep
  <1>2. IInv /\ IInv' /\ [Next]_vars => [TypeOK' /\ BootsIntoRunState /\ ModeReached']_vars
    BY IInvStep DEF IInv
  <1>3. QED
    BY <1>1, <1>2, InitIInv, PTL DEF Spec, JobsReachTheirLevels

\* No job but reset_all, complete or cut short, and no sequence of them, holds the crypto
\* cores in reset under a running CPU (resets.py:18-25); reset_all does.
THEOREM ChipNeverWedged ==
  ASSUME "reset_all" \notin Jobs
  PROVE  Spec => []NeverWedged
  <1>1. Init => IInv /\ NeverWedged
    BY InitIInv DEF Init, NeverWedged
  <1>2. IInv /\ NeverWedged /\ [Next]_vars => IInv' /\ NeverWedged'
    BY IInvStep, "reset_all" \notin Jobs
  <1>3. QED
    BY <1>1, <1>2, PTL DEF Spec
=============================================================================
