------------------------------ MODULE ResetLines ------------------------------
(***************************************************************************)
(* The four reset lines of the chip as the host drives them over the       *)
(* MCP2210: the named modes of Software/Python/proact_host/resets.py, the  *)
(* programming and restart sequences of programmer.py, and the per-line    *)
(* toggles of the GUI, one job at a time, each of which may be cut short   *)
(* by an exception between two writes.                                     *)
(*                                                                         *)
(* A line is TRUE when released and FALSE when held in reset.  What goes   *)
(* wrong on the chip is stated over the lines: the SDK's cache, the lock   *)
(* and the retry after a desync (which repeats one idempotent write) leave *)
(* the same sequence of writes.  External: a pin designated CHIP_SELECT    *)
(* belongs to the SPI engine and does not follow output writes.            *)
(*                                                                         *)
(* A definition marked (mutant) is wrong on purpose: a plausible slip that *)
(* takes the place of the definition after it to show that the properties  *)
(* notice.                                                                 *)
(***************************************************************************)
EXTENDS Naturals, Sequences

CONSTANTS
  Jobs,                 \* the jobs the user may start
  MaxFaults             \* bound: jobs cut short

Lines == {"controller", "global", "spi", "spi_select"}
Modes == {"run", "controller", "global", "spi", "reset_all"}
Idle == "idle"

ASSUME JobsAssumption ==
  Jobs \subseteq Modes \cup {"program", "restart", "select", "deselect"}
ASSUME FaultsAssumption == MaxFaults \in Nat

VARIABLES
  line,                 \* the level of each line
  chipSelect,           \* spi_select is designated CHIP_SELECT
  job, todo,            \* the job in progress and the writes it has left
  reached,              \* the mode last applied to its end, until something follows
  faults

vars == <<line, chipSelect, job, todo, reached, faults>>

Hold(l) == [pin |-> l, to |-> FALSE]
Release(l) == [pin |-> l, to |-> TRUE]
Designate(cs) == [pin |-> "designation", to |-> cs]

-----------------------------------------------------------------------------
\* The sequences of writes, in the order of the code.
RunSteps == <<Hold("controller"), Hold("spi"), Hold("spi_select"), Release("global"),
              Release("controller")>>
ControllerSteps == <<Hold("spi"), Hold("spi_select"), Release("global"), Hold("controller")>>

GlobalUnguarded ==   \* (mutant)
  <<Hold("global"), Hold("spi"), Hold("spi_select"), Hold("controller")>>
GlobalSteps == <<Hold("controller"), Hold("spi"), Hold("spi_select"), Hold("global")>>

SpiThreeLines == <<Hold("controller"), Hold("global"), Release("spi")>>   \* (mutant)
SpiSteps == <<Hold("controller"), Hold("global"), Hold("spi_select"), Release("spi")>>

\* _apply(False, False, False, False)
ResetAllSteps == <<Hold("spi"), Hold("spi_select"), Hold("global"), Hold("controller")>>

\* _reset_low, the load window, the release to run.
LoaderLeftReleased ==   \* (mutant)
  <<Hold("controller"), Hold("spi"), Hold("global"), Hold("spi_select"),
    Release("spi"), Designate(TRUE), Designate(FALSE), Hold("spi_select"),
    Release("global"), Hold("controller"), Release("controller"), Hold("spi")>>
ProgramSteps ==
  <<Hold("controller"), Hold("spi"), Hold("global"), Hold("spi_select"),
    Release("spi"), Designate(TRUE), Designate(FALSE), Hold("spi_select"),
    Hold("spi"), Release("global"), Hold("controller"), Release("controller")>>

CpuReleasedFirst ==   \* (mutant)
  <<Hold("spi"), Hold("spi_select"), Hold("controller"), Release("controller"),
    Release("global")>>
RestartSteps == <<Hold("spi"), Hold("spi_select"), Release("global"), Hold("controller"),
                  Release("controller")>>

Steps == [run |-> RunSteps, controller |-> ControllerSteps, global |-> GlobalSteps,
          spi |-> SpiSteps, reset_all |-> ResetAllSteps, program |-> ProgramSteps,
          restart |-> RestartSteps, select |-> <<Release("spi_select")>>,
          deselect |-> <<Hold("spi_select")>>]

\* The complete four-line state each mode stands for: the lines it releases.
Released(mode) == CASE mode = "run"        -> {"controller", "global"}
                    [] mode = "controller" -> {"global"}
                    [] mode = "spi"        -> {"spi"}
                    [] OTHER               -> {}

-----------------------------------------------------------------------------
TypeOK ==
  /\ line \in [Lines -> BOOLEAN] /\ chipSelect \in BOOLEAN
  /\ job \in Jobs \cup {Idle}
  /\ todo \in Seq([pin : Lines \cup {"designation"}, to : BOOLEAN])
  /\ reached \in Modes \cup {Idle}
  /\ faults \in 0 .. MaxFaults

Init ==
  /\ line \in {l \in [Lines -> BOOLEAN] :
                 /\ l["controller"] => l["global"] /\ ~ l["spi"]
                 /\ l["spi"] => ~ l["global"]}
  /\ chipSelect = FALSE
  /\ job = Idle /\ todo = <<>> /\ reached = Idle
  /\ faults = 0

\* One foreground job at a time.
StartJob(j) ==
  /\ job = Idle
  /\ job' = j /\ todo' = Steps[j]
  /\ reached' = Idle
  /\ UNCHANGED <<line, chipSelect, faults>>

\* The levels after a step; a pin that is CHIP_SELECT ignores its output value,
\* and becomes some level of the SPI engine when designated.
LevelsAfter(step) ==
  IF step.pin = "designation"
    THEN {[line EXCEPT !["spi_select"] = level] : level \in BOOLEAN}
    ELSE IF step.pin = "spi_select" /\ chipSelect
      THEN {line}
      ELSE {[line EXCEPT ![step.pin] = step.to]}

WritePin ==
  /\ todo # <<>>
  /\ line' \in LevelsAfter(Head(todo))
  /\ chipSelect' = IF Head(todo).pin = "designation" THEN Head(todo).to ELSE chipSelect
  /\ todo' = Tail(todo)
  /\ UNCHANGED <<job, reached, faults>>

AnyJobIsAMode ==   \* (mutant)
  /\ job # Idle /\ todo = <<>>
  /\ reached' = job /\ job' = Idle
  /\ UNCHANGED <<line, chipSelect, todo, faults>>
FinishJob ==
  /\ job # Idle /\ todo = <<>>
  /\ reached' = IF job \in Modes THEN job ELSE Idle
  /\ job' = Idle
  /\ UNCHANGED <<line, chipSelect, todo, faults>>

\* An exception (USB, a bad frame, Ctrl-C) leaves the lines where they are.
JobFails ==
  /\ job # Idle
  /\ faults < MaxFaults /\ faults' = faults + 1
  /\ job' = Idle /\ todo' = <<>>
  /\ UNCHANGED <<line, chipSelect, reached>>

\* A new connection makes all pins GPIO, at the levels it observes.
Reopen ==
  /\ job = Idle /\ chipSelect
  /\ chipSelect' = FALSE /\ reached' = Idle
  /\ UNCHANGED <<line, job, todo, faults>>

Next == (\E j \in Jobs : StartJob(j)) \/ WritePin \/ FinishJob \/ JobFails \/ Reopen

Spec == Init /\ [][Next]_vars

-----------------------------------------------------------------------------
\* No job, complete or cut short anywhere, and no sequence of jobs, holds the
\* crypto cores in reset under a running CPU (resets.py:18-25).
NeverWedged == line["controller"] => line["global"]

\* The SPI loader is never released next to a running CPU or crypto core, also
\* when a programming job is cut short and another job follows (resets.py:14-16).
LoaderNeverDisturbs == line["spi"] => ~ line["controller"] /\ ~ line["global"]

\* Whenever the CPU leaves reset it boots with the crypto cores out of reset and
\* the loader held (programmer.py:236-245).
BootsIntoRunState ==
  ~ line["controller"] /\ line'["controller"] => line["global"] /\ ~ line["spi"]

Reaches(lines) == \A l \in lines : line[l] <=> l \in Released(reached)

\* A mode applied to its end leaves exactly its four levels, whatever the jobs
\* before it left behind, unless spi_select is no output pin (resets.py:24-25).
ModeReached == reached # Idle => Reaches(IF chipSelect THEN Lines \ {"spi_select"} ELSE Lines)

\* Whatever the jobs before it and wherever they were cut short, a job boots the chip
\* only into its run state and leaves the levels it is named for.
JobsReachTheirLevels == [][TypeOK' /\ BootsIntoRunState /\ ModeReached']_vars
=============================================================================
