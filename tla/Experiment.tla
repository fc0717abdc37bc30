------------------------------ MODULE Experiment ------------------------------
(***************************************************************************)
(* The capture program of the host library                                 *)
(* (Software/Python/proact_host/experiment.py, "proact capture"): prepare  *)
(* opens the port, the scope and the store, capture runs the operations    *)
(* and stores a row or a failure for each, save writes the rest, and close *)
(* gives everything back, also after an error or Ctrl-C at any point.      *)
(*                                                                         *)
(* A row keeps the number of the operation it asked for, the one whose     *)
(* answer it holds and the one whose trace it holds: the program knows     *)
(* only whether the output is the encryption of the row's input.           *)
(*                                                                         *)
(* Simplifications: every input of a randomized run is new; the outputs of *)
(* two inputs differ; the AEAD cores take the place of an AES core.        *)
(***************************************************************************)
EXTENDS TracePack, Controller

CONSTANTS
  Plans,                \* the options of the programs
  Rows,                 \* n: operations of the capture program
  SaveEvery             \* save_every: rows between two checkpoints

ASSUME ExperimentAssumption ==
  /\ Plans \subseteq [core : Cores, platform : Platforms, bitstream : BOOLEAN, auto : BOOLEAN,
                      capture : BOOLEAN, random : BOOLEAN]
  /\ Rows \in Nat \ {0} /\ SaveEvery \in Nat \ {0}
  /\ Rows < MaxInputs /\ Rows <= MaxRows /\ Rows <= MaxNotes

VARIABLES
  plan,                 \* the options of this program
  row,                  \* the local variables of the loop
  rows                  \* what the accepted rows hold

experimentVars == <<plan, row, rows>>
device == <<link, boardVars, husky>>
store == <<writer, reader>>

RowFrom == [valid : BOOLEAN, asked : Asks, answered : Asks, traced : Asks \cup {0},
            calm : BOOLEAN, clocked : BOOLEAN, fits : BOOLEAN]

ExperimentTypeOK ==
  /\ plan \in Plans
  /\ row \in [i : 0 .. Rows, done : 0 .. Rows, input : 0 .. MaxInputs, ask : 0 .. MaxAsks,
              answered : 0 .. MaxAsks]
  /\ rows \in Seq(RowFrom) /\ Len(rows) <= accepted

ExperimentInit ==
  /\ plan \in Plans
  /\ row = [i |-> 0, done |-> 0, input |-> 0, ask |-> 0, answered |-> 0]
  /\ rows = <<>>

Goto(p) == phase' = p /\ UNCHANGED <<program, status>>
Stays == UNCHANGED <<store, experimentVars>>

-----------------------------------------------------------------------------
(* prepare: any step of it may raise.                                      *)

Connect ==
  /\ \/ phase = "start" /\ OpenLock("port", "over")
     \/ phase = "port" /\ OpenPort("commands", "over")
  /\ Stays

ConfigureTarget ==
  /\ phase = "commands"
  /\ EnableSendback
  /\ Goto(IF plan.capture THEN "scope" ELSE "store")
  /\ UNCHANGED <<link, says, husky, missed>> /\ Stays

ConnectScope ==
  /\ \/ phase = "scope" /\ OpenScope /\ Goto("setup")
     \/ phase = "setup" /\ SetUpScope /\ Goto("clock")
     \/ phase = "clock" /\ BringUpClock(plan.platform, plan.bitstream) /\ Goto("store")
  /\ UNCHANGED <<link, boardVars, missed>> /\ Stays

CreateStore ==
  /\ phase = "store"
  /\ Goto(IF plan.capture /\ plan.auto THEN "fit" ELSE "row")
  /\ UNCHANGED <<device, missed>> /\ Stays

-----------------------------------------------------------------------------
(* One operation.                                                          *)

NextInput == IF plan.random THEN row.input + 1 ELSE 0

\* The core computes the output, or does not finish.
Outputs(input) ==
  {Enc(input), IF plan.core = "swrv" THEN board.result ELSE Junk}

\* set_plaintext, arm, CMD_RDY.
Launch ==
  /\ \E output \in Outputs(NextInput) : RunCore(output)
  /\ husky' = IF plan.capture THEN Armed ELSE husky
  /\ missed' = missed

\* The throw-away operation that measures the window: on the first error it is
\* over, and what it did not read stays where it is.
FitLaunches ==
  /\ phase = "fit"
  /\ Launch /\ Goto("fit answer")
  /\ row' = [row EXCEPT !.input = NextInput, !.ask = asked']
  /\ UNCHANGED <<store, plan, rows>>

FitReads ==
  /\ phase = "fit answer"
  /\ ReadFrame(row.ask) /\ Goto("fit trace")
  /\ UNCHANGED <<boardVars, husky>> /\ Stays

FitCaptures ==
  /\ phase = "fit trace" /\ CaptureDone
  /\ AskWord /\ Goto("fit cycles")
  /\ row' = [row EXCEPT !.ask = asked']
  /\ UNCHANGED <<husky, missed, store, plan, rows>>

\* Any answer has four bytes to read as cycles; the setting of the scope may be
\* refused, and is kept silently.
FitGrows ==
  /\ phase = "fit cycles"
  /\ ReadFrame(row.ask) /\ Goto("row")
  /\ LET size == IF Got = Word THEN "window" ELSE "garbage"
     IN  husky' \in {Fitted(size), husky}
  /\ UNCHANGED boardVars /\ Stays

\* The first call that raises ends the measurement.
FitGoesOn ==   \* (mutant)
  \/ /\ phase = "fit answer"
     /\ NoFrame(row.ask) /\ Goto("fit trace")
     /\ UNCHANGED <<boardVars, husky>> /\ Stays
  \/ /\ phase = "fit cycles"
     /\ NoFrame(row.ask) /\ Goto("row")
     /\ UNCHANGED <<boardVars, husky>> /\ Stays
  \/ /\ phase = "fit trace"
     /\ Goto("row")
     /\ UNCHANGED <<device, missed>> /\ Stays
FitEnds ==
  \/ /\ phase \in {"fit answer", "fit cycles"}
     /\ NoFrame(row.ask) /\ Goto("row")
     /\ UNCHANGED <<boardVars, husky>> /\ Stays
  \/ /\ phase = "fit trace"
     /\ Goto("row")
     /\ UNCHANGED <<device, missed>> /\ Stays

-----------------------------------------------------------------------------
(* capture: the loop.                                                      *)

OneRowMore == row.i <= Rows   \* (mutant)
MoreRows == row.i < Rows

RowLaunches ==
  /\ phase = "row" /\ MoreRows
  /\ Launch /\ Goto("answer")
  /\ row' = [row EXCEPT !.i = @ + 1, !.input = NextInput, !.ask = asked']
  /\ UNCHANGED <<store, plan, rows>>

RowReads ==
  /\ phase = "answer"
  /\ ReadFrame(row.ask) /\ Goto(IF plan.capture THEN "trace" ELSE "append")
  /\ row' = [row EXCEPT !.answered = Head(rx)[2]]
  /\ UNCHANGED <<boardVars, husky, store, plan, rows>>

RowCaptures ==
  /\ phase = "trace" /\ CaptureDone
  /\ Goto("append")
  /\ UNCHANGED <<device, missed>> /\ Stays

\* No answer, no trigger, or a scope that fails: one line in the failure log.
RowFails ==
  /\ \/ phase = "answer" /\ NoFrame(row.ask) /\ UNCHANGED <<boardVars, husky>>
     \/ phase = "trace" /\ UNCHANGED <<device, missed>>
  /\ RecordFailure /\ Goto("row")
  /\ UNCHANGED experimentVars

\* validate_aes compares the output read with the encryption of this input.
ValidIfFull == says[row.answered][1] = "enc"   \* (mutant)
Valid == says[row.answered] = Enc(row.input)

StoreRow ==
  /\ phase = "append"
  /\ AppendRow
  /\ rows' = Append(rows, [valid |-> Valid, asked |-> row.ask, answered |-> row.answered,
                           traced |-> husky.caught, calm |-> Calm,
                           clocked |-> OnTargetClock(plan.platform),
                           fits |-> husky.samples # "garbage"])
  /\ Goto("stored")
  /\ UNCHANGED <<device, missed, plan, row>>

-----------------------------------------------------------------------------
(* Checkpoints, save, close.                                               *)

\* The writer's own steps.
StoreWorks ==
  /\ phase \in {"stored", "flush", "final", "save"} /\ pc # "idle"
  /\ \/ Flush \/ WriteChunk \/ WriteManifest \/ SwapState \/ KeepFingerprint \/ FlushRaises
  /\ UNCHANGED <<device, session, experimentVars>>

\* What a store operation that raised does to the program: nothing is retried.
StoreRaised ==
  /\ phase \in {"stored", "flush", "final", "save"} /\ pc = "idle" /\ outcome = "raised"
  /\ phase' = "disconnect" /\ status' = "error"
  /\ UNCHANGED <<device, program, missed>> /\ Stays

StoreFine == pc = "idle" /\ outcome # "raised"

CountRow ==
  /\ phase = "stored" /\ StoreFine
  /\ row' = [row EXCEPT !.done = @ + 1]
  /\ IF row'.done % SaveEvery = 0
       THEN CallFlush /\ Goto("flush")
       ELSE Goto("row") /\ UNCHANGED store
  /\ UNCHANGED <<device, missed, plan, rows>>

LoopGoesOn ==
  /\ phase = "flush" /\ StoreFine
  /\ Goto("row")
  /\ UNCHANGED <<device, missed>> /\ Stays

LastFlushForgotten ==   \* (mutant)
  /\ phase = "row" /\ row.i = Rows
  /\ phase' = "disconnect" /\ status' = IF row.done = Rows THEN "ok" ELSE "failed"
  /\ UNCHANGED <<device, program, missed>> /\ Stays
LoopEnds ==
  /\ phase = "row" /\ row.i = Rows
  /\ CallFlush /\ Goto("final")
  /\ UNCHANGED <<device, missed, experimentVars>>

Save ==
  /\ phase = "final" /\ StoreFine
  /\ CallFlush /\ Goto("save")
  /\ UNCHANGED <<device, missed, experimentVars>>

\* cmd_capture: fewer rows than requested is an error.
AllStored == row.done = Rows
Saved ==
  /\ phase = "save" /\ StoreFine
  /\ phase' = "disconnect" /\ status' = IF AllStored THEN "ok" ELSE "failed"
  /\ UNCHANGED <<device, program, missed>> /\ Stays

\* An exception outside the loop's try, or Ctrl-C anywhere: straight to close.
Working == {"commands", "scope", "setup", "clock", "store", "fit", "fit answer", "fit trace",
            "fit cycles", "row", "answer", "trace", "append"}
Raises ==
  /\ phase \in Working
  /\ phase' = "disconnect" /\ status' = "error"
  /\ UNCHANGED <<device, program, missed>> /\ Stays

DisconnectScope ==
  /\ phase = "disconnect"
  /\ Disconnect /\ Goto("shut")
  /\ UNCHANGED <<link, boardVars, missed>> /\ Stays

Close == (ShutDevice \/ ShutLock("over")) /\ Stays

\* SIGKILL: the kernel closes the port; the scope keeps its state, no handle.
Killed ==
  /\ phase \notin {"start", "over"}
  /\ phase' = "over" /\ status' = "killed"
  /\ Dies("cli", {row.ask} \cap Asks)
  /\ Disconnect
  /\ Die
  /\ UNCHANGED <<program, missed, boardVars, experimentVars>>

Prepare == Connect \/ ConfigureTarget \/ ConnectScope \/ CreateStore
Fit == FitLaunches \/ FitReads \/ FitCaptures \/ FitGrows \/ FitEnds
Capture == RowLaunches \/ RowReads \/ RowCaptures \/ RowFails \/ StoreRow
Keep == StoreWorks \/ StoreRaised \/ CountRow \/ LoopGoesOn \/ LoopEnds \/ Save \/ Saved
Experimenting == Prepare \/ Fit \/ Capture \/ Keep \/ DisconnectScope \/ Close

-----------------------------------------------------------------------------
Experiments == program = "experiment"
Captured == Experiments /\ plan.capture

\* A row of a randomized run that is marked valid holds the answer to its own
\* operation, and, as long as no answer was given up, the trace of that
\* operation too: late answers, of this program or of an earlier one, shift the
\* rows but never pass for good ones (experiment.py:215-231).
ValidRowsAreTheirOwn ==
  Captured /\ plan.random =>
    \A k \in DOMAIN rows :
      rows[k].valid =>
        /\ rows[k].answered = rows[k].asked
        /\ rows[k].calm => rows[k].traced = rows[k].asked

\* Every stored trace was caught by the arm() of its own row, never one left over
\* from an earlier row's.
TracesAreFresh ==
  Captured =>
    \A j, k \in DOMAIN rows :
      /\ rows[k].traced # 0
      /\ j < k => rows[j].traced < rows[k].traced

\* The number of samples comes from the timer's answer, unless an earlier process
\* left an answer unread (experiment.py:160-199).
SamplesAreMeasured ==
  Captured /\ (says # <<>> => says[1] # Old) => \A k \in DOMAIN rows : rows[k].fits

\* Every stored trace was sampled with the clock of its platform, unless the
\* bring-up after an FPGA upload passed over an error (capture.py:200-208).
SampledOnTargetClock ==
  Captured /\ ~ (plan.platform = "fpga" /\ plan.bitstream) =>
    \A k \in DOMAIN rows : rows[k].clocked

\* A program that reports success has saved the rows it was asked for, and one
\* that reports missing rows has saved the others with a failure for each one
\* missing (cli.py:433-439).
StatusIsTrue ==
  Experiments /\ status \in {"ok", "failed"} =>
    /\ manifest # None
    /\ manifest.rows.committed = accepted /\ manifest.notes = notes
    /\ accepted + notes = Rows
    /\ status = "ok" <=> accepted = Rows
===============================================================================
