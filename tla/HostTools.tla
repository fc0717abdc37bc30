------------------------------ MODULE HostTools ------------------------------
(***************************************************************************)
(* The programs of the host library on one host: "proact capture"          *)
(* (Experiment), "proact run" (Operations), "proact selfcheck" (SelfCheck),*)
(* "proact monitor" (MonitorDecoder) or the start of an acquisition        *)
(* campaign (TargetAdapter) at the board, or any user of the trace store   *)
(* with a concurrent reader (TracePack).  One of them runs; the board, the *)
(* Husky and perhaps a GUI are there before it.                            *)
(***************************************************************************)
EXTENDS Experiment, Operations, SelfCheck, MonitorDecoder, TargetAdapter

CONSTANT DeadCores      \* the sets of cores that may not work

ASSUME DeadCoresAssumption == DeadCores \subseteq SUBSET Cores

hostVars ==
  <<vars, device, session, experimentVars, operationVars, checkVars, decoderVars, adapterVars>>

HostTypeOK ==
  /\ program \in {"store", "experiment", "run", "selfcheck", "monitor", "acquire"}
  /\ SessionTypeOK /\ ExperimentTypeOK /\ OperationsTypeOK /\ SelfCheckTypeOK
  /\ DecoderTypeOK /\ AdapterTypeOK

\* The options that a program does not have are left at one value.
HostInit ==
  /\ Init /\ ExperimentInit /\ OperationsInit /\ SelfCheckInit /\ DecoderInit /\ AdapterInit
  /\ \/ /\ program = "store"
        /\ BoardInit({}, {Junk}) /\ flock = Free /\ says = <<>>
     \/ program \in {"experiment", "run"} /\ BoardInit({}, {Junk})
     \/ program = "selfcheck" /\ \E dead \in DeadCores : BoardInit(dead, {Junk})
     \/ program = "monitor" /\ BoardInit({}, {Junk}) /\ says = <<>>
     \/ /\ program = "acquire"
        /\ \E dead \in {{}, {campaign.core}} : BoardInit(dead, {Junk, Enc(1)})
  /\ program # "experiment" => plan = CHOOSE p \in Plans : TRUE
  /\ program # "run" => order = CHOOSE o \in Orders : TRUE
  /\ program # "selfcheck" => options = CHOOSE c \in Checkups : TRUE
  /\ program # "acquire" => campaign = CHOOSE c \in Campaigns : TRUE

StoreProgram ==
  /\ program = "store"
  /\ Next
  /\ UNCHANGED <<device, session>>
  /\ UNCHANGED <<experimentVars, operationVars, checkVars, decoderVars, adapterVars>>

Experimented ==
  /\ program = "experiment"
  /\ Experimenting \/ (SkipsText /\ Stays)
  /\ UNCHANGED <<reader, operationVars, checkVars, decoderVars, adapterVars>>

ExperimentDisturbed ==
  /\ program = "experiment"
  /\ Raises \/ Killed
  /\ UNCHANGED <<reader, operationVars, checkVars, decoderVars, adapterVars>>

Operated ==
  /\ program = "run"
  /\ Operating \/ (SkipsText /\ UNCHANGED operationVars)
  /\ UNCHANGED <<vars, experimentVars, checkVars, decoderVars, adapterVars>>

OperationDisturbed ==
  /\ program = "run"
  /\ OperationsInterrupted
  /\ UNCHANGED <<vars, experimentVars, checkVars, decoderVars, adapterVars>>

SelfChecked ==
  /\ program = "selfcheck"
  /\ SelfChecking \/ (SkipsText /\ UNCHANGED checkVars)
  /\ UNCHANGED <<vars, experimentVars, operationVars, decoderVars, adapterVars>>

SelfCheckDisturbed ==
  /\ program = "selfcheck"
  /\ Interrupted
  /\ UNCHANGED <<vars, experimentVars, operationVars, decoderVars, adapterVars>>

Monitored ==
  /\ program = "monitor"
  /\ Monitoring
  /\ UNCHANGED <<vars, experimentVars, operationVars, checkVars, adapterVars>>

MonitorEnds ==
  /\ program = "monitor"
  /\ StopsWatching
  /\ UNCHANGED <<vars, experimentVars, operationVars, checkVars, adapterVars>>

Acquired ==
  /\ program = "acquire"
  /\ Acquiring \/ (SkipsText /\ UNCHANGED adapterVars)
  /\ UNCHANGED <<vars, experimentVars, operationVars, checkVars, decoderVars>>

AcquireDisturbed ==
  /\ program = "acquire"
  /\ AdapterRaises
  /\ UNCHANGED <<vars, experimentVars, operationVars, checkVars, decoderVars>>

\* The board and another terminal, while a program has the port.
World ==
  /\ program \notin {"store", "monitor"}
  /\ Sends \/ KeepsSilent \/ (phase # "over" /\ Reboot)
  /\ UNCHANGED <<vars, experimentVars, operationVars, checkVars, decoderVars, adapterVars>>

HostNext ==
  \/ StoreProgram \/ Experimented \/ ExperimentDisturbed \/ Operated \/ OperationDisturbed
  \/ SelfChecked \/ SelfCheckDisturbed \/ Monitored \/ MonitorEnds
  \/ Acquired \/ AcquireDisturbed \/ World

ProgramGoesOn == Experimented \/ Operated \/ SelfChecked \/ Monitored \/ Acquired

\* A program goes on by itself, the monitor until its time is over; the controller
\* sends what it has to send.
HostSpec ==
  /\ HostInit /\ [][HostNext]_hostVars
  /\ WF_hostVars(ProgramGoesOn) /\ WF_hostVars(MonitorEnds) /\ WF_hostVars(World)

-----------------------------------------------------------------------------
\* The trace store keeps its promises to its user and to a reader that runs beside
\* it, whatever write fails.
TraceStoreIsSound ==
  TypeOK /\ ReaderNeverRefuses /\ ReaderSeesCheckpoint /\ FlushedMeansSaved /\ BufferBounded

\* What "proact capture" and "proact run" store, print and report is what the board
\* did for that row.
ResultsAreTrue ==
  /\ HostTypeOK
  /\ ValidRowsAreTheirOwn /\ TracesAreFresh /\ SamplesAreMeasured /\ SampledOnTargetClock
  /\ PassedRowsAreRight
  /\ StatusIsTrue /\ RunStatusIsTrue

\* The self-check blames the cores that are dead, all of them and no other.
SelfCheckIsTrue == DeadCoreNeverPasses /\ DeadCoresHideNoOther

\* A campaign starts only with an aligned link to a target that works and, where it
\* is masked, is seeded.
BringUpIsSound == VerifiedIsAligned /\ PreflightProvesTarget /\ MaskedBootsSeeded

\* A program that is over holds neither the port nor its lock, and a capture
\* program no scope: after success, an error at any step, a refused port, Ctrl-C
\* or SIGKILL the next one can start (experiment.py:320, cli.py:548).
DevicesReleased ==
  phase = "over" =>
    /\ "cli" \notin opened /\ flock # "cli"
    /\ (program \in {"experiment", "acquire"} \/ status = "ok") => ~ husky.handle

\* Every program ends, whatever the board does not answer.
ProgramsEnd == program # "store" => <>(phase = "over")
===============================================================================
