------------------------------ MODULE GuiSession ------------------------------
(***************************************************************************)
(* The session of the host GUI (Software/GUI/proact_gui.py) and a command  *)
(* of the host CLI beside it, on the line that UartLink describes.  The Qt *)
(* thread starts at most one worker thread (_run) and one poll thread      *)
(* (_poll), and handles their completion signals and the user's requests   *)
(* one at a time; the workers connect, disconnect, ask, capture, send,     *)
(* program and restart.  Every blocking or fallible step of a worker is a  *)
(* step here; the CLI process may be killed at any of its steps.           *)
(*                                                                         *)
(* Simplifications: the commands of a job that have no answer are left     *)
(* out, and so are the widgets; ask stands for every job that is one       *)
(* transaction or reads several words by transactions of their own; the    *)
(* SPI bridge is there or not, its pins are ResetLines' subject; the scope *)
(* is open or not, its waveforms are ChipWhisperer's; nobody pulls the USB *)
(* plug.                                                                   *)
(* PROACTExperiment.capture has the same loop as the capture here.         *)
(*                                                                         *)
(* A definition marked (mutant) is wrong on purpose: a plausible slip that *)
(* takes the place of the definition after it to show that the properties  *)
(* notice.                                                                 *)
(***************************************************************************)
EXTENDS UartLink

CONSTANTS
  Traces,               \* rows of one capture
  MaxConnects,          \* bound: transports the GUI creates
  MaxCli                \* bound: commands of the CLI

ASSUME SessionBounds ==
  /\ Traces \in Nat \ {0} /\ MaxConnects \in Nat /\ MaxCli \in Nat

VARIABLES
  uart,                 \* self.uart: a transport by number; 0 is None
  transports,           \* transports created so far
  serial,               \* the GUI's transport whose device is open; 0: none
  lock,                 \* UartTransport.lock of each transport
  spi,                  \* self.programmer and self.resets are there
  scope,                \* self.scope is there
  husky,                \* the device of a scope is open
  job,                  \* the worker thread; not idle is self._busy
  poll,                 \* the poll thread; not idle is self._poll_active
  closeRequested,       \* self._close_requested
  closing,              \* self._closing: the window is gone
  images,               \* firmware images so far
  rows,                 \* the running capture's: <<the command of a row, the answer stored>>
  failures,             \* record_failure was called in it
  cleanStart,           \* it began with no answer of an earlier command on its way
  cli                   \* the other process

board == <<spi, scope, husky>>
session == <<uart, transports, serial, lock, board, closeRequested, closing, images>>
capture == <<rows, failures, cleanStart>>
vars == <<link, session, job, poll, capture, cli>>

Transports == 1 .. MaxConnects
Busy == job.pc # "idle"
PollActive == poll.pc # "idle"
IdleJob == [kind |-> "none", pc |-> "idle", ask |-> 0, row |-> 0, failed |-> FALSE]
IdlePoll == [pc |-> "idle", uart |-> 0]

JobStates ==
  [kind : {"none", "connect", "disconnect", "close", "ask", "capture", "send", "program",
           "restart", "scope", "scope_off"},
   pc : {"idle", "shut", "unlock", "lockfile", "serial", "spi", "spi_off", "acquire", "cw",
         "cw_setup", "cw_off", "write", "read", "load", "boot", "drain", "hold", "reboot",
         "banner", "release", "done"},
   ask : 0 .. MaxAsks, row : 0 .. Traces, failed : BOOLEAN]

PollStates == [pc : {"idle", "try", "read", "done"}, uart : 0 .. MaxConnects]

CliStates ==
  [pc : {"idle", "lockfile", "serial", "write", "read", "close", "unlock"},
   ask : 0 .. MaxAsks, runs : 0 .. MaxCli]

\* Types; and the GUI process has the port open exactly while one of its
\* transports has, the one it calls its own.
TypeOK ==
  /\ LinkTypeOK
  /\ transports \in 0 .. MaxConnects /\ uart \in 0 .. transports /\ serial \in {0, uart}
  /\ serial # 0 <=> "gui" \in opened
  /\ lock \in [Transports -> {Free, "job", "poll"}]
  /\ spi \in BOOLEAN /\ scope \in BOOLEAN /\ husky \in BOOLEAN
  /\ closeRequested \in BOOLEAN /\ closing \in BOOLEAN
  /\ failures \in BOOLEAN /\ cleanStart \in BOOLEAN
  /\ job \in JobStates /\ poll \in PollStates /\ cli \in CliStates
  /\ images \in 1 .. MaxLoads
  /\ rows \in Seq(Asks \X Asks) /\ Len(rows) <= Traces

Init ==
  /\ LinkInit
  /\ uart = 0 /\ transports = 0 /\ serial = 0
  /\ lock = [u \in Transports |-> Free]
  /\ spi = FALSE /\ scope = FALSE /\ husky = FALSE
  /\ job = IdleJob /\ poll = IdlePoll
  /\ closeRequested = FALSE /\ closing = FALSE /\ images = 1
  /\ rows = <<>> /\ failures = FALSE /\ cleanStart = FALSE
  /\ cli = [pc |-> "idle", ask |-> 0, runs |-> 0]

-----------------------------------------------------------------------------
(* The Qt thread: requests of the user.                                    *)

\* _run: one worker owns the session.
Begin(kind, pc) ==
  /\ ~Busy /\ ~closing
  /\ job' = [kind |-> kind, pc |-> pc, ask |-> 0, row |-> 0, failed |-> FALSE]

Run(kind, pc) ==
  /\ Begin(kind, pc)
  /\ UNCHANGED <<link, session, poll, capture, cli>>

OnConnect == transports < MaxConnects /\ Run("connect", IF uart = 0 THEN "lockfile" ELSE "shut")
OnDisconnect == Run("disconnect", IF uart = 0 THEN "spi_off" ELSE "shut")
OnAsk == uart # 0 /\ asked < MaxAsks /\ Run("ask", "acquire")
OnSend == uart # 0 /\ asked < MaxAsks /\ Run("send", "acquire")

\* Its own scope job, or the CW305's bitstream, which needs one.
OnScope == ~scope /\ Run("scope", "cw")
OnScopeOff == scope /\ Run("scope_off", "cw_off")

OnCapture ==
  /\ uart # 0 /\ scope /\ asked + Traces <= MaxAsks
  /\ Run("capture", "acquire")

\* Restart, and every reset preset that ends with the CPU released.
OnRestart ==
  /\ spi
  /\ \A image \in 1 .. MaxLoads : Banner(image) \notin OnTheWay   \* bound: one unread banner
  /\ Run("restart", "hold")

OnProgram ==
  /\ spi /\ images < MaxLoads
  /\ Begin("program", "load")
  /\ images' = images + 1
  /\ UNCHANGED <<link, uart, transports, serial, lock, board, closeRequested, closing,
                 poll, capture, cli>>

\* closeEvent: not under a running thread; then give back what is held, first.
MayCloseUnderPoll == ~Busy   \* (mutant)
MayClose == ~Busy /\ ~PollActive

CloseEvent ==
  /\ MayClose /\ ~closing
  /\ IF uart # 0 \/ spi \/ scope
     THEN /\ Begin("close", IF uart = 0 THEN "spi_off" ELSE "shut")
          /\ closeRequested' = TRUE
          /\ UNCHANGED closing
     ELSE /\ closing' = TRUE
          /\ UNCHANGED <<job, closeRequested>>
  /\ UNCHANGED <<link, uart, transports, serial, lock, board, images, poll, capture, cli>>

-----------------------------------------------------------------------------
(* The Qt thread: the timer and the completion signals.                    *)

\* _poll: what the thread will use is read here, once.
PollTick ==
  /\ ~Busy /\ ~PollActive /\ ~closing
  /\ spi \/ uart # 0
  /\ \E monitor \in BOOLEAN :   \* the box that switches the monitor
       /\ monitor => uart # 0
       /\ spi \/ monitor
       /\ poll' = [pc |-> IF monitor THEN "try" ELSE "done", uart |-> IF monitor THEN uart ELSE 0]
  /\ UNCHANGED <<link, session, job, capture, cli>>

FinishPoll ==
  /\ poll.pc = "done"
  /\ poll' = IdlePoll
  /\ UNCHANGED <<link, session, job, capture, cli>>

\* _finish_job, with the close() it may call: a closing job that went well has
\* left nothing to give back.
FinishJob ==
  /\ job.pc = "done"
  /\ job' = IdleJob
  /\ closeRequested' = FALSE
  /\ closing' = (closeRequested /\ ~job.failed /\ ~PollActive /\ uart = 0 /\ ~spi /\ ~scope)
  /\ UNCHANGED <<link, uart, transports, serial, lock, board, images, poll, capture, cli>>

-----------------------------------------------------------------------------
(* The poll thread.                                                        *)

\* (mutant) The monitor reads without the lock.
PollUnlocked ==
  /\ poll.pc = "try"
  /\ poll' = [poll EXCEPT !.pc = "read"]
  /\ UNCHANGED <<link, session, job, capture, cli>>

\* _pump_monitor asks for the lock and does not wait for it.
PollTry ==
  /\ poll.pc = "try"
  /\ IF lock[poll.uart] = Free
     THEN lock' = [lock EXCEPT ![poll.uart] = "poll"] /\ poll' = [poll EXCEPT !.pc = "read"]
     ELSE poll' = [pc |-> "done", uart |-> 0] /\ UNCHANGED lock
  /\ UNCHANGED <<link, uart, transports, serial, board, closeRequested, closing,
                 images, job, capture, cli>>

PollReads ==
  /\ poll.pc = "read"
  /\ IF serial = poll.uart THEN ReadAvailable ELSE UNCHANGED link
  /\ lock' = [lock EXCEPT ![poll.uart] = IF @ = "poll" THEN Free ELSE @]
  /\ poll' = [pc |-> "done", uart |-> 0]
  /\ UNCHANGED <<uart, transports, serial, board, closeRequested, closing,
                 images, job, capture, cli>>

-----------------------------------------------------------------------------
(* The worker: connecting and disconnecting.                               *)

InJob(pc) == job.pc = pc
Goto(pc) == job' = [job EXCEPT !.pc = pc]
JobLeaves == UNCHANGED <<poll, cli, closeRequested, closing, images>>

\* UartTransport.close, its two halves; serial.close may raise, the lock file is
\* released all the same.
ShutSerial ==
  /\ InJob("shut") /\ lock[uart] \in {Free, "job"}
  /\ CloseSerial("gui") /\ serial' = 0
  /\ lock' = [lock EXCEPT ![uart] = "job"]
  /\ \E raised \in BOOLEAN : job' = [job EXCEPT !.pc = "unlock", !.failed = raised]
  /\ UNCHANGED <<uart, transports, board, capture>> /\ JobLeaves

\* After close raised, self.uart still names the closed transport: a connect goes
\* on with the SPI bridge, a disconnect ends as failed.
ShutLockFile ==
  /\ InJob("unlock")
  /\ ReleaseFlock("gui")
  /\ lock' = [lock EXCEPT ![uart] = Free]
  /\ uart' = IF job.failed THEN uart ELSE 0
  /\ job' = [job EXCEPT !.pc = IF job.kind = "connect"
                               THEN IF job.failed THEN "spi" ELSE "lockfile"
                               ELSE IF job.failed THEN "done" ELSE "spi_off",
                        !.failed = @ /\ job.kind # "connect"]
  /\ UNCHANGED <<transports, serial, board, capture>> /\ JobLeaves

\* UartTransport.open: no device or a held lock file is an error of the UART only.
OpenLockFile ==
  /\ InJob("lockfile")
  /\ transports' = transports + 1
  /\ \/ TakeFlock("gui") /\ Goto("serial")
     \/ UNCHANGED link /\ Goto("spi")
  /\ UNCHANGED <<uart, serial, lock, board, capture>> /\ JobLeaves

OpenDevice ==
  /\ InJob("serial")
  /\ \/ OpenSerial("gui") /\ uart' = transports /\ serial' = transports
     \/ ReleaseFlock("gui") /\ UNCHANGED <<uart, serial>>
  /\ Goto("spi")
  /\ UNCHANGED <<transports, lock, board, capture>> /\ JobLeaves

\* The SPI bridge, with an except of its own; on a CW305 the scope and its
\* bitstream next.
OpenBridge ==
  /\ InJob("spi")
  /\ spi' \in BOOLEAN
  /\ \/ Goto("done") \/ Goto("cw")
  /\ UNCHANGED <<link, uart, transports, serial, scope, husky, lock, capture>> /\ JobLeaves

\* _connect_new_scope: the device, then its set-up; a scope that is there already
\* only gets the bitstream.
OpenScope ==
  /\ InJob("cw")
  /\ \/ ~scope /\ husky' = TRUE /\ Goto("cw_setup")
     \/ UNCHANGED husky /\ job' = [job EXCEPT !.pc = "done", !.failed = (job.kind = "scope")]
  /\ UNCHANGED <<link, uart, transports, serial, spi, scope, lock, capture>> /\ JobLeaves

\* A set-up that fails gives the device back before anybody knows the scope.
ScopeLeftOpen == UNCHANGED husky   \* (mutant)
ScopeCleaned == husky' = FALSE

SetUpScope ==
  /\ InJob("cw_setup")
  /\ \/ scope' = TRUE /\ UNCHANGED husky /\ Goto("done")
     \/ /\ ScopeCleaned /\ UNCHANGED scope
        /\ job' = [job EXCEPT !.pc = "done", !.failed = (job.kind = "scope")]
  /\ UNCHANGED <<link, uart, transports, serial, spi, lock, capture>> /\ JobLeaves

\* disconnect swallows what closing the device raises.
CloseScope ==
  /\ InJob("cw_off")
  /\ husky' = FALSE /\ scope' = FALSE
  /\ Goto("done")
  /\ UNCHANGED <<link, uart, transports, serial, spi, lock, capture>> /\ JobLeaves

\* The rest of _disconnect_resources; the HID handle's close may raise.  The scope
\* is let go only to close the window.
CloseBridge ==
  /\ InJob("spi_off")
  /\ \/ /\ spi' = FALSE
        /\ Goto(IF job.kind = "close" /\ scope THEN "cw_off" ELSE "done")
     \/ /\ spi
        /\ job' = [job EXCEPT !.pc = "done", !.failed = TRUE]
        /\ UNCHANGED spi
  /\ UNCHANGED <<link, uart, transports, serial, scope, husky, lock, capture>> /\ JobLeaves

-----------------------------------------------------------------------------
(* The worker: transactions.                                               *)

\* The lock may be taken again by the thread that holds it.
NotTwice(u) == lock[u] = Free   \* (mutant)
MayTake(u) == lock[u] \in {Free, "job"}

Acquire ==
  /\ InJob("acquire") /\ lock[uart] = Free
  /\ lock' = [lock EXCEPT ![uart] = "job"]
  /\ Goto(IF job.kind = "program" THEN "drain" ELSE "write")
  /\ IF job.kind = "capture"
     THEN cleanStart' = \A ask \in Asks : Answer(ask) \notin OnTheWay
     ELSE UNCHANGED cleanStart
  /\ UNCHANGED <<link, uart, transports, serial, board, rows, failures>> /\ JobLeaves

Release ==
  /\ InJob("release")
  /\ lock' = [lock EXCEPT ![uart] = Free]
  /\ job' = [job EXCEPT !.pc = "done", !.ask = 0, !.row = 0]
  /\ rows' = <<>> /\ failures' = FALSE /\ cleanStart' = FALSE
  /\ UNCHANGED <<link, uart, transports, serial, board>> /\ JobLeaves

\* A transport closed by a failed disconnect: the command raises.
WriteToClosed ==
  /\ InJob("write") /\ MayTake(uart) /\ serial # uart
  /\ job' = [job EXCEPT !.pc = "release", !.failed = (job.kind # "ask")]
  /\ UNCHANGED <<link, session, poll, capture, cli>>

\* _cmd.  A raw byte may be a command with an answer that nobody reads for.
Write ==
  /\ InJob("write") /\ MayTake(uart) /\ serial = uart
  /\ Send(job.kind # "send")
  /\ job' = IF job.kind = "send" THEN [job EXCEPT !.pc = "release"]
                                 ELSE [job EXCEPT !.pc = "read", !.ask = asked']
  /\ UNCHANGED <<session, poll, capture, cli>>

\* The end of one row of a capture, or of a single transaction; a capture with
\* fewer rows than it should have ends as failed.
NextRow ==
  job' = IF job.kind = "capture" /\ job.row + 1 < Traces
         THEN [job EXCEPT !.pc = "write", !.row = @ + 1]
         ELSE [job EXCEPT !.pc = "release", !.failed = (job.kind = "capture" /\ failures')]

\* (mutant) The loop goes on and nothing is recorded.
RowSkipped ==
  /\ UNCHANGED <<rows, failures, cleanStart>>
  /\ NextRow

RowFails ==
  /\ failures' = (failures \/ job.kind = "capture")
  /\ UNCHANGED <<rows, cleanStart>>
  /\ NextRow

\* The scope did not arm: the row fails before its command is sent.
ArmFails ==
  /\ InJob("write") /\ job.kind = "capture" /\ serial = uart
  /\ RowFails
  /\ UNCHANGED <<link, session, poll, cli>>

\* read_frame found a frame.  The waveform may still fail to arrive.
ReadFrame ==
  /\ InJob("read")
  /\ TakeFrame(job.ask)
  /\ \/ /\ rows' = IF job.kind = "capture" THEN Append(rows, <<job.ask, Head(rx)[2]>>) ELSE rows
        /\ UNCHANGED <<failures, cleanStart>>
        /\ NextRow
     \/ job.kind = "capture" /\ RowFails
  /\ UNCHANGED <<session, poll, cli>>

ReadText ==
  /\ InJob("read") /\ SkipText
  /\ UNCHANGED <<session, job, poll, capture, cli>>

ReadTimesOut ==
  /\ InJob("read") /\ GiveUp(job.ask)
  /\ RowFails
  /\ UNCHANGED <<session, poll, cli>>

-----------------------------------------------------------------------------
(* The worker: programming and restarting the controller.                  *)

\* program: hold, stream, boot; an SPI error on the way leaves a broken image.
Load ==
  /\ InJob("load")
  /\ Hold(0)
  /\ \/ Goto("boot") \/ Goto("done")
  /\ UNCHANGED <<session, poll, capture, cli>>

BootLoaded ==
  /\ InJob("boot")
  /\ Boot(images)
  /\ Goto(IF uart = 0 THEN "done" ELSE "acquire")
  /\ UNCHANGED <<session, poll, capture, cli>>

\* verify_running: UartTransport has no reset_input_buffer, so the buffer is
\* drained with read_available; then a restart, and the banner or the deadline.
NothingDrained == UNCHANGED link   \* (mutant)
Drained == IF serial = uart THEN ReadAvailable ELSE UNCHANGED link

Drain ==
  /\ InJob("drain")
  /\ Drained
  /\ Goto("hold")
  /\ UNCHANGED <<session, poll, capture, cli>>

HoldAgain ==
  /\ InJob("hold")
  /\ Hold(firmware)
  /\ Goto("reboot")
  /\ UNCHANGED <<session, poll, capture, cli>>

BootAgain ==
  /\ InJob("reboot")
  /\ Boot(firmware)
  /\ Goto(IF job.kind = "program" THEN "banner" ELSE "done")
  /\ UNCHANGED <<session, poll, capture, cli>>

Announced == serial = uart /\ \E image \in 1 .. MaxLoads : Banner(image) \in ToSet(rx)

AwaitBanner ==
  /\ InJob("banner")
  /\ IF serial = uart THEN ReadAvailable ELSE UNCHANGED link
  /\ \/ Announced /\ Goto("release")
     \/ ~Announced /\ rx # <<>> /\ serial = uart /\ UNCHANGED job
     \/ ~Announced /\ Goto("release")   \* the deadline
  /\ UNCHANGED <<session, poll, capture, cli>>

-----------------------------------------------------------------------------
(* A command of the CLI in a process of its own: open, ask, close.         *)

CliGoto(pc) == cli' = [cli EXCEPT !.pc = pc, !.ask = 0]
CliOnly == UNCHANGED <<session, job, poll, capture>>

CliStart ==
  /\ cli.pc = "idle" /\ cli.runs < MaxCli
  /\ cli' = [pc |-> "lockfile", ask |-> 0, runs |-> cli.runs + 1]
  /\ UNCHANGED link /\ CliOnly

CliOpen ==
  /\ \/ cli.pc = "lockfile" /\ TakeFlock("cli") /\ CliGoto("serial")
     \/ cli.pc = "lockfile" /\ flock # Free /\ UNCHANGED link /\ CliGoto("idle")
     \/ cli.pc = "serial" /\ OpenSerial("cli") /\ CliGoto("write")
     \/ cli.pc = "serial" /\ UNCHANGED link /\ CliGoto("unlock")
  /\ CliOnly

CliAsks ==
  /\ cli.pc = "write"
  /\ Send(TRUE)
  /\ cli' = [cli EXCEPT !.pc = "read", !.ask = asked']
  /\ CliOnly

CliReads ==
  /\ cli.pc = "read"
  /\ \/ SkipText /\ UNCHANGED cli
     \/ TakeFrame(cli.ask) /\ CliGoto("close")
     \/ GiveUp(cli.ask) /\ CliGoto("close")
  /\ CliOnly

CliCloses ==
  /\ \/ cli.pc = "close" /\ CloseSerial("cli") /\ CliGoto("unlock")
     \/ cli.pc = "unlock" /\ ReleaseFlock("cli") /\ CliGoto("idle")
  /\ CliOnly

CliKilled ==
  /\ cli.pc # "idle"
  /\ Dies("cli", IF cli.pc = "read" THEN {cli.ask} ELSE {})
  /\ CliGoto("idle")
  /\ CliOnly

-----------------------------------------------------------------------------
QtThread ==
  \/ OnConnect \/ OnDisconnect \/ OnAsk \/ OnSend \/ OnScope \/ OnScopeOff \/ OnCapture
  \/ OnProgram \/ OnRestart \/ CloseEvent \/ PollTick

PollThread == PollTry \/ PollReads

Worker ==
  \/ ShutSerial \/ ShutLockFile \/ OpenLockFile \/ OpenDevice \/ OpenBridge
  \/ CloseBridge \/ OpenScope \/ SetUpScope \/ CloseScope
  \/ Acquire \/ Release \/ WriteToClosed \/ Write \/ ArmFails
  \/ ReadFrame \/ ReadText \/ ReadTimesOut
  \/ Load \/ BootLoaded \/ Drain \/ HoldAgain \/ BootAgain \/ AwaitBanner

Cli == CliStart \/ CliOpen \/ CliAsks \/ CliReads \/ CliCloses \/ CliKilled

Controller ==
  /\ ControllerSends \/ ControllerSilent
  /\ UNCHANGED <<session, job, poll, capture, cli>>

Next == QtThread \/ FinishJob \/ PollThread \/ FinishPoll \/ Worker \/ Cli \/ Controller

Spec == Init /\ [][Next]_vars

\* The operating system runs each thread and Qt delivers its signal; nothing is
\* assumed of the user, the controller or the other process.
FairSpec == Spec /\ WF_vars(Worker \/ FinishJob) /\ WF_vars(PollThread \/ FinishPoll)

-----------------------------------------------------------------------------
(* Properties.                                                             *)

\* Two processes never have the port open at the same time, whatever is closed,
\* killed or fails to open in between (UartTransport's lock file).
OneProcessHasThePort == Cardinality(opened) <= 1

\* The port is with whoever believes to have it: it is open in this process exactly
\* while a transport holds it (TypeOK), and then in no other one.
PortHasOneOwner == TypeOK /\ OneProcessHasThePort

\* An answer leaves the buffer by the read of the command it answers, or after
\* that command's sender has given up on it: neither the monitor, nor another
\* command, nor the other process eats an answer somebody is waiting for (the
\* threading rule at the head of transport.py).
AnswersReachTheirAskers ==
  [][\A ask \in Asks :
       Answer(ask) \in ToSet(rx) \ ToSet(rx')
       => \/ ask \in abandoned
          \/ job.pc = "read" /\ job.ask = ask /\ job' # job
          \/ cli.pc = "read" /\ cli.ask = ask /\ cli' # cli]_vars

\* A capture that found nothing of earlier commands on its way stores every answer
\* beside the command it answers, at least until its first recorded failure.
AlignedUntilFirstFailure ==
  cleanStart /\ ~failures => \A k \in DOMAIN rows : rows[k][1] = rows[k][2]

\* When verify_running reports a running chip, the banner it saw is of the image
\* just loaded, never one an earlier boot left in the buffer.
ConfirmedBootIsNew ==
  InJob("banner") /\ serial = uart
  => \A image \in 1 .. MaxLoads : Banner(image) \in ToSet(rx) => image = images

\* The window goes away only with no thread of its own running and everything it
\* held given back.
ClosesCleanly ==
  closing => /\ ~Busy /\ ~PollActive
             /\ uart = 0 /\ ~spi /\ ~scope /\ ~husky
             /\ "gui" \notin opened /\ flock # "gui"

\* Every worker ends and gives the window back to the user: the locks of the
\* transports never leave the worker, the poll and the Qt thread waiting for each
\* other, and a controller that says nothing only costs time.
JobsEnd == Busy ~> ~Busy

\* "Every array is index-aligned" (docs/wiki/Python-API.md): row i of the outputs
\* belongs to row i of the inputs.  Not so after an answer that came late.
RowsIndexAligned == \A k \in DOMAIN rows : rows[k][1] = rows[k][2]
===============================================================================
