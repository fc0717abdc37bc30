------------------------------ MODULE Controller ------------------------------
(***************************************************************************)
(* One program of the host at the board: how it opens and leaves the       *)
(* serial port, and the controller firmware that it talks to.              *)
(*                                                                         *)
(* The firmware is not part of this repository.  What is modelled is what  *)
(* its clients and its documentation rely on: it serves commands in order; *)
(* it answers in frames only after CMD_SB, which every reboot forgets; an  *)
(* operation leaves its output in one result buffer that the answer is     *)
(* sent from; a hardware core that does not finish leaves junk there, and  *)
(* the Sw-RV target that does not finish leaves what was there             *)
(* (fullcheck.py:26-31, docs/wiki/Testing.md:333).                         *)
(*                                                                         *)
(* Data is abstract: <<"enc", v>> is the encryption of the input v under   *)
(* the session's key, <<"in", v>> the input v itself, <<"kat", n>> the     *)
(* mask of the known-answer test, <<"word", 0>> a timer or status word.    *)
(***************************************************************************)
EXTENDS UartLink, ChipWhisperer

CONSTANTS
  MaxInputs,            \* bound: inputs of one program
  MaxTroubles           \* bound: reboots, answers lost and answers given up too early

ASSUME ControllerBounds == MaxInputs \in Nat /\ MaxTroubles \in Nat

VARIABLES
  program,              \* which program of the host runs
  phase,                \* where it is
  status,               \* how it ended
  missed,               \* commands it gave up waiting for
  board,                \* the state of the controller
  says                  \* what the answer to each command holds

session == <<program, phase, status, missed>>
boardVars == <<board, says>>

Cores == {"aes1", "aes2", "ascon", "xoodyak", "swrv"}
Enc(v) == <<"enc", v>>
Input(v) == <<"in", v>>
Word == <<"word", 0>>
Junk == <<"junk", 0>>
Kat(n) == <<"kat", n>>
Old == <<"old", 0>>
Data == {"enc", "in", "word", "junk", "kat", "old"} \X (0 .. MaxInputs)

SessionTypeOK ==
  /\ LinkTypeOK /\ HuskyTypeOK(Asks)
  /\ status \in {"running", "ok", "failed", "error", "killed"}
  /\ missed \in 0 .. MaxAsks
  /\ board \in [sendback : BOOLEAN, rng : BOOLEAN, dead : SUBSET Cores, result : Data,
                boots : 0 .. MaxTroubles, lost : 0 .. MaxTroubles]
  /\ says \in Seq(Data) /\ Len(says) = asked

\* The board as an earlier session left it: perhaps with send-back on and one
\* answer still owed, and perhaps with another process on the port.  The cores of
\* `dead` do not work; `results` may be in the result buffer.
BoardInit(dead, results) ==
  /\ firmware = 1 /\ running = TRUE
  /\ flock \in {Free, "gui"} /\ opened = {flock} \ {Free}
  /\ rx = <<>> /\ abandoned = {}
  /\ \E owed \in {0, 1} :
       /\ asked = owed
       /\ due = [k \in 1 .. owed |-> Answer(k)]
       /\ says = [k \in 1 .. owed |-> Old]
       /\ board \in [sendback : {owed = 1}, rng : {FALSE}, dead : {dead}, result : results,
                     boots : {0}, lost : {0}]
  /\ husky = Off
  /\ phase = "start" /\ status = "running" /\ missed = 0

Untroubled == board.boots + board.lost + Cardinality(abandoned) < MaxTroubles

\* No answer is owed to an earlier process and none was given up in this one.
Calm == missed = 0 /\ (says # <<>> => says[1] # Old)

-----------------------------------------------------------------------------
(* The port.                                                               *)

\* `failed`: where the program goes when it is refused.
OpenLock(next, failed) ==
  /\ IF flock = Free
       THEN TakeFlock("cli") /\ phase' = next /\ status' = status
       ELSE UNCHANGED link /\ phase' = failed /\ status' = "error"
  /\ UNCHANGED <<program, missed, boardVars, husky>>

OpenPort(next, failed) ==
  /\ \/ OpenSerial("cli") /\ phase' = next /\ status' = status
     \/ ReleaseFlock("cli") /\ phase' = failed /\ status' = "error"
  /\ UNCHANGED <<program, missed, boardVars, husky>>

ShutDevice ==
  /\ phase = "shut"
  /\ CloseSerial("cli") /\ phase' = "unlock"
  /\ UNCHANGED <<program, status, missed, boardVars, husky>>

ShutLock(next) ==
  /\ phase = "unlock"
  /\ ReleaseFlock("cli") /\ phase' = next
  /\ UNCHANGED <<program, status, missed, boardVars, husky>>

-----------------------------------------------------------------------------
(* Commands.                                                               *)

\* enable_sendback, select, set_key, ...: no answer.
EnableSendback == board' = [board EXCEPT !.sendback = running]

\* A command whose answer holds `value`; without send-back it is plain text.
Ask(value) ==
  /\ asked < MaxAsks
  /\ says' = Append(says, value)
  /\ IF board.sendback
       THEN Send(TRUE)
       ELSE /\ asked' = asked + 1
            /\ UNCHANGED <<flock, opened, rx, due, firmware, running>>
            /\ abandoned' = StillComing(abandoned)

AskWord == Ask(Word) /\ board' = board

\* CMD_RDY on a core: the answer is sent from the result buffer.
Computed(core, value) ==
  IF core \notin board.dead THEN value ELSE IF core = "swrv" THEN board.result ELSE Junk
RunCore(value) == Ask(value) /\ board' = [board EXCEPT !.result = value]

\* read_frame: `ask` is the command it is called for; text is skipped.
SkipsText ==
  /\ phase \in {"answer", "drain", "fit answer", "fit cycles", "cycles"}
  /\ SkipText
  /\ UNCHANGED <<session, boardVars, husky>>
Got == says[Head(rx)[2]]
ReadFrame(ask) == TakeFrame(ask) /\ missed' = missed
WaitsForever(ask) == FALSE /\ GiveUp(ask) /\ missed' = missed + 1   \* (mutant)
NoFrame(ask) ==
  /\ due = <<>> \/ Untroubled
  /\ GiveUp(ask) /\ missed' = missed + 1

-----------------------------------------------------------------------------
(* The controller.                                                         *)

IsRun(ask) == says[ask][1] \notin {"word", "kat"}
Trigger(frame) ==
  husky' = IF frame[1] = "answer" /\ IsRun(frame[2]) THEN Triggered(frame[2]) ELSE husky

\* An operation that hangs may have raised its trigger, or not.
Sends ==
  /\ ControllerSends
  /\ Trigger(Head(due)) \/ (board.dead # {} /\ husky' = husky)
  /\ UNCHANGED <<session, boardVars>>

KeepsSilent ==
  /\ Untroubled
  /\ ControllerSilent
  /\ Trigger(Head(due)) \/ husky' = husky
  /\ board' = [board EXCEPT !.lost = @ + 1]
  /\ UNCHANGED <<session, says>>

\* "proact restart" from another terminal: the bridge has a lock of its own.
Reboot ==
  /\ Untroubled
  /\ Boot(firmware)
  /\ board' = [board EXCEPT !.sendback = FALSE, !.rng = FALSE, !.result = Junk, !.boots = @ + 1]
  /\ UNCHANGED <<session, says, husky>>
===============================================================================
