------------------------------ MODULE Operations ------------------------------
(***************************************************************************)
(* Crypto operations without a scope: "proact run"                         *)
(* (Software/Python/proact_host/cli.py, cmd_run) and the crypto experiment *)
(* of the GUI (Software/GUI/proact_gui.py, _experiment_body).  Both run    *)
(* and read one operation after another, compare the output with the       *)
(* reference if asked to, and may ask the timer for the length of each     *)
(* trigger window.  The command stops at the first error; the GUI prints   *)
(* it and goes on, and prints a missing timer as n/a.                      *)
(*                                                                         *)
(* Simplifications: the GUI connects before its experiment and disconnects *)
(* after it; the inputs are all new or all the same; an AEAD core takes    *)
(* the place of an AES core.                                               *)
(***************************************************************************)
EXTENDS Controller

CONSTANTS
  Orders,               \* the options: core, timer, compare, random, gui
  RunCount              \* plan.n, --runs

ASSUME OperationsAssumption ==
  /\ Orders \subseteq [core : Cores, timer : BOOLEAN, compare : BOOLEAN, random : BOOLEAN,
                       gui : BOOLEAN]
  /\ RunCount \in Nat \ {0} /\ RunCount <= MaxInputs

VARIABLES
  order,                \* the options of this program
  at,                   \* the operation it is at
  printed               \* the rows it has printed

operationVars == <<order, at, printed>>

\* Columns of a row: the command it is about, the answer it shows, the verdict, and
\* the command and the answer of its timer (0: not asked, n/a).
Printed == [asked : Asks, answered : Asks, passed : BOOLEAN,
            timer : 0 .. MaxAsks, cycles : 0 .. MaxAsks]
NoRow == [asked |-> 1, answered |-> 1, passed |-> FALSE, timer |-> 0, cycles |-> 0]

OperationsTypeOK ==
  /\ order \in Orders
  /\ at \in [i : 0 .. RunCount, ask : 0 .. MaxAsks, row : Printed, errors : 0 .. RunCount]
  /\ printed \in Seq(Printed) /\ Len(printed) + at.errors <= at.i

OperationsInit ==
  /\ order \in Orders
  /\ at = [i |-> 0, ask |-> 0, row |-> NoRow, errors |-> 0]
  /\ printed = <<>>

Proceed(p) == phase' = p /\ UNCHANGED <<program, status>>
StopsWith(result) == phase' = "shut" /\ status' = result /\ program' = program

-----------------------------------------------------------------------------
OperationsConnect ==
  /\ \/ phase = "start" /\ OpenLock("port", "over")
     \/ phase = "port" /\ OpenPort("sendback", "over")
     \/ /\ phase = "sendback"
        /\ EnableSendback /\ Proceed("operation")
        /\ UNCHANGED <<link, says, husky, missed>>
  /\ UNCHANGED operationVars

PlaintextOf(i) == IF order.random THEN i ELSE 1

\* set_key, set_plaintext, CMD_RDY; a core that does not finish leaves junk, or what
\* the last operation left.
Operates ==
  /\ phase = "operation" /\ at.i < RunCount
  /\ LET value == Enc(PlaintextOf(at.i + 1))
     IN  \E output \in {value, IF order.core = "swrv" THEN board.result ELSE Junk} : RunCore(output)
  /\ at' = [at EXCEPT !.i = @ + 1, !.ask = asked']
  /\ Proceed("answer")
  /\ UNCHANGED <<husky, missed, order, printed>>

\* validate_aes, validate_aead.
PassedIfFull(answer) == says[answer][1] = "enc"   \* (mutant)
Passed(answer) == says[answer] = Enc(PlaintextOf(at.i))

ReadsOutput ==
  /\ phase = "answer"
  /\ ReadFrame(at.ask)
  /\ LET answer == Head(rx)[2]
         row == [NoRow EXCEPT !.asked = at.ask, !.answered = answer,
                              !.passed = order.compare /\ Passed(answer)]
     IN  IF order.timer
           THEN at' = [at EXCEPT !.row = row] /\ printed' = printed /\ Proceed("timer")
           ELSE at' = at /\ printed' = Append(printed, row) /\ Proceed("operation")
  /\ UNCHANGED <<boardVars, husky, order>>

AsksTimer ==
  /\ phase = "timer"
  /\ AskWord
  /\ at' = [at EXCEPT !.ask = asked', !.row.timer = asked']
  /\ Proceed("cycles")
  /\ UNCHANGED <<husky, missed, order, printed>>

PrintsRow(cycles) ==
  /\ printed' = Append(printed, [at.row EXCEPT !.cycles = cycles])
  /\ at' = [at EXCEPT !.row = NoRow]
  /\ Proceed("operation")

ReadsTimer ==
  /\ phase = "cycles"
  /\ ReadFrame(at.ask)
  /\ PrintsRow(Head(rx)[2])
  /\ UNCHANGED <<boardVars, husky, order>>

\* No answer: the GUI counts an error and goes on, or prints n/a for the timer and
\* counts nothing; the command ends.
OperationFails ==
  /\ phase \in {"answer", "cycles"}
  /\ NoFrame(at.ask)
  /\ IF ~ order.gui THEN StopsWith("error") /\ UNCHANGED <<at, printed>>
     ELSE IF phase = "cycles" THEN PrintsRow(0)
     ELSE at' = [at EXCEPT !.errors = @ + 1] /\ printed' = printed /\ Proceed("operation")
  /\ UNCHANGED <<boardVars, husky, order>>

\* sys.exit(1) if any row failed its comparison; the GUI only prints how many.
NonePassed == \A k \in DOMAIN printed : ~ printed[k].passed   \* (mutant)
AnyFailed == \E k \in DOMAIN printed : ~ printed[k].passed

OperationsEnd ==
  /\ phase = "operation" /\ at.i = RunCount
  /\ StopsWith(IF order.compare /\ ~ order.gui /\ AnyFailed THEN "failed" ELSE "ok")
  /\ UNCHANGED <<link, husky, boardVars, missed, operationVars>>

\* Another exception, or Ctrl-C: the port is closed.
OperationsInterrupted ==
  /\ phase \in {"sendback", "operation", "answer", "timer", "cycles"}
  /\ StopsWith("error")
  /\ UNCHANGED <<link, husky, boardVars, missed, operationVars>>

Operating ==
  \/ OperationsConnect \/ Operates \/ ReadsOutput \/ AsksTimer \/ ReadsTimer
  \/ OperationFails \/ OperationsEnd
  \/ (ShutDevice \/ ShutLock("over")) /\ UNCHANGED operationVars

-----------------------------------------------------------------------------
\* With new inputs, a row that passed is right in every column, whatever came late
\* before it: its output is its own, and its cycle count, where there is one, was
\* measured in its own window (cli.py:328-339, proact_gui.py:1858-1880).
PassedRowsAreRight ==
  program = "run" /\ order.random =>
    \A k \in DOMAIN printed :
      printed[k].passed =>
        /\ printed[k].answered = printed[k].asked
        /\ printed[k].cycles \in {0, printed[k].timer}

\* "proact run --compare --random" that ends well has run every operation, and each
\* of them gave its own right output (cli.py:355).
RunStatusIsTrue ==
  program = "run" /\ status = "ok" /\ order.compare /\ order.random /\ ~ order.gui =>
    /\ Len(printed) = RunCount
    /\ \A k \in DOMAIN printed :
         printed[k].answered = printed[k].asked /\ says[printed[k].answered] = Enc(k)
===============================================================================
