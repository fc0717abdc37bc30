------------------------------ MODULE SelfCheck ------------------------------
(***************************************************************************)
(* The A-Z self-check of a chip                                            *)
(* (Software/Python/proact_host/fullcheck.py, "proact selfcheck"): a sweep *)
(* of checks over the serial port, each of which passes, fails or is       *)
(* skipped, and none of which stops the sweep.                             *)
(*                                                                         *)
(* A check is the commands it asks, in order, and the judgement of the     *)
(* last answer.  What matters is how one check disturbs another: an answer *)
(* that comes after its check gave up is read by the next one, and the     *)
(* result buffer of the controller survives a target that does not run.    *)
(*                                                                         *)
(* Simplifications: the 20 status frames of the baud check are two; the    *)
(* check of the software decryption uses neither the board nor any state   *)
(* and is left out; writing to the open port does not raise.               *)
(***************************************************************************)
EXTENDS Controller

CONSTANT Checkups       \* the options: images (of Sw-RV are there), capture, platform, bitstream

\* The four masks of the known-answer test are data too.
ASSUME CheckAssumption ==
  /\ Checkups \subseteq [images : BOOLEAN, capture : BOOLEAN, platform : Platforms,
                         bitstream : BOOLEAN]
  /\ MaxInputs >= 3

VARIABLES
  options,              \* the options of this program
  sweep                 \* where the sweep is and what it found

checkVars == <<options, sweep>>

\* The inputs of the vectors, PT and SWRV_PT.
Pt == 1
SamePt == Pt   \* (mutant)
SwrvPt == 2

\* A command: a run of a core and its right output, or one that only reads.
RunOf(core, value) == [core |-> core, value |-> value]
Reads(value) == [core |-> "none", value |-> value]

Check(name, core, asks, wants) == [name |-> name, core |-> core, asks |-> asks, wants |-> wants]
Encrypts(core) == Check("encrypt", core, <<RunOf(core, Enc(Pt))>>, {Enc(Pt)})
Decrypts(core) == Check("decrypt", core, <<RunOf(core, Input(Pt))>>, {Input(Pt)})

AesChecks ==
  <<Encrypts("aes1"), Decrypts("aes1"), Encrypts("aes2"), Decrypts("aes2")>>

\* aead_kat: bit 0 is Xoodyak's, bit 1 ASCON's.
KatSwapped(core, mask) == IF core = "ascon" THEN mask % 2 = 1 ELSE mask \div 2 = 1   \* (mutant)
KatBit(core, mask) == IF core = "xoodyak" THEN mask % 2 = 1 ELSE mask \div 2 = 1
KatMask(dead) == (IF "xoodyak" \in dead THEN 0 ELSE 1) + (IF "ascon" \in dead THEN 0 ELSE 2)
KatAnswers(core) == {Kat(mask) : mask \in {n \in 0 .. 3 : KatBit(core, n)}}

\* Any frame answers a status request; a count of cycles is not zero.
NotZero == Data \ {Kat(0)}

Sweep ==
  <<Check("uart_link", "none", <<Reads(Word)>>, Data),
    Check("uart_baud", "none", <<Reads(Word), Reads(Word)>>, Data)>>
  \o (IF options.capture THEN <<Check("clock", "none", <<>>, {})>> ELSE <<>>)
  \o AesChecks
  \o <<Check("kat", "ascon", <<Reads(Kat(KatMask(board.dead)))>>, KatAnswers("ascon")),
       Check("kat", "xoodyak", <<>>, KatAnswers("xoodyak")),
       Check("timer", "none", <<RunOf("aes1", Enc(Pt)), Reads(Word)>>, NotZero),
       Check("control", "none", <<Reads(Word)>>, Data),
       Check("prng", "aes1", <<RunOf("aes1", Enc(Pt))>>, {Enc(Pt)}),
       Check("swrv", "swrv", <<RunOf("swrv", Enc(SwrvPt))>>, {Enc(SwrvPt)}),
       Check("trace", "none", <<RunOf("aes1", Enc(Pt))>>, Data)>>

MaxChecks == 14
Now == Sweep[Len(sweep.found) + 1]
Finding == [verdict : {"PASS", "FAIL", "SKIP"}, behind : 0 .. MaxAsks]

SelfCheckTypeOK ==
  /\ options \in Checkups
  /\ sweep \in [step : 1 .. 2, ask : 0 .. MaxAsks, read : 0 .. MaxAsks, found : Seq(Finding)]
  /\ Len(sweep.found) <= MaxChecks

SelfCheckInit ==
  /\ options \in Checkups
  /\ sweep = [step |-> 1, ask |-> 0, read |-> 0, found |-> <<>>]

-----------------------------------------------------------------------------
(* cmd_selfcheck: scope, port, sweep.                                      *)

To(p) == phase' = p /\ UNCHANGED <<program, status>>

Begins ==
  /\ phase = "start"
  /\ To(IF options.capture THEN "scope" ELSE "lock")
  /\ UNCHANGED <<link, husky, boardVars, missed, checkVars>>

\* Outside every try: an error here leaves the scope to the end of the process.
FindsScope ==
  /\ \/ phase = "scope" /\ OpenScope /\ To("setup")
     \/ phase = "setup" /\ SetUpScope /\ To("clock")
     \/ phase = "clock" /\ BringUpClock(options.platform, options.bitstream) /\ To("lock")
     \/ phase \in {"scope", "setup", "clock"} /\ phase' = "over" /\ status' = "error" /\ UNCHANGED <<program, husky>>
  /\ UNCHANGED <<link, boardVars, missed, checkVars>>

FindsPort ==
  /\ \/ phase = "lock" /\ OpenLock("port", "over")
     \/ phase = "port" /\ OpenPort("sendback", "over")
  /\ UNCHANGED checkVars

TurnsSendbackOn ==
  /\ phase = "sendback"
  /\ EnableSendback /\ To("check")
  /\ UNCHANGED <<link, says, husky, missed, checkVars>>

-----------------------------------------------------------------------------
(* One check.                                                              *)

Left == Len(Sweep) - Len(sweep.found)
Checking == phase = "check" /\ Left > 0
Behind(read) == IF read = 0 THEN 0 ELSE sweep.ask - read

\* The check ends with its verdict; the sweep goes on with the next one.
Ended(verdict, read) ==
  sweep' = [sweep EXCEPT !.step = 1, !.read = read,
                         !.found = Append(@, [verdict |-> verdict, behind |-> Behind(read)])]

Skipped == \/ Now.name = "swrv" /\ ~ options.images
           \/ Now.name = "trace" /\ ~ options.capture
SkipsCheck ==
  /\ Checking /\ Skipped
  /\ Ended("SKIP", 0)
  /\ UNCHANGED <<link, husky, boardVars, session, options>>

AsksNext ==
  /\ Checking /\ ~ Skipped /\ Now.asks # <<>>
  /\ LET command == Now.asks[sweep.step]
     IN  IF command.core = "none"
           THEN Ask(command.value) /\ board' = board
           ELSE RunCore(Computed(command.core, command.value))
  /\ husky' = IF Now.name = "trace" THEN Armed ELSE husky
  /\ sweep' = [sweep EXCEPT !.ask = asked']
  /\ To(IF Now.name = "trace" THEN "trace" ELSE "answer")
  /\ UNCHANGED <<missed, options>>

\* What another command's bytes say as a mask depends on bytes the model leaves out.
Passes(read) ==
  IF Now.name = "kat" /\ says[read][1] \in {"word", "junk", "old"} THEN BOOLEAN
  ELSE {says[read] \in Now.wants}
VerdictOf(passed) == IF passed THEN "PASS" ELSE "FAIL"

ReadsAnswer ==
  /\ phase = "answer"
  /\ ReadFrame(sweep.ask)
  /\ LET read == Head(rx)[2]
     IN  IF sweep.step < Len(Now.asks)
           THEN sweep' = [sweep EXCEPT !.step = @ + 1]
           ELSE \E passed \in Passes(read) : Ended(VerdictOf(passed), read)
  /\ To("check")
  /\ UNCHANGED <<husky, boardVars, options>>

\* Any exception fails the check, and no other.
FailsCheck ==
  /\ phase = "answer"
  /\ NoFrame(sweep.ask)
  /\ Ended("FAIL", 0)
  /\ To("check")
  /\ UNCHANGED <<husky, boardVars, options>>

\* The clock is judged without a command, Xoodyak from the answer ASCON had.
JudgesAgain ==
  /\ Checking /\ Now.asks = <<>>
  /\ IF Now.name = "clock" THEN \E locked \in MayBeLocked : Ended(VerdictOf(locked), 0)
     ELSE IF sweep.read = 0 THEN Ended("FAIL", 0)
     ELSE \E passed \in Passes(sweep.read) : Ended(VerdictOf(passed), sweep.read)
  /\ UNCHANGED <<link, husky, boardVars, session, options>>

\* The trace is there or not; its answer is read only to be out of the way.
TakesTrace ==
  /\ phase = "trace"
  /\ \/ CaptureDone /\ To("drain") /\ sweep' = sweep
     \/ Ended("FAIL", 0) /\ To("check")
  /\ UNCHANGED <<link, husky, boardVars, missed, options>>

Drains ==
  /\ phase = "drain"
  /\ ReadFrame(sweep.ask) \/ NoFrame(sweep.ask)
  /\ \E flat \in BOOLEAN : Ended(VerdictOf(~ flat), 0)
  /\ To("check")
  /\ UNCHANGED <<husky, boardVars, options>>

Failures == {k \in DOMAIN sweep.found : sweep.found[k].verdict = "FAIL"}

Reports ==
  /\ phase = "check" /\ Left = 0
  /\ phase' = "shut" /\ status' = IF Failures = {} THEN "ok" ELSE "failed"
  /\ UNCHANGED <<link, husky, program, missed, boardVars, checkVars>>

\* Ctrl-C in the sweep: the port is closed, then the scope.
Interrupted ==
  /\ phase \in {"check", "answer", "trace", "drain"}
  /\ phase' = "shut" /\ status' = "error"
  /\ UNCHANGED <<link, husky, program, missed, boardVars, checkVars>>

ScopeKept ==   \* (mutant)
  /\ phase = "release"
  /\ husky' = husky /\ To("over")
  /\ UNCHANGED <<link, boardVars, missed, checkVars>>
ReleasesScope ==
  /\ phase = "release"
  /\ Disconnect /\ To("over")
  /\ UNCHANGED <<link, boardVars, missed, checkVars>>

LetsGo ==
  \/ (ShutDevice \/ ShutLock("release")) /\ UNCHANGED checkVars
  \/ ReleasesScope

Connecting == Begins \/ FindsScope \/ FindsPort \/ TurnsSendbackOn
OneCheck ==
  SkipsCheck \/ AsksNext \/ ReadsAnswer \/ FailsCheck \/ JudgesAgain \/ TakesTrace \/ Drains
SelfChecking == Connecting \/ OneCheck \/ Reports \/ LetsGo

-----------------------------------------------------------------------------
SelfChecks == program = "selfcheck"

\* A core that does not work is never reported to pass: not from the output of an
\* earlier step that the controller still holds, and, for the AES and Sw-RV
\* checks, not from an answer that came one command late either
\* (fullcheck.py:13-14, 26-32).
DeadCoreNeverPasses ==
  SelfChecks =>
    \A k \in DOMAIN sweep.found :
      LET finding == sweep.found[k]
          check == Sweep[k]
      IN  /\ check.core \in board.dead
          /\ finding.behind = 0 \/ (check.name # "kat" /\ finding.behind = 1)
          => finding.verdict # "PASS"

\* A working core is never reported to fail because of another one: with an answer
\* to every command, none of an earlier process and no reboot, the dead cores fail
\* and no other check of the link or of a core does (fullcheck.py:9-11).
DeadCoresHideNoOther ==
  SelfChecks /\ Calm /\ board.boots = 0 =>
    \A k \in DOMAIN sweep.found :
      sweep.found[k].verdict = "FAIL" =>
        Sweep[k].name \in {"clock", "trace"} \/ Sweep[k].core \in board.dead
===============================================================================
