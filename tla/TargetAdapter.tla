----------------------------- MODULE TargetAdapter -----------------------------
(***************************************************************************)
(* The bring-up of an acquisition campaign (Acquisition/acq/run.py,        *)
(* targets/base.py, validate.py): the target's core is selected, loaded    *)
(* and verified with one known answer, the controller is reprogrammed once *)
(* when that fails, and a preflight of unstored operations decides whether *)
(* the campaign may begin.  CaptureRun takes this for one step.            *)
(*                                                                         *)
(* The preflight reads answers that carry no sign of the command they      *)
(* answer, and the controller may send an old result for a target that did *)
(* not run: what it accepts must rest on the outputs alone.                *)
(*                                                                         *)
(* Simplifications: the six warm-up operations and the twenty tests are    *)
(* Warmups and Tests; lengths, clipping and the size of the trigger window *)
(* are left out; the instrument is the Husky of ChipWhisperer; fixed means *)
(* a fixed key and input, random a random input or key.                    *)
(***************************************************************************)
EXTENDS Controller

CONSTANTS
  Campaigns,            \* the options: core, masked, policy
  Warmups,              \* warm-up operations of the preflight
  Tests                 \* n: tests of the preflight

\* One test is not enough: the input of test 0 may be that of a warm-up operation.
ASSUME AdapterAssumption ==
  /\ Campaigns \subseteq [core : Cores, masked : BOOLEAN, policy : {"fixed", "random", "tvla"}]
  /\ Warmups \in Nat \ {0} /\ Tests \in Nat \ {0, 1}
  /\ 1 + Tests <= MaxInputs

VARIABLES
  campaign,             \* the options of this campaign
  trial                 \* the local variables of bring-up and preflight

adapterVars == <<campaign, trial>>

AdapterTypeOK ==
  /\ campaign \in Campaigns
  /\ trial \in [stage : {"verify", "warm-up", "test"}, attempt : 1 .. 2,
                i : 0 .. Warmups + Tests, ask : 0 .. MaxAsks, fired : BOOLEAN,
                correct : BOOLEAN, booted : {"no", "seeded", "unseeded"}]

AdapterInit ==
  /\ campaign \in Campaigns
  /\ trial = [stage |-> "verify", attempt |-> 1, i |-> 0, ask |-> 0, fired |-> FALSE,
              correct |-> TRUE, booted |-> "no"]

GoesTo(p) == phase' = p /\ UNCHANGED <<program, status>>

\* Whatever is raised closes the instrument and the link.
GivesUp == phase' = "disconnect" /\ status' = "error" /\ program' = program

-----------------------------------------------------------------------------
(* The instrument first, then the port.                                    *)

ConfiguresBackend ==
  /\ phase = "start"
  /\ OpenScope /\ GoesTo("open")
  /\ UNCHANGED <<link, boardVars, missed, adapterVars>>

OpensTarget ==
  /\ \/ phase = "open" /\ OpenLock("port", "disconnect")
     \/ phase = "port" /\ OpenPort("sendback", "disconnect")
     \/ /\ phase = "sendback"
        /\ EnableSendback /\ GoesTo("select")
        /\ UNCHANGED <<link, says, husky, missed>>
  /\ UNCHANGED adapterVars

\* select(): a masked program needs the RNG before it boots.
SeedsTheFirstTime == trial.attempt = 1   \* (mutant)
SeedsBeforeBoot == TRUE

SelectsCore ==
  /\ phase = "select"
  /\ board' = [board EXCEPT !.rng = @ \/ (campaign.masked /\ SeedsBeforeBoot)]
  /\ GoesTo(IF campaign.core = "swrv" THEN "load" ELSE "run")
  /\ UNCHANGED <<link, says, husky, missed, adapterVars>>

\* load_swrv_program: held in reset, loaded, and released to boot.
LoadsProgram ==
  /\ phase = "load"
  /\ trial' = [trial EXCEPT !.booted = IF board.rng THEN "seeded" ELSE "unseeded"]
  /\ GoesTo("run")
  /\ UNCHANGED <<link, boardVars, husky, missed, campaign>>

-----------------------------------------------------------------------------
(* One operation.                                                          *)

\* The tests of a TVLA campaign alternate, whatever the schedule of its rows is.
GroupOfRow(i) == 0   \* (mutant)
GroupOf(i) == i % 2

InputOf(i) ==
  IF \/ trial.stage = "verify"
     \/ campaign.policy = "fixed"
     \/ campaign.policy = "tvla" /\ (trial.stage = "warm-up" \/ GroupOf(i) = 0)
    THEN 1
    ELSE 2 + (IF trial.stage = "warm-up" THEN 0 ELSE i)

Wanted == Enc(InputOf(trial.i))

\* A masked program that booted with the RNG in reset never finishes.
Computes(value) ==
  IF campaign.masked /\ trial.booted = "unseeded" THEN board.result
  ELSE Computed(campaign.core, value)

\* run(): a masked target gets a new seed first.
Runs ==
  /\ phase = "run"
  /\ Ask(Computes(Wanted))
  /\ board' = [board EXCEPT !.result = Computes(Wanted), !.rng = @ \/ campaign.masked]
  /\ husky' = IF trial.stage = "verify" THEN husky ELSE Armed
  /\ trial' = [trial EXCEPT !.ask = asked']
  /\ GoesTo("answer")
  /\ UNCHANGED <<missed, campaign>>

-----------------------------------------------------------------------------
(* bringup_and_verify.                                                     *)

\* Any exception is a failed verification; the second one is final.
Fails ==
  IF trial.attempt = 1
    THEN trial' = [trial EXCEPT !.attempt = 2] /\ GoesTo("reprogram")
    ELSE trial' = trial /\ GivesUp

Verifies ==
  /\ phase = "answer" /\ trial.stage = "verify"
  /\ ReadFrame(trial.ask)
  /\ IF Got = Wanted
       THEN trial' = [trial EXCEPT !.stage = "warm-up"] /\ GoesTo("run")
       ELSE Fails
  /\ UNCHANGED <<boardVars, husky, campaign>>

VerifyRaises ==
  /\ phase = "answer" /\ trial.stage = "verify"
  /\ NoFrame(trial.ask)
  /\ Fails
  /\ UNCHANGED <<boardVars, husky, campaign>>

\* program() and restart_controller(), or an error of the bridge.
Reprograms ==
  /\ phase = "reprogram"
  /\ \/ Boot(1) /\ GoesTo("shut")
     \/ Boot(0) /\ GivesUp
     \/ UNCHANGED link /\ GivesUp
  /\ board' = [board EXCEPT !.sendback = FALSE, !.rng = FALSE, !.result = Junk]
  /\ trial' = [trial EXCEPT !.booted = "no"]
  /\ UNCHANGED <<says, husky, missed, campaign>>

\* close() and open() again: what an earlier answer left behind is gone.
NotReopened ==   \* (mutant)
  /\ phase = "shut" /\ status = "running"
  /\ GoesTo("sendback")
  /\ UNCHANGED <<link, boardVars, husky, missed, adapterVars>>
Reopens ==
  /\ status = "running"
  /\ ShutDevice \/ ShutLock("open")
  /\ UNCHANGED adapterVars

-----------------------------------------------------------------------------
(* preflight.                                                              *)

LastOfStage(t) == t.i + 1 = (IF t.stage = "warm-up" THEN Warmups ELSE Tests)

\* The end of operation i: the warm-up must have seen a trigger, the tests the
\* right output each time.
Proceeds(t) ==
  IF ~ LastOfStage(t) THEN trial' = [t EXCEPT !.i = @ + 1] /\ GoesTo("run")
  ELSE IF t.stage = "warm-up" /\ t.fired
    THEN trial' = [t EXCEPT !.stage = "test", !.i = 0] /\ GoesTo("run")
  ELSE IF t.stage = "test" /\ t.correct THEN trial' = t /\ GoesTo("ready")
  ELSE trial' = t /\ GivesUp

PreflightReads ==
  /\ phase = "answer" /\ trial.stage # "verify"
  /\ ReadFrame(trial.ask)
  /\ trial' = [trial EXCEPT !.correct = @ /\ (trial.stage = "test" => Got = Wanted)]
  /\ GoesTo("trace")
  /\ UNCHANGED <<boardVars, husky, campaign>>

\* A time limit is passed over in the warm-up, with whatever comes later.
PreflightMisses ==
  /\ phase = "answer" /\ trial.stage # "verify"
  /\ NoFrame(trial.ask)
  /\ IF trial.stage = "warm-up" THEN Proceeds(trial) ELSE trial' = trial /\ GivesUp
  /\ UNCHANGED <<boardVars, husky, campaign>>

PreflightCaptures ==
  /\ phase = "trace"
  /\ \/ CaptureDone /\ Proceeds([trial EXCEPT !.fired = TRUE])
     \/ IF trial.stage = "warm-up" THEN Proceeds(trial) ELSE trial' = trial /\ GivesUp
  /\ UNCHANGED <<link, boardVars, husky, missed, campaign>>

\* The campaign itself is CaptureRun's; it ends like every other.
CampaignEnds ==
  /\ phase = "ready"
  /\ phase' = "disconnect" /\ status' = "ok"
  /\ UNCHANGED <<link, boardVars, husky, missed, program, adapterVars>>

\* An exception, or Ctrl-C, in any of the steps.
AdapterRaises ==
  /\ phase \in {"sendback", "select", "load", "run", "answer", "trace"}
  /\ GivesUp
  /\ UNCHANGED <<link, boardVars, husky, missed, adapterVars>>

ClosesBackend ==
  /\ phase = "disconnect"
  /\ Disconnect /\ GoesTo("shut")
  /\ UNCHANGED <<link, boardVars, missed, adapterVars>>

ClosesTarget ==
  /\ status # "running"
  /\ ShutDevice \/ ShutLock("over")
  /\ UNCHANGED adapterVars

BringingUp ==
  \/ ConfiguresBackend \/ OpensTarget \/ SelectsCore \/ LoadsProgram \/ Runs
  \/ Verifies \/ VerifyRaises \/ Reprograms \/ Reopens
Preflights == PreflightReads \/ PreflightMisses \/ PreflightCaptures
Acquiring == BringingUp \/ Preflights \/ CampaignEnds \/ ClosesBackend \/ ClosesTarget

-----------------------------------------------------------------------------
Acquires == program = "acquire"
NothingOwed == \A k \in Asks : Answer(k) \notin ToSet(rx) \cup ToSet(due)

\* When the target counts as verified no answer is on its way, neither of an
\* earlier process nor of the attempt before the reprogramming: every later
\* operation reads its own (base.py:82-87).
VerifiedIsAligned ==
  Acquires /\ trial.stage = "warm-up" /\ trial.i = 0 /\ phase = "run" => NothingOwed

\* A campaign that varies its inputs begins only with a target that runs and a
\* link where every answer is read by its own operation, although the warm-up
\* passes over late answers and the controller sends old results for a Sw-RV
\* target that does not run (validate.py:49-56, 70-75).
PreflightProvesTarget ==
  Acquires /\ phase = "ready" /\ campaign.policy # "fixed" =>
    NothingOwed /\ campaign.core \notin board.dead

\* A masked program never boots while the RNG is in reset, also not after a
\* reprogramming, unless somebody else restarts the controller
\* (sw_rv_masked.py:64-72).
MaskedBootsSeeded ==
  Acquires /\ campaign.masked /\ board.boots = 0 => trial.booted # "unseeded"
===============================================================================
