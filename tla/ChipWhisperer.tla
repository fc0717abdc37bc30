----------------------------- MODULE ChipWhisperer -----------------------------
(***************************************************************************)
(* The ChipWhisperer Husky as the host library drives it                   *)
(* (Software/Python/proact_host/capture.py): the handle, the clock path    *)
(* that connect() brings up on the two platforms, the number of samples,   *)
(* and one shot of arm, trigger and capture.  The operators are the steps  *)
(* of ChipWhispererCapture; the programs that use the scope put the order  *)
(* and the failures around them.                                           *)
(*                                                                         *)
(* Simplifications: gain, routing of the serial pins and voltages leave no *)
(* mark here; a trace is the number of the operation whose trigger the     *)
(* scope caught, 0 for none; a connection that raises is closed by its     *)
(* owner, so what it had set up does not matter.                           *)
(*                                                                         *)
(* A definition marked (mutant) is wrong on purpose: a plausible slip that *)
(* takes the place of the definition after it to show that the properties  *)
(* notice.                                                                 *)
(***************************************************************************)
EXTENDS Naturals

VARIABLES
  husky                 \* the scope and what ChipWhispererCapture knows of it

Platforms == {"asic", "fpga"}
Off == [handle |-> FALSE, cw305 |-> FALSE, source |-> "internal", hs2 |-> "default",
        samples |-> "requested", armed |-> FALSE, caught |-> 0]

HuskyTypeOK(triggers) ==
  husky \in [handle : BOOLEAN, cw305 : BOOLEAN, source : {"internal", "system", "extclk"},
             hs2 : {"default", "clkgen", "disabled"},
             samples : {"requested", "window", "garbage"}, armed : BOOLEAN, caught : triggers \cup {0}]

-----------------------------------------------------------------------------
(* connect                                                                 *)

\* cw.scope(); a scope that is not found raises.
OpenScope == husky' = [Off EXCEPT !.handle = TRUE]

\* default_setup(), whose known "clock" error is passed over, and the common
\* settings: the ADC runs from the internal clock until somebody says otherwise.
SetUpScope == husky' = [husky EXCEPT !.source = "internal", !.samples = "requested"]

\* The ASIC has no clock of its own: the Husky generates it.  A clock that does
\* not lock is a warning.
SetClock == husky' = [husky EXCEPT !.source = "system", !.hs2 = "clkgen"]

\* An FPGA that runs already: follow its clock, or raise.
SyncExtclk == husky' = [husky EXCEPT !.source = "extclk", !.hs2 = "disabled"]

\* Upload the bitstream and start its PLL; an error of the four lines that turn
\* the ADC to that clock is passed over.
ProgramFpga ==
  \E source \in {"extclk", husky.source} :
    husky' = [husky EXCEPT !.cw305 = TRUE, !.source = source, !.hs2 = "disabled"]

ClockLeftInternal(platform, bitstream) ==   \* (mutant)
  IF platform = "asic" THEN SetClock
  ELSE IF bitstream THEN ProgramFpga
  ELSE husky' = [husky EXCEPT !.hs2 = "disabled"]
BringUpClock(platform, bitstream) ==
  IF platform = "asic" THEN SetClock
  ELSE IF bitstream THEN ProgramFpga
  ELSE SyncExtclk

\* clock_status()["locked"]: whether the ADC's clock (FPGA) or the generator (ASIC)
\* is locked right now.
MayBeLocked == IF husky.handle THEN BOOLEAN ELSE {FALSE}

\* disconnect() swallows the errors of both handles.
Disconnect ==
  husky' = [husky EXCEPT !.handle = FALSE, !.cw305 = FALSE, !.armed = FALSE, !.caught = 0]

\* The clock a trace of this platform is to be sampled with.
OnTargetClock(platform) ==
  IF platform = "asic" THEN husky.source = "system" /\ husky.hs2 = "clkgen"
  ELSE husky.source = "extclk" /\ husky.hs2 = "disabled"

-----------------------------------------------------------------------------
(* arm, trigger, capture                                                   *)

ArmedStale == [husky EXCEPT !.armed = TRUE]   \* (mutant)
Armed == [husky EXCEPT !.armed = TRUE, !.caught = 0]

\* trigger_Out rises for an operation; the first one after arm() is caught.
Triggered(operation) ==
  IF husky.handle /\ husky.armed
    THEN [husky EXCEPT !.armed = FALSE, !.caught = operation] ELSE husky

\* capture() returns a trace; or reports that no trigger came, which raises.
CaptureDone == husky.caught # 0

\* recommended_samples: the window the on-chip timer measured, all of it, is
\* digitized; a number that is no timer value asks for anything.
Fitted(size) == [husky EXCEPT !.samples = size]
===============================================================================
