----------------------------- MODULE ScopeBackend -----------------------------
(***************************************************************************)
(* The measurement backends (Acquisition/acq/backend/) with the instrument *)
(* behind them and the caller of the Backend contract: _prepare_capture,   *)
(* preflight and the hot loop (acq/run.py, acq/validate.py).  An oscillo-  *)
(* scope of either vendor is configured, read back, armed, waited for and  *)
(* transferred step by step; meanwhile it fills its pretrigger memory,     *)
(* triggers, and is touched by whoever stands at its front panel.          *)
(*                                                                         *)
(* Simplifications: a setting has the value asked for or another one; a    *)
(* record is the number of the arm command that started it; an edge of the *)
(* trigger line comes from the operation of the row or is a stray one; the *)
(* error queue of the instrument is empty or not; a time limit may expire  *)
(* whenever the code is waiting.  What happens at the front panel, stray   *)
(* edges and commands that fail for reasons of their own are disturbances, *)
(* counted by MaxDisturbances.                                             *)
(*                                                                         *)
(* A definition marked (mutant) is wrong on purpose: a plausible slip that *)
(* takes the place of the definition after it to show that the properties  *)
(* notice.                                                                 *)
(***************************************************************************)
EXTENDS Naturals

CONSTANTS
  Kinds,                \* the backends: "keysight", "tek", "husky"
  Warm,                 \* trial captures that may time out (6 in the code)
  Checks,               \* trial captures that may not (20 in the code)
  Rows,                 \* rows the loop tries
  MaxDisturbances       \* bound: of the instrument and its lines

ASSUME ScopeBounds ==
  /\ Kinds \subseteq {"keysight", "tek", "husky"}
  /\ Warm \in Nat \ {0} /\ Checks \in Nat \ {0}
  /\ Rows \in Nat   \* none in a campaign that is resumed when it is complete
  /\ MaxDisturbances \in Nat

VARIABLES
  kind,                 \* which backend this session has
  clockSource,          \* "husky" or "external"
  \* the instrument
  setting,              \* each setting: as asked for, or not
  errors,               \* its error queue holds something; reading clears it
  acq,                  \* its acquisition
  ter,                  \* Keysight's trigger event register; reading clears it
  aer,                  \* Keysight's arm event register; reading clears it
  numAcq,               \* Tektronix' count of triggers since the run began
  memory,               \* the record it holds
  \* the backend
  visa,                 \* the VISA session: none, the manager, the instrument too
  husky,                \* the Husky is connected
  timeout,              \* the time limit of the VISA session
  baseline,             \* _immutable_capture_state
  index,                \* _last_trigger_index_samples: of the record of this arm; 0: None
  \* the caller
  pc, phase, tries, fired, shot, got,
  \* the environment, and what only the properties look at
  disturbances, touched, lateEvent

instrument == <<setting, errors, acq, ter, aer, numAcq, memory>>
backend == <<visa, husky, timeout, baseline, index>>
caller == <<pc, phase, tries, fired, shot, got>>
choice == <<kind, clockSource>>
history == <<disturbances, touched, lateEvent>>
vars == <<choice, instrument, backend, caller, history>>

\* The record length, the time base, and everything that no other command reads.
Settings == {"record", "timing", "rest"}
\* What was asked for; set_samples asks for another record length and time span.
Asked(p) == [s \in Settings |->
               IF p = "campaign" /\ s \in {"record", "timing"} THEN "resized" ELSE "asked"]
Values == {"asked", "resized", "other"}
Nothing == [shot |-> 0, onTime |-> FALSE]
NoRow == [record |-> Nothing, index |-> 0, full |-> FALSE]
Shots == Warm + Checks + Rows
Scope == kind # "husky"

TypeOK ==
  /\ kind \in Kinds /\ clockSource \in {"husky", "external"}
  /\ setting \in [Settings -> Values]
  /\ acq \in {"stopped", "filling", "ready"} /\ numAcq \in 0 .. 1
  /\ {errors, ter, aer, husky, touched, lateEvent} \subseteq BOOLEAN
  /\ memory \in [shot : 0 .. Shots, onTime : BOOLEAN]
  /\ visa \in {"none", "manager", "open"} /\ (visa # "none" => Scope)
  /\ timeout = IF Scope /\ pc = "transfer" THEN "transfer" ELSE "control"
  /\ baseline \in [Settings -> Values]
  /\ index \in 0 .. Shots
  /\ pc \in {"clock", "open", "setup", "check", "preamble", "baseline", "row", "clear", "single",
             "poll", "run", "wait", "confirm", "index", "transfer", "returned", "samples",
             "verify", "closing", "down"}
  /\ phase \in {"warm", "check", "campaign"} /\ tries \in 0 .. Shots /\ fired \in 0 .. Warm
  /\ shot \in 0 .. Shots /\ disturbances \in 0 .. MaxDisturbances

Init ==
  /\ kind \in Kinds /\ clockSource \in {"husky", "external"}
  /\ setting \in [Settings -> {"asked", "other"}]
  /\ errors \in BOOLEAN /\ acq \in {"stopped", "filling"}
  /\ ter \in BOOLEAN /\ aer \in BOOLEAN /\ numAcq = 0 /\ memory = Nothing
  /\ visa = "none" /\ husky = FALSE /\ timeout = "control"
  /\ baseline = [s \in Settings |-> "other"] /\ index = 0
  /\ pc = "clock" /\ phase = "warm" /\ tries = 0 /\ fired = 0 /\ shot = 0 /\ got = NoRow
  /\ disturbances = 0 /\ touched = FALSE /\ lateEvent = FALSE

-----------------------------------------------------------------------------
(* The caller: what an exception does in each phase.                       *)

At(p) == pc = p
Goto(p) == pc' = p
Stay == UNCHANGED <<phase, tries, fired, shot, got>>

\* The next try of the phase, or the next phase.
NextTry(success) ==
  LET warm == fired + (IF success THEN 1 ELSE 0)
      left == CASE phase = "warm" -> Warm [] phase = "check" -> Checks [] OTHER -> Rows
  IN /\ fired' = IF phase = "warm" THEN warm ELSE fired
     /\ IF tries + 1 < left
        THEN /\ tries' = tries + 1 /\ UNCHANGED phase
             /\ Goto("row") \/ (phase = "campaign" /\ Goto("verify"))   \* a checkpoint
        ELSE /\ tries' = IF phase = "campaign" THEN Rows ELSE 0
             /\ \/ phase = "warm" /\ warm = 0 /\ Goto("closing") /\ UNCHANGED phase
                \/ phase = "warm" /\ warm > 0 /\ phase' = "check" /\ Goto("row")
                \/ phase = "check" /\ phase' = "campaign" /\ Goto("samples")
                \/ phase = "check" /\ Goto("closing") /\ UNCHANGED phase   \* its results are wrong
                \/ phase = "campaign" /\ Goto("verify") /\ UNCHANGED phase

\* preflight swallows the time-outs of its warm-up, the loop rejects the row; every
\* other exception ends the session.
Raised(class) ==
  /\ \/ phase = "warm" /\ class = "timeout" /\ NextTry(FALSE)
     \/ phase = "campaign" /\ NextTry(FALSE)
     \/ ~(phase = "warm" /\ class = "timeout") /\ phase # "campaign"
        /\ Goto("closing") /\ UNCHANGED <<phase, tries, fired>>
  /\ got' = NoRow /\ UNCHANGED shot

-----------------------------------------------------------------------------
(* configure: the board clock, the session, the settings.                  *)

\* The Husky makes the clock, or measures; or somebody else makes the clock.  A
\* clock driver that raises is closed by itself, a measuring Husky by the caller.
ClockNotKept ==   \* (mutant)
  /\ At("clock")
  /\ husky' = ~Scope
  /\ Goto("open") /\ Stay
  /\ UNCHANGED <<choice, instrument, visa, timeout, baseline, index, history>>

ClockIsOurs == Scope => clockSource = "husky"

ConnectHusky ==
  /\ At("clock")
  /\ \/ ~ClockIsOurs /\ UNCHANGED husky /\ Goto("open")
     \/ ClockIsOurs /\ husky' = TRUE /\ Goto("open")
     \/ ClockIsOurs /\ husky' = ~Scope /\ Goto("closing")
  /\ Stay /\ UNCHANGED <<choice, instrument, visa, timeout, baseline, index, history>>

\* The resource manager first; the wrong or no instrument is an exception.
\* *CLS empties the error queue and the event registers.
OpenInstrument ==
  /\ At("open") /\ Scope
  /\ \/ /\ visa = "none" /\ visa' = "manager" /\ Goto("open")
        /\ UNCHANGED <<errors, ter, aer>>
     \/ /\ visa = "manager" /\ visa' = "open" /\ Goto("setup")
        /\ errors' = FALSE /\ ter' = FALSE /\ aer' = FALSE
     \/ /\ Goto("closing") /\ UNCHANGED <<visa, errors, ter, aer>>
  /\ Stay
  /\ UNCHANGED <<choice, setting, acq, numAcq, memory, husky, timeout, baseline, index, history>>

\* The error queue is read to its end, and what was in it is an exception.
ErrorsRead == errors' = FALSE

\* Stopped first, then every setting; an instrument may refuse one, which its
\* error queue tells, or put a value of its own in its place.
WriteSettings ==
  /\ At("setup")
  /\ acq' = "stopped"
  /\ \/ setting' = Asked(phase) /\ UNCHANGED errors
     \/ \E s \in Settings : setting' = [Asked(phase) EXCEPT ![s] = "other"] /\ errors' \in BOOLEAN
  /\ Goto("check") /\ Stay
  /\ UNCHANGED <<choice, ter, aer, numAcq, memory, backend, history>>

\* A setting reads back as it was asked for, in the instrument's own spelling or
\* within its tolerance.
Confirmed(s) == setting[s] = Asked(phase)[s]

\* The error queue, then every setting read back.
CheckSettings ==
  /\ At("check")
  /\ ErrorsRead
  /\ Goto(IF ~errors /\ (\A s \in Settings : Confirmed(s)) THEN "preamble" ELSE "closing")
  /\ Stay
  /\ UNCHANGED <<choice, setting, acq, ter, aer, numAcq, memory, backend, history>>

\* Calibration and timing from the waveform preamble, checked against the request.
ReadPreamble ==
  /\ At("preamble")
  /\ ErrorsRead
  /\ Goto(IF ~errors /\ \A s \in {"record", "timing"} : Confirmed(s)
          THEN "baseline" ELSE "closing")
  /\ Stay
  /\ UNCHANGED <<choice, setting, acq, ter, aer, numAcq, memory, backend, history>>

\* The same two steps with the commands of the vendor.
ConfigureTek == kind = "tek" /\ (WriteSettings \/ CheckSettings)
ConfigureKeysight == kind = "keysight" /\ (WriteSettings \/ CheckSettings)

\* The analog path of both channels and of the trigger, asked again one by one: a
\* value that cannot be, or must not be, is an exception.
PathRefused == ~Confirmed("rest")

\* What verify_capture_state will compare with.
ReadBaseline ==
  /\ At("baseline")
  /\ baseline' = setting
  /\ ErrorsRead
  /\ \/ (errors \/ PathRefused) /\ Goto("closing")
     \/ ~errors /\ Goto(IF phase = "campaign" THEN "verify" ELSE "row")
  /\ Stay
  /\ UNCHANGED <<choice, setting, acq, ter, aer, numAcq, memory, visa, husky, timeout, index,
                 history>>

\* The Husky's settings are written and read back in one place.
ConfigureHusky ==
  /\ At("open") /\ ~Scope
  /\ \/ Goto("row") /\ setting' = Asked(phase)
     \/ Goto("closing") /\ setting' = [Asked(phase) EXCEPT !["record"] = "other"]
     \/ Goto("closing") /\ setting' = Asked(phase)   \* its clocks are off
  /\ acq' = "stopped"
  /\ Stay
  /\ UNCHANGED <<choice, errors, ter, aer, numAcq, memory, backend, history>>

\* set_samples with the length preflight has chosen: written, checked, and the
\* baseline read anew, all as above.
BaselineKept == "row"   \* (mutant)
AfterResize == "preamble"

SetSamples ==
  /\ At("samples") /\ Scope
  /\ ErrorsRead
  /\ \E v \in {"resized", "other"} :
       /\ setting' = [setting EXCEPT !["record"] = v, !["timing"] = v]
       /\ Goto(IF ~errors /\ v = "resized" THEN AfterResize ELSE "closing")
  /\ Stay
  /\ UNCHANGED <<choice, acq, ter, aer, numAcq, memory, backend, history>>

SetHuskySamples ==
  /\ At("samples") /\ ~Scope
  /\ \E v \in {"resized", "other"} :
       /\ setting' = [setting EXCEPT !["record"] = v]
       /\ Goto(IF v = "resized" THEN "verify" ELSE "closing")
  /\ Stay
  /\ UNCHANGED <<choice, errors, acq, ter, aer, numAcq, memory, backend, history>>

-----------------------------------------------------------------------------
(* arm.                                                                    *)

StartRow ==
  /\ At("row")
  /\ index' = 0
  /\ shot' = shot + 1
  /\ Goto(IF kind = "keysight" THEN "clear" ELSE "single")
  /\ UNCHANGED <<choice, instrument, visa, husky, timeout, baseline, phase, tries, fired, got>>
  /\ lateEvent' = FALSE
  /\ UNCHANGED <<disturbances, touched>>

\* :TER? and :AER?, read to clear them.
ClearEvents ==
  /\ At("clear")
  /\ ter' = FALSE /\ aer' = FALSE
  /\ Goto("single") /\ Stay
  /\ UNCHANGED <<choice, setting, errors, acq, numAcq, memory, backend, history>>

\* :SINGle drops the record; ACQuire:STATE RUN counts anew; the Husky is armed at once.
StartAcquisition ==
  /\ At("single")
  /\ acq' = IF Scope THEN "filling" ELSE "ready"
  /\ memory' = IF kind = "tek" THEN memory ELSE Nothing
  /\ numAcq' = 0
  /\ Goto(IF Scope THEN "poll" ELSE "run") /\ Stay
  /\ UNCHANGED <<choice, setting, errors, ter, aer, backend, history>>

\* Keysight: the arm event, and the run bit still set.  Reading AER clears it.
ArmKeysight ==
  /\ At("poll") /\ kind = "keysight"
  /\ aer' = FALSE
  /\ \/ aer /\ acq # "stopped" /\ Goto("run") /\ Stay
     \/ aer /\ acq = "stopped" /\ Raised("timeout")
     \/ ~aer /\ Goto("poll") /\ Stay
     \/ ~aer /\ Raised("timeout")   \* the deadline
  /\ UNCHANGED <<choice, setting, errors, acq, ter, numAcq, memory, backend, history>>

\* Tektronix: READY alone; ARMED is not ready yet.
ArmedIsReady ==   \* (mutant)
  /\ At("poll") /\ kind = "tek"
  /\ Goto("run") /\ Stay
  /\ UNCHANGED <<choice, instrument, backend, history>>

ArmTek ==
  /\ At("poll") /\ kind = "tek"
  /\ \/ acq = "ready" /\ Goto("run") /\ Stay
     \/ acq # "ready" /\ Goto("poll") /\ Stay
     \/ acq # "ready" /\ Raised("timeout")
  /\ UNCHANGED <<choice, instrument, backend, history>>

-----------------------------------------------------------------------------
(* The operation and the capture.                                          *)

\* An edge is a trigger only for an acquisition that is ready.
Triggered ==
  /\ acq' = IF acq = "ready" THEN "stopped" ELSE acq
  /\ ter' = (ter \/ acq = "ready")
  /\ numAcq' = IF acq = "ready" THEN 1 ELSE numAcq
  /\ memory' = IF acq = "ready" THEN [shot |-> shot, onTime |-> setting["timing"] = Asked(phase)["timing"]]
               ELSE memory

\* target.run: the operation raises the trigger line, or its edge does not arrive;
\* or the target fails, which is not the backend's affair: the next row arms again.
Operate ==
  /\ At("run")
  /\ Triggered \/ UNCHANGED <<acq, ter, numAcq, memory>>
  /\ \/ Goto("wait") /\ Stay
     \/ \E class \in {"timeout", "error"} : Raised(class)
  /\ UNCHANGED <<choice, setting, errors, aer, backend, history>>

\* Until the acquisition has stopped, or the time limit.
WaitsForever ==   \* (mutant)
  /\ At("wait") /\ acq = "stopped"
  /\ Goto("confirm") /\ Stay
  /\ UNCHANGED <<choice, instrument, backend, history>>

Wait ==
  /\ At("wait")
  /\ \/ acq = "stopped" /\ Goto("confirm") /\ Stay
     \/ acq # "stopped" /\ Goto("wait") /\ Stay
     \/ acq # "stopped" /\ Raised("timeout")
  /\ UNCHANGED <<choice, instrument, backend, history>>

\* Stopped is not triggered: TER on a Keysight, NUMACq on a Tektronix, and the Husky
\* says itself whether it timed out.
StopIsEnough ==   \* (mutant)
  /\ At("confirm")
  /\ Goto(IF Scope THEN "index" ELSE "transfer") /\ Stay
  /\ UNCHANGED <<choice, instrument, backend, history>>

Confirm ==
  /\ At("confirm")
  /\ LET triggered == CASE kind = "keysight" -> ter
                        [] kind = "tek" -> numAcq = 1
                        [] OTHER -> memory.shot = shot
     IN \/ triggered /\ Goto(IF Scope THEN "index" ELSE "transfer") /\ Stay
        \/ ~triggered /\ Raised("timeout")
  /\ ter' = (ter /\ kind # "keysight")
  /\ UNCHANGED <<choice, setting, errors, acq, aer, numAcq, memory, backend, history>>

\* The preamble of this record: its length, its interval, its trigger position.
ReadTriggerIndex ==
  /\ At("index")
  /\ \/ /\ setting["record"] = Asked(phase)["record"]
        /\ memory.onTime \/ memory = Nothing
        /\ index' = memory.shot /\ timeout' = "transfer"
        /\ Goto("transfer") /\ Stay
     \/ Raised("error") /\ UNCHANGED <<index, timeout>>
  /\ UNCHANGED <<choice, instrument, visa, husky, baseline, history>>

\* Whatever the transfer does, the time limit goes back.
LimitForgotten == UNCHANGED timeout   \* (mutant)
LimitRestored == timeout' = "control"

Transfer ==
  /\ At("transfer")
  /\ LimitRestored
  /\ \/ /\ got' = [record |-> memory, index |-> index, full |-> setting["record"] = Asked(phase)["record"]]
        /\ Goto("returned") /\ UNCHANGED <<phase, tries, fired, shot>>
     \/ Raised("error")
  /\ UNCHANGED <<choice, instrument, visa, husky, baseline, index, history>>

\* What the caller does with a record: one of another length is rejected.
UseRecord ==
  /\ At("returned")
  /\ IF got.full THEN NextTry(TRUE) /\ got' = NoRow /\ UNCHANGED shot
     ELSE Raised("error")
  /\ UNCHANGED <<choice, instrument, backend, history>>

-----------------------------------------------------------------------------
(* verify_capture_state and close.                                         *)

\* A setting that is no longer the baseline's, up to rounding.
Drifted == setting # baseline

\* Errors or a setting that has drifted end the session.
Verify ==
  /\ At("verify")
  /\ errors' = (errors /\ ~Scope)
  /\ \/ (Scope => ~errors /\ ~Drifted) /\ Goto(IF tries < Rows THEN "row" ELSE "closing")
     \/ Scope /\ (errors \/ Drifted) /\ Goto("closing")
  /\ Stay
  /\ UNCHANGED <<choice, setting, acq, ter, aer, numAcq, memory, backend, history>>

\* Every close goes on after an exception of the one before.

Close ==
  /\ At("closing")
  /\ visa' = "none" /\ husky' = FALSE
  /\ acq' = IF visa = "open" THEN "stopped" ELSE acq
  /\ Goto("down") /\ Stay
  /\ UNCHANGED <<choice, setting, errors, ter, aer, numAcq, memory, timeout, baseline, index,
                 history>>

-----------------------------------------------------------------------------
(* The instrument by itself, and its surroundings.                         *)

\* The pretrigger part is full.
Fills ==
  /\ acq = "filling" /\ acq' = "ready" /\ aer' = TRUE
  /\ lateEvent' = (lateEvent \/ pc = "single")
  /\ UNCHANGED <<choice, setting, errors, ter, numAcq, memory, backend, caller, disturbances,
                 touched>>

Disturbed ==
  /\ disturbances < MaxDisturbances /\ pc # "down"
  /\ disturbances' = disturbances + 1

\* A hand at the front panel changes a setting, or stops the acquisition.
TouchSetting ==
  /\ Disturbed /\ Scope
  /\ \E s \in Settings : setting' = [setting EXCEPT ![s] = IF @ = "other" THEN Asked(phase)[s] ELSE "other"]
  /\ touched' = TRUE
  /\ UNCHANGED <<choice, errors, acq, ter, aer, numAcq, memory, backend, caller, lateEvent>>

TouchStop ==
  /\ Disturbed /\ Scope /\ acq # "stopped"
  /\ acq' = "stopped"
  /\ UNCHANGED <<choice, setting, errors, ter, aer, numAcq, memory, backend, caller, touched,
                 lateEvent>>

\* An edge nobody asked for; of an acquisition before this one if it comes early.
StrayEdge ==
  /\ Disturbed /\ acq = "ready"
  /\ Triggered
  /\ lateEvent' = (lateEvent \/ pc = "single")
  /\ UNCHANGED <<choice, setting, errors, aer, backend, caller, touched>>

\* A command that fails: the exception, and perhaps an entry in the error queue.
CommandFails ==
  /\ Disturbed /\ Scope /\ visa = "open"
  /\ errors' \in {errors, TRUE}
  /\ touched' = TRUE
  /\ \/ /\ pc \in {"setup", "check", "preamble", "baseline", "samples", "verify"}
        /\ Goto("closing") /\ Stay
        /\ UNCHANGED timeout
     \/ /\ pc \in {"clear", "single", "poll", "confirm", "index"}
        /\ Raised("error") /\ UNCHANGED timeout
     \/ pc = "wait" /\ (IF kind = "keysight" THEN Goto("wait") /\ Stay ELSE Raised("error"))
        /\ UNCHANGED timeout
     \/ pc = "transfer" /\ Raised("error") /\ LimitRestored
  /\ UNCHANGED <<choice, setting, acq, ter, aer, numAcq, memory, visa, husky, baseline, index,
                 lateEvent>>

-----------------------------------------------------------------------------
Program ==
  \/ ConnectHusky \/ OpenInstrument \/ ConfigureTek \/ ConfigureKeysight \/ ReadPreamble
  \/ ReadBaseline \/ ConfigureHusky \/ SetSamples \/ SetHuskySamples
  \/ StartRow \/ ClearEvents \/ StartAcquisition \/ ArmKeysight \/ ArmTek
  \/ Operate \/ Wait \/ Confirm \/ ReadTriggerIndex \/ Transfer \/ UseRecord
  \/ Verify \/ Close

Surroundings == Fills \/ TouchSetting \/ TouchStop \/ StrayEdge \/ CommandFails

Next == Program \/ Surroundings

Spec == Init /\ [][Next]_vars

\* The program runs, and its clock reaches every time limit; nothing is assumed of
\* the instrument.
FairSpec == Spec /\ WF_vars(Program)

-----------------------------------------------------------------------------
(* Properties.                                                             *)

\* A record that capture() returns was started by the arm of this row, and the
\* trigger index kept with it is its own: never an earlier record that is still in
\* the memory, an acquisition somebody stopped, or the index of another row.  The
\* one way round it is lateEvent: the acquisition before this one, never stopped,
\* fills or triggers after TER and AER were read and before :SINGle (scope.py arm,
\* capture).
RecordIsOfThisRow ==
  At("returned") /\ ~lateEvent
  => got.record.shot = shot /\ (Scope => got.index = shot)

\* When the operation starts, the instrument can trigger on it: its pretrigger memory
\* is full and nothing has taken the acquisition away, unless somebody stood at the
\* front panel, the line moved by itself, or by lateEvent as above: AER then tells of
\* the acquisition before, and the edge of this row is missed (scope.py arm).
ArmedBeforeOperation == At("run") => acq = "ready" \/ disturbances > 0 \/ lateEvent

\* verify_capture_state raises no false alarm: what ends a campaign at a checkpoint
\* is a hand at the instrument or a command that failed, never the backend's own
\* set-up and re-sizing (scope.py set_samples).
NoFalseAlarm == [][At("verify") /\ tries < Rows /\ pc' = "closing" => touched']_vars

\* While a scope measures, the Husky that makes the board clock stays connected, and
\* after the session nothing stays behind (backend/clock.py, scope.py close).
ClockWhileMeasuring ==
  /\ pc \in {"row", "run", "wait", "index", "transfer", "verify"} /\ clockSource = "husky" => husky
  /\ At("down") => visa = "none" /\ ~husky

\* A row is measured only on an instrument that is armed for it and clocked, and
\* every command but the transfer has the short time limit (TypeOK), also after a
\* transfer that failed (scope.py capture, close).
MeasuresAsSetUp == TypeOK /\ ArmedBeforeOperation /\ ClockWhileMeasuring

\* Whatever the instrument does or does not answer, a session ends: every wait of
\* arm and capture has a time limit.
SessionEnds == <>At("down")
===============================================================================
