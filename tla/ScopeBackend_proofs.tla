-------------------------- MODULE ScopeBackend_proofs --------------------------
(***************************************************************************)
(* Proofs about ScopeBackend, for every number of trial captures and rows  *)
(* and any number of disturbances.                                         *)
(***************************************************************************)
EXTENDS ScopeBackend, TLAPS

\* The steps of one row, from its arm to the record that capture() returns.
Measuring ==
  {"clear", "single", "poll", "run", "wait", "confirm", "index", "transfer", "returned"}
Armed == {"poll", "run", "wait", "confirm"}
\* The session is set up, and what the instrument has is the baseline.
Settled == Measuring \cup {"row", "verify"}

\* The tries of the phases before this one, and those of this one.
Before == CASE phase = "warm" -> 0 [] phase = "check" -> Warm [] OTHER -> Warm + Checks
Limit == CASE phase = "warm" -> Warm [] phase = "check" -> Checks [] OTHER -> Rows

\* Each try arms once, and a phase never has more tries than it may.
ShotsCounted ==
  /\ phase = "warm" => fired <= tries \/ pc = "closing" \/ pc = "down"
  /\ pc \notin {"closing", "down"}
     => /\ shot = Before + tries + (IF pc \in Measuring THEN 1 ELSE 0)
        /\ IF pc = "verify" THEN phase = "campaign" /\ tries <= Rows
           ELSE tries < Limit \/ (tries = 0 /\ pc \notin Settled)
  /\ pc = "samples" => phase = "campaign"
  /\ pc \in {"clock", "open"} => phase = "warm"

\* The steps that only one kind of instrument has.
Places ==
  /\ pc \in {"setup", "check", "preamble", "baseline", "clear", "poll", "index"} => Scope
  /\ pc = "clear" => kind = "keysight"

ClockKept ==
  /\ pc \notin {"clock", "closing", "down"} /\ (Scope => clockSource = "husky") => husky
  /\ At("down") => visa = "none" /\ ~husky

\* What the arm event of a Keysight tells, unless it is of the acquisition before.
ArmEventIsTrue ==
  kind = "keysight" /\ disturbances = 0 /\ ~lateEvent
  => /\ pc = "single" => ~aer
     /\ pc = "poll" /\ aer => acq = "ready"

\* What each trigger register tells of the memory.
TriggerIsOfThisRow ==
  /\ kind = "keysight" /\ ~lateEvent
     => /\ pc = "single" => ~ter
        /\ pc \in Armed /\ ter => memory.shot = shot
  /\ kind = "tek" /\ pc \in Armed /\ numAcq = 1 => memory.shot = shot
  /\ ~lateEvent /\ pc \in {"index", "transfer"} => memory.shot = shot
  /\ ~lateEvent /\ Scope /\ pc = "transfer" => index = shot

\* Nothing but a hand at the instrument or a command that failed makes it differ.
Untouched ==
  Scope /\ ~touched
  => /\ pc \in Settled => setting = baseline
     /\ pc \in Settled \cup {"samples", "preamble", "baseline"} => ~errors

SInv ==
  /\ TypeOK /\ ShotsCounted /\ Places /\ ClockKept
  /\ ArmEventIsTrue /\ ArmedBeforeOperation /\ TriggerIsOfThisRow /\ RecordIsOfThisRow /\ Untouched

\* What the arithmetic and the sets of names come to.
LEMMA Bounds ==
  /\ Warm \in Nat /\ Warm > 0 /\ Checks \in Nat /\ Checks > 0 /\ Rows \in Nat
  /\ Shots \in Nat /\ Shots = Warm + Checks + Rows /\ MaxDisturbances \in Nat
  BY ScopeBounds DEF Shots

\* The Boolean variables, one by one.
LEMMA Booleans ==
  ASSUME TypeOK
  PROVE  /\ errors \in BOOLEAN /\ ter \in BOOLEAN /\ aer \in BOOLEAN
         /\ husky \in BOOLEAN /\ touched \in BOOLEAN /\ lateEvent \in BOOLEAN
  BY DEF TypeOK

\* A try that is over: the row, and the phase, that come after it.
TryOver ==
  /\ pc' \in {"row", "verify", "closing", "samples"} /\ shot' = shot
  /\ phase' \in {"warm", "check", "campaign"} /\ tries' \in 0 .. Shots /\ fired' \in 0 .. Warm
  /\ ShotsCounted'

\* Whichever way a try ends, the count of the shots stays right (run.py, validate.py).
LEMMA NextTrySummary ==
  ASSUME TypeOK, ShotsCounted, pc \in Measuring, shot' = shot, NextTry(TRUE) \/ NextTry(FALSE)
  PROVE  TryOver
  <1> USE Bounds DEF TypeOK, ShotsCounted, Before, Limit, Measuring, Settled, TryOver, Goto
  <1>0. pc \notin {"closing", "down", "verify", "samples", "row"}
    OBVIOUS
  <1>1. CASE phase = "warm"
    <2>1. fired <= tries /\ tries < Warm /\ shot = tries + 1
      BY <1>1
    <2>2. fired' \in {fired, fired + 1}
      BY DEF NextTry
    <2>3. CASE tries + 1 < Warm
      BY DEF NextTry
    <2>4. CASE ~(tries + 1 < Warm)
      BY DEF NextTry
    <2>5. QED
      BY <2>3, <2>4
  <1>2. CASE phase = "check"
    <2>1. tries < Checks /\ shot = Warm + tries + 1 /\ fired' = fired
      BY <1>2 DEF NextTry
    <2>3. CASE tries + 1 < Checks
      BY DEF NextTry
    <2>4. CASE ~(tries + 1 < Checks)
      BY DEF NextTry
    <2>5. QED
      BY <2>3, <2>4
  <1>3. CASE phase = "campaign"
    <2>1. tries < Rows /\ shot = Warm + Checks + tries + 1 /\ fired' = fired
      BY <1>3 DEF NextTry
    <2>3. CASE tries + 1 < Rows
      BY DEF NextTry
    <2>4. CASE ~(tries + 1 < Rows)
      BY DEF NextTry
    <2>5. QED
      BY <2>3, <2>4
  <1>4. QED
    BY <1>1, <1>2, <1>3

\* An exception ends the try, or the session.
LEMMA RaisedSummary ==
  ASSUME TypeOK, ShotsCounted, pc \in Measuring,
         Raised("timeout") \/ Raised("error")
  PROVE  TryOver /\ got' = NoRow
  <1>1. got' = NoRow /\ shot' = shot
    BY DEF Raised
  <1>2. CASE NextTry(FALSE)
    BY <1>1, <1>2, NextTrySummary
  <1>3. CASE Goto("closing") /\ UNCHANGED <<phase, tries, fired>>
    BY <1>1, <1>3 DEF TryOver, ShotsCounted, TypeOK, Goto
  <1>4. QED
    BY <1>2, <1>3 DEF Raised
\* The types of what is not Boolean.
Typed ==
  /\ kind \in Kinds /\ clockSource \in {"husky", "external"}
  /\ setting \in [Settings -> Values] /\ baseline \in [Settings -> Values]
  /\ acq \in {"stopped", "filling", "ready"} /\ numAcq \in 0 .. 1
  /\ memory \in [shot : 0 .. Shots, onTime : BOOLEAN]
  /\ visa \in {"none", "manager", "open"} /\ (visa # "none" => Scope)
  /\ timeout = IF Scope /\ pc = "transfer" THEN "transfer" ELSE "control"
  /\ index \in 0 .. Shots
  /\ pc \in {"clock", "open", "setup", "check", "preamble", "baseline", "row", "clear", "single",
             "poll", "run", "wait", "confirm", "index", "transfer", "returned", "samples",
             "verify", "closing", "down"}
  /\ phase \in {"warm", "check", "campaign"} /\ tries \in 0 .. Shots /\ fired \in 0 .. Warm
  /\ shot \in 0 .. Shots /\ disturbances \in 0 .. MaxDisturbances

Flags ==
  /\ errors \in BOOLEAN /\ ter \in BOOLEAN /\ aer \in BOOLEAN
  /\ husky \in BOOLEAN /\ touched \in BOOLEAN /\ lateEvent \in BOOLEAN

\* The type invariant is these two parts.
LEMMA TypeParts == TypeOK <=> Typed /\ Flags
  BY DEF TypeOK, Typed, Flags

LEMMA TypeStep == Typed' /\ Flags' => TypeOK'
  BY TypeParts, PTL

\* Every request is a setting.
LEMMA Requests == ASSUME NEW p PROVE Asked(p) \in [Settings -> Values]
  BY DEF Asked, Values


\* Outside of TypeOK: what holds between the variables.
Related ==
  /\ ShotsCounted /\ Places /\ ClockKept
  /\ ArmEventIsTrue /\ ArmedBeforeOperation /\ TriggerIsOfThisRow /\ RecordIsOfThisRow /\ Untouched

\* The end of a try needs no more of the instrument than that its settings are kept.
LEMMA TryEnds ==
  ASSUME SInv, pc \in Measuring, TryOver, Flags',
         UNCHANGED <<choice, setting, visa, husky, baseline>>,
         touched => touched', errors' => errors \/ touched'
  PROVE  Related'
  <1> USE DEF TryOver, choice, At, Scope, SInv
  <1>0. pc \notin {"row", "verify", "closing", "samples", "clock", "down"}
    BY DEF Measuring
  <1>1. Places'
    BY DEF Places
  <1>2. ClockKept'
    BY <1>0 DEF ClockKept
  <1>3. ArmEventIsTrue' /\ ArmedBeforeOperation' /\ TriggerIsOfThisRow' /\ RecordIsOfThisRow'
    BY DEF ArmEventIsTrue, ArmedBeforeOperation, TriggerIsOfThisRow, RecordIsOfThisRow, Armed
  <1>4. Untouched'
    BY DEF Untouched, Settled
  <1>5. QED
    BY <1>1, <1>2, <1>3, <1>4 DEF Related


\* The Husky is connected wherever its clock or its ADC is needed (backend/clock.py).
LEMMA ConnectHuskyStep ==
  ASSUME SInv, ConnectHusky
  PROVE  SInv'
  <1> USE Bounds DEF At, Goto, Stay, Scope, choice, instrument, backend, caller, history
  <1>0. Typed /\ Flags /\ ShotsCounted /\ Places /\ TypeOK
    BY TypeParts DEF SInv
  <1>1. setting' \in [Settings -> Values] /\ baseline' \in [Settings -> Values]
    BY <1>0 DEF ConnectHusky, Typed
  <1>2. Typed'
    BY <1>0 DEF ConnectHusky, Typed
  <1>3. Flags'
    BY <1>0 DEF ConnectHusky, Flags
  <1>4. ShotsCounted'
    BY DEF SInv, ConnectHusky, ShotsCounted, Before, Limit, Measuring
  <1>5. Places' /\ ClockKept'
    BY DEF ConnectHusky, ClockIsOurs, Places, ClockKept
  <1>6. ArmEventIsTrue' /\ ArmedBeforeOperation'
    BY DEF ConnectHusky, ArmEventIsTrue, ArmedBeforeOperation
  <1>7. TriggerIsOfThisRow' /\ RecordIsOfThisRow'
    BY DEF ConnectHusky, TriggerIsOfThisRow, Armed, RecordIsOfThisRow
  <1>8. Untouched'
    BY DEF ConnectHusky, Untouched, Settled, Measuring
  <1>9. QED
    BY <1>2, <1>3, <1>4, <1>5, <1>6, <1>7, <1>8, TypeStep DEF SInv

\* Only a scope is opened as one.
LEMMA OpenInstrumentStep ==
  ASSUME SInv, OpenInstrument
  PROVE  SInv'
  <1> USE Bounds DEF At, Goto, Stay, Scope, choice, instrument, backend, caller, history
  <1>0. Typed /\ Flags /\ ShotsCounted /\ Places /\ TypeOK
    BY TypeParts DEF SInv
  <1>1. setting' \in [Settings -> Values] /\ baseline' \in [Settings -> Values]
    BY <1>0 DEF OpenInstrument, Typed
  <1>2. Typed'
    BY <1>0 DEF OpenInstrument, Typed
  <1>3. Flags'
    BY <1>0 DEF OpenInstrument, Flags
  <1>4. ShotsCounted'
    BY DEF SInv, OpenInstrument, ShotsCounted, Before, Limit, Measuring
  <1>5. Places' /\ ClockKept'
    BY DEF SInv, OpenInstrument, Places, ClockKept
  <1>6. ArmEventIsTrue' /\ ArmedBeforeOperation'
    BY DEF OpenInstrument, ArmEventIsTrue, ArmedBeforeOperation
  <1>7. TriggerIsOfThisRow' /\ RecordIsOfThisRow'
    BY DEF OpenInstrument, TriggerIsOfThisRow, Armed, RecordIsOfThisRow
  <1>8. Untouched'
    BY DEF OpenInstrument, Untouched, Settled, Measuring
  <1>9. QED
    BY <1>2, <1>3, <1>4, <1>5, <1>6, <1>7, <1>8, TypeStep DEF SInv

\* The settings go out; nothing is claimed of them yet.
LEMMA WriteSettingsStep ==
  ASSUME SInv, WriteSettings
  PROVE  SInv'
  <1> USE Bounds DEF At, Goto, Stay, Scope, choice, instrument, backend, caller, history
  <1>0. Typed /\ Flags /\ ShotsCounted /\ Places /\ TypeOK
    BY TypeParts DEF SInv
  <1>1. setting' \in [Settings -> Values] /\ baseline' \in [Settings -> Values]
    BY <1>0, Requests DEF WriteSettings, Typed, Values
  <1>2. Typed'
    BY <1>0, <1>1 DEF WriteSettings, Typed
  <1>3. Flags'
    BY <1>0 DEF WriteSettings, Flags
  <1>4. ShotsCounted'
    BY Booleans DEF SInv, WriteSettings, TypeOK, ShotsCounted, Before, Limit, Measuring, Settled
  <1>5. Places' /\ ClockKept'
    BY DEF SInv, WriteSettings, Places, ClockKept
  <1>6. ArmEventIsTrue' /\ ArmedBeforeOperation'
    BY DEF WriteSettings, ArmEventIsTrue, ArmedBeforeOperation
  <1>7. TriggerIsOfThisRow' /\ RecordIsOfThisRow'
    BY DEF WriteSettings, TriggerIsOfThisRow, Armed, RecordIsOfThisRow
  <1>8. Untouched'
    BY DEF WriteSettings, Untouched, Settled, Measuring
  <1>9. QED
    BY <1>2, <1>3, <1>4, <1>5, <1>6, <1>7, <1>8, TypeStep DEF SInv

\* The error queue is empty once the settings are confirmed.
LEMMA CheckSettingsStep ==
  ASSUME SInv, CheckSettings
  PROVE  SInv'
  <1> USE Bounds DEF At, Goto, Stay, Scope, choice, instrument, backend, caller, history
  <1>0. Typed /\ Flags /\ ShotsCounted /\ Places /\ TypeOK
    BY TypeParts DEF SInv
  <1>1. setting' \in [Settings -> Values] /\ baseline' \in [Settings -> Values]
    BY <1>0 DEF CheckSettings, Typed
  <1>2. Typed'
    BY <1>0 DEF CheckSettings, Typed
  <1>3. Flags'
    BY <1>0 DEF CheckSettings, ErrorsRead, Flags
  <1>4. ShotsCounted'
    BY DEF SInv, CheckSettings, ShotsCounted, Before, Limit, Measuring, Settled
  <1>5. Places' /\ ClockKept'
    BY DEF SInv, CheckSettings, Places, ClockKept
  <1>6. ArmEventIsTrue' /\ ArmedBeforeOperation'
    BY DEF CheckSettings, ArmEventIsTrue, ArmedBeforeOperation
  <1>7. TriggerIsOfThisRow' /\ RecordIsOfThisRow'
    BY DEF CheckSettings, TriggerIsOfThisRow, Armed, RecordIsOfThisRow
  <1>8. Untouched'
    BY DEF CheckSettings, ErrorsRead, Untouched, Settled, Measuring
  <1>9. QED
    BY <1>2, <1>3, <1>4, <1>5, <1>6, <1>7, <1>8, TypeStep DEF SInv

\* The preamble reads the error queue empty.
LEMMA ReadPreambleStep ==
  ASSUME SInv, ReadPreamble
  PROVE  SInv'
  <1> USE Bounds DEF At, Goto, Stay, Scope, choice, instrument, backend, caller, history
  <1>0. Typed /\ Flags /\ ShotsCounted /\ Places /\ TypeOK
    BY TypeParts DEF SInv
  <1>1. setting' \in [Settings -> Values] /\ baseline' \in [Settings -> Values]
    BY <1>0 DEF ReadPreamble, Typed
  <1>2. Typed'
    BY <1>0 DEF ReadPreamble, Typed
  <1>3. Flags'
    BY <1>0 DEF ReadPreamble, ErrorsRead, Flags
  <1>4. ShotsCounted'
    BY DEF SInv, ReadPreamble, ShotsCounted, Before, Limit, Measuring, Settled
  <1>5. Places' /\ ClockKept'
    BY DEF SInv, ReadPreamble, Places, ClockKept
  <1>6. ArmEventIsTrue' /\ ArmedBeforeOperation'
    BY DEF ReadPreamble, ArmEventIsTrue, ArmedBeforeOperation
  <1>7. TriggerIsOfThisRow' /\ RecordIsOfThisRow'
    BY DEF ReadPreamble, TriggerIsOfThisRow, Armed, RecordIsOfThisRow
  <1>8. Untouched'
    BY DEF ReadPreamble, ErrorsRead, Untouched, Settled, Measuring
  <1>9. QED
    BY <1>2, <1>3, <1>4, <1>5, <1>6, <1>7, <1>8, TypeStep DEF SInv

\* The baseline is what the instrument has.
LEMMA ReadBaselineStep ==
  ASSUME SInv, ReadBaseline
  PROVE  SInv'
  <1> USE Bounds DEF At, Goto, Stay, Scope, choice, instrument, backend, caller, history
  <1>0. Typed /\ Flags /\ ShotsCounted /\ Places /\ TypeOK
    BY TypeParts DEF SInv
  <1>1. setting' \in [Settings -> Values] /\ baseline' \in [Settings -> Values]
    BY <1>0 DEF ReadBaseline, PathRefused, Typed, Values
  <1>2. Typed'
    BY <1>0 DEF ReadBaseline, Typed, ShotsCounted, Limit
  <1>3. Flags'
    BY <1>0 DEF ReadBaseline, ErrorsRead, Flags
  <1>4. ShotsCounted'
    BY DEF SInv, ReadBaseline, TypeOK, ShotsCounted, Before, Limit, Measuring
  <1>5. Places' /\ ClockKept'
    BY DEF SInv, ReadBaseline, Places, ClockKept
  <1>6. ArmEventIsTrue' /\ ArmedBeforeOperation'
    BY DEF ReadBaseline, ArmEventIsTrue, TypeOK, ArmedBeforeOperation
  <1>7. TriggerIsOfThisRow' /\ RecordIsOfThisRow'
    BY DEF ReadBaseline, TypeOK, TriggerIsOfThisRow, Armed, RecordIsOfThisRow
  <1>8. Untouched'
    BY DEF ReadBaseline, ErrorsRead, Untouched
  <1>9. QED
    BY <1>2, <1>3, <1>4, <1>5, <1>6, <1>7, <1>8, TypeStep DEF SInv

\* The Husky starts with its first trial capture.
LEMMA ConfigureHuskyStep ==
  ASSUME SInv, ConfigureHusky
  PROVE  SInv'
  <1> USE Bounds DEF At, Goto, Stay, Scope, choice, instrument, backend, caller, history
  <1>0. Typed /\ Flags /\ ShotsCounted /\ Places /\ TypeOK
    BY TypeParts DEF SInv
  <1>1. setting' \in [Settings -> Values] /\ baseline' \in [Settings -> Values]
    BY <1>0, Requests DEF ConfigureHusky, Typed, Values
  <1>2. Typed'
    BY <1>0, <1>1 DEF ConfigureHusky, Typed
  <1>3. Flags'
    BY <1>0 DEF ConfigureHusky, Flags
  <1>4. ShotsCounted'
    BY DEF SInv, ConfigureHusky, ShotsCounted, Before, Limit, Measuring
  <1>5. Places' /\ ClockKept'
    BY DEF SInv, ConfigureHusky, Places, ClockKept
  <1>6. ArmEventIsTrue' /\ ArmedBeforeOperation'
    BY DEF ConfigureHusky, ArmEventIsTrue, ArmedBeforeOperation
  <1>7. TriggerIsOfThisRow' /\ RecordIsOfThisRow'
    BY DEF ConfigureHusky, TriggerIsOfThisRow, RecordIsOfThisRow
  <1>8. Untouched'
    BY DEF ConfigureHusky, Untouched
  <1>9. QED
    BY <1>2, <1>3, <1>4, <1>5, <1>6, <1>7, <1>8, TypeStep DEF SInv

\* A resized scope has no baseline until it is read anew.
LEMMA SetSamplesStep ==
  ASSUME SInv, SetSamples
  PROVE  SInv'
  <1> USE Bounds DEF At, Goto, Stay, Scope, choice, instrument, backend, caller, history
  <1>0. Typed /\ Flags /\ ShotsCounted /\ Places /\ TypeOK
    BY TypeParts DEF SInv
  <1>1. setting' \in [Settings -> Values] /\ baseline' \in [Settings -> Values]
    BY <1>0 DEF SetSamples, Typed, Values
  <1>2. Typed'
    BY <1>0, <1>1 DEF SetSamples, AfterResize, Typed
  <1>3. Flags'
    BY <1>0 DEF SetSamples, ErrorsRead, Flags
  <1>4. ShotsCounted'
    BY DEF SInv, SetSamples, AfterResize, ShotsCounted, Before, Limit, Measuring, Settled
  <1>5. Places' /\ ClockKept'
    BY DEF SInv, SetSamples, AfterResize, Places, ClockKept
  <1>6. ArmEventIsTrue' /\ ArmedBeforeOperation'
    BY DEF SetSamples, AfterResize, ArmEventIsTrue, ArmedBeforeOperation
  <1>7. TriggerIsOfThisRow' /\ RecordIsOfThisRow'
    BY DEF SetSamples, AfterResize, TriggerIsOfThisRow, Armed, RecordIsOfThisRow
  <1>8. Untouched'
    BY DEF SetSamples, ErrorsRead, AfterResize, Untouched, Settled, Measuring
  <1>9. QED
    BY <1>2, <1>3, <1>4, <1>5, <1>6, <1>7, <1>8, TypeStep DEF SInv

\* A resized Husky goes on to the first look at the campaign.
LEMMA SetHuskySamplesStep ==
  ASSUME SInv, SetHuskySamples
  PROVE  SInv'
  <1> USE Bounds DEF At, Goto, Stay, Scope, choice, instrument, backend, caller, history
  <1>0. Typed /\ Flags /\ ShotsCounted /\ Places /\ TypeOK
    BY TypeParts DEF SInv
  <1>1. setting' \in [Settings -> Values] /\ baseline' \in [Settings -> Values]
    BY <1>0 DEF SetHuskySamples, Typed, Values
  <1>2. Typed'
    BY <1>0, <1>1 DEF SetHuskySamples, Typed
  <1>3. Flags'
    BY <1>0 DEF SetHuskySamples, Flags
  <1>4. ShotsCounted'
    BY DEF SInv, SetHuskySamples, TypeOK, ShotsCounted, Before, Measuring
  <1>5. Places' /\ ClockKept'
    BY DEF SInv, SetHuskySamples, Places, ClockKept
  <1>6. ArmEventIsTrue' /\ ArmedBeforeOperation'
    BY DEF SetHuskySamples, ArmEventIsTrue, ArmedBeforeOperation
  <1>7. TriggerIsOfThisRow' /\ RecordIsOfThisRow'
    BY DEF SetHuskySamples, TriggerIsOfThisRow, RecordIsOfThisRow
  <1>8. Untouched'
    BY DEF SetHuskySamples, Untouched
  <1>9. QED
    BY <1>2, <1>3, <1>4, <1>5, <1>6, <1>7, <1>8, TypeStep DEF SInv

\* A new arm is a new shot.
LEMMA StartRowStep ==
  ASSUME SInv, StartRow
  PROVE  SInv'
  <1> USE Bounds DEF At, Goto, Stay, Scope, choice, instrument, backend, caller, history
  <1>0. Typed /\ Flags /\ ShotsCounted /\ Places /\ TypeOK
    BY TypeParts DEF SInv
  <1>1. setting' \in [Settings -> Values] /\ baseline' \in [Settings -> Values]
    BY <1>0 DEF StartRow, Typed
  <1>2. Typed'
    BY <1>0 DEF StartRow, Typed, ShotsCounted, Before, Limit, Measuring, Settled
  <1>3. Flags'
    BY <1>0 DEF StartRow, Flags
  <1>4. ShotsCounted'
    BY DEF SInv, StartRow, TypeOK, ShotsCounted, Before, Limit, Measuring, Settled
  <1>5. Places' /\ ClockKept'
    BY DEF SInv, StartRow, Places, ClockKept
  <1>6. ArmEventIsTrue' /\ ArmedBeforeOperation'
    BY DEF StartRow, ArmEventIsTrue, ArmedBeforeOperation
  <1>7. TriggerIsOfThisRow' /\ RecordIsOfThisRow'
    BY DEF StartRow, TriggerIsOfThisRow, Armed, RecordIsOfThisRow
  <1>8. Untouched'
    BY DEF SInv, StartRow, Untouched, Settled
  <1>9. QED
    BY <1>2, <1>3, <1>4, <1>5, <1>6, <1>7, <1>8, TypeStep DEF SInv

\* The event registers of a Keysight are read, and empty.
LEMMA ClearEventsStep ==
  ASSUME SInv, ClearEvents
  PROVE  SInv'
  <1> USE Bounds DEF At, Goto, Stay, Scope, choice, instrument, backend, caller, history
  <1>0. Typed /\ Flags /\ ShotsCounted /\ Places /\ TypeOK
    BY TypeParts DEF SInv
  <1>1. setting' \in [Settings -> Values] /\ baseline' \in [Settings -> Values]
    BY <1>0 DEF ClearEvents, Typed
  <1>2. Typed'
    BY <1>0 DEF ClearEvents, Typed
  <1>3. Flags'
    BY <1>0 DEF ClearEvents, Flags
  <1>4. ShotsCounted'
    BY DEF SInv, ClearEvents, TypeOK, ShotsCounted, Before, Limit, Measuring
  <1>5. Places' /\ ClockKept'
    BY DEF SInv, ClearEvents, Places, ClockKept
  <1>6. ArmEventIsTrue' /\ ArmedBeforeOperation'
    BY DEF ClearEvents, ArmEventIsTrue, ArmedBeforeOperation
  <1>7. TriggerIsOfThisRow' /\ RecordIsOfThisRow'
    BY DEF ClearEvents, TriggerIsOfThisRow, Armed, RecordIsOfThisRow
  <1>8. Untouched'
    BY DEF SInv, ClearEvents, Untouched, Settled, Measuring
  <1>9. QED
    BY <1>2, <1>3, <1>4, <1>5, <1>6, <1>7, <1>8, TypeStep DEF SInv

\* The acquisition starts; no register tells of it yet.
LEMMA StartAcquisitionStep ==
  ASSUME SInv, StartAcquisition
  PROVE  SInv'
  <1> USE Bounds DEF At, Goto, Stay, Scope, choice, instrument, backend, caller, history
  <1>0. Typed /\ Flags /\ ShotsCounted /\ Places /\ TypeOK
    BY TypeParts DEF SInv
  <1>1. setting' \in [Settings -> Values] /\ baseline' \in [Settings -> Values]
    BY <1>0 DEF StartAcquisition, Typed
  <1>2. memory' \in [shot : 0 .. Shots, onTime : BOOLEAN]
    <2>1. Nothing \in [shot : 0 .. Shots, onTime : BOOLEAN]
      BY DEF Nothing
    <2>2. QED
      BY <1>0, <2>1 DEF StartAcquisition, Typed
  <1>3. Typed'
    BY <1>0, <1>2 DEF StartAcquisition, Typed
  <1>4. Flags'
    BY <1>0 DEF StartAcquisition, Flags
  <1>5. ShotsCounted'
    BY DEF SInv, StartAcquisition, TypeOK, ShotsCounted, Before, Limit, Measuring
  <1>6. Places' /\ ClockKept'
    BY DEF SInv, StartAcquisition, Places, ClockKept
  <1>7. ArmEventIsTrue' /\ ArmedBeforeOperation'
    BY DEF SInv, StartAcquisition, ArmEventIsTrue, ArmedBeforeOperation
  <1>8. TriggerIsOfThisRow' /\ RecordIsOfThisRow'
    BY DEF SInv, StartAcquisition, TriggerIsOfThisRow, RecordIsOfThisRow
  <1>9. Untouched'
    BY DEF SInv, StartAcquisition, Untouched, Settled, Measuring
  <1>10. QED
    BY <1>3, <1>4, <1>5, <1>6, <1>7, <1>8, <1>9, TypeStep DEF SInv

\* After a verification the row is measured on a verified instrument.
LEMMA VerifyStep ==
  ASSUME SInv, Verify
  PROVE  SInv'
  <1> USE Bounds DEF At, Goto, Stay, Scope, choice, instrument, backend, caller, history
  <1>0. Typed /\ Flags /\ ShotsCounted /\ Places /\ TypeOK
    BY TypeParts DEF SInv
  <1>1. setting' \in [Settings -> Values] /\ baseline' \in [Settings -> Values]
    BY <1>0 DEF Verify, Typed
  <1>2. Typed'
    BY <1>0 DEF Verify, Typed
  <1>3. Flags'
    BY <1>0 DEF Verify, Flags
  <1>4. ShotsCounted'
    BY DEF SInv, Verify, ShotsCounted, Before, Limit, Measuring
  <1>5. Places' /\ ClockKept'
    BY DEF SInv, Verify, Places, ClockKept
  <1>6. ArmEventIsTrue' /\ ArmedBeforeOperation'
    BY DEF Verify, ArmEventIsTrue, ArmedBeforeOperation
  <1>7. TriggerIsOfThisRow' /\ RecordIsOfThisRow'
    BY DEF Verify, TriggerIsOfThisRow, Armed, RecordIsOfThisRow
  <1>8. Untouched'
    BY DEF SInv, Verify, Untouched, Settled
  <1>9. QED
    BY <1>2, <1>3, <1>4, <1>5, <1>6, <1>7, <1>8, TypeStep DEF SInv

\* Everything is given back.
LEMMA CloseStep ==
  ASSUME SInv, Close
  PROVE  SInv'
  <1> USE Bounds DEF At, Goto, Stay, Scope, choice, instrument, backend, caller, history
  <1>0. Typed /\ Flags /\ ShotsCounted /\ Places /\ TypeOK
    BY TypeParts DEF SInv
  <1>1. setting' \in [Settings -> Values] /\ baseline' \in [Settings -> Values]
    BY <1>0 DEF Close, Typed
  <1>2. Typed'
    BY <1>0 DEF Close, Typed
  <1>3. Flags'
    BY <1>0 DEF Close, Flags
  <1>4. ShotsCounted'
    BY DEF Close, ShotsCounted
  <1>5. Places' /\ ClockKept'
    BY DEF Close, Places, ClockKept
  <1>6. ArmEventIsTrue' /\ ArmedBeforeOperation'
    BY DEF Close, ArmEventIsTrue, ArmedBeforeOperation
  <1>7. TriggerIsOfThisRow' /\ RecordIsOfThisRow'
    BY DEF Close, TriggerIsOfThisRow, Armed, RecordIsOfThisRow
  <1>8. Untouched'
    BY DEF Close, Untouched, Settled, Measuring
  <1>9. QED
    BY <1>2, <1>3, <1>4, <1>5, <1>6, <1>7, <1>8, TypeStep DEF SInv

\* The pretrigger memory is full: early, or of this acquisition.
LEMMA FillsStep ==
  ASSUME SInv, Fills
  PROVE  SInv'
  <1> USE Bounds DEF At, Goto, Stay, Scope, choice, instrument, backend, caller, history
  <1>0. Typed /\ Flags /\ ShotsCounted /\ Places /\ TypeOK
    BY TypeParts DEF SInv
  <1>1. setting' \in [Settings -> Values] /\ baseline' \in [Settings -> Values]
    BY <1>0 DEF Fills, Typed
  <1>2. Typed'
    BY <1>0 DEF Fills, Typed
  <1>3. Flags'
    BY <1>0 DEF Fills, Flags
  <1>4. ShotsCounted'
    BY DEF SInv, Fills, ShotsCounted, Before, Limit
  <1>5. Places' /\ ClockKept'
    BY DEF SInv, Fills, Places, ClockKept
  <1>6. ArmEventIsTrue' /\ ArmedBeforeOperation'
    BY DEF Fills, ArmEventIsTrue, ArmedBeforeOperation
  <1>7. TriggerIsOfThisRow' /\ RecordIsOfThisRow'
    BY DEF SInv, Fills, TriggerIsOfThisRow, RecordIsOfThisRow
  <1>8. Untouched'
    BY DEF SInv, Fills, Untouched
  <1>9. QED
    BY <1>2, <1>3, <1>4, <1>5, <1>6, <1>7, <1>8, TypeStep DEF SInv

\* A hand changes a setting.
LEMMA TouchSettingStep ==
  ASSUME SInv, TouchSetting
  PROVE  SInv'
  <1> USE Bounds DEF At, Goto, Stay, Scope, choice, instrument, backend, caller, history
  <1>0. Typed /\ Flags /\ ShotsCounted /\ Places /\ TypeOK
    BY TypeParts DEF SInv
  <1>1. setting' \in [Settings -> Values] /\ baseline' \in [Settings -> Values]
    BY <1>0, Requests DEF TouchSetting, Typed, Values
  <1>2. Typed'
    BY <1>0, <1>1 DEF TouchSetting, Disturbed, Typed
  <1>3. Flags'
    BY <1>0 DEF TouchSetting, Flags
  <1>4. ShotsCounted'
    BY DEF SInv, TouchSetting, ShotsCounted, Before, Limit
  <1>5. Places' /\ ClockKept'
    BY DEF SInv, TouchSetting, Places, ClockKept
  <1>6. ArmEventIsTrue' /\ ArmedBeforeOperation'
    BY DEF SInv, TouchSetting, Disturbed, ArmEventIsTrue, TypeOK, ArmedBeforeOperation
  <1>7. TriggerIsOfThisRow' /\ RecordIsOfThisRow'
    BY DEF SInv, TouchSetting, TriggerIsOfThisRow, RecordIsOfThisRow
  <1>8. Untouched'
    BY DEF TouchSetting, Untouched
  <1>9. QED
    BY <1>2, <1>3, <1>4, <1>5, <1>6, <1>7, <1>8, TypeStep DEF SInv

\* A hand stops the acquisition.
LEMMA TouchStopStep ==
  ASSUME SInv, TouchStop
  PROVE  SInv'
  <1> USE Bounds DEF At, Goto, Stay, Scope, choice, instrument, backend, caller, history
  <1>0. Typed /\ Flags /\ ShotsCounted /\ Places /\ TypeOK
    BY TypeParts DEF SInv
  <1>1. setting' \in [Settings -> Values] /\ baseline' \in [Settings -> Values]
    BY <1>0 DEF TouchStop, Typed
  <1>2. Typed'
    BY <1>0 DEF TouchStop, Disturbed, Typed
  <1>3. Flags'
    BY <1>0 DEF TouchStop, Flags
  <1>4. ShotsCounted'
    BY DEF SInv, TouchStop, ShotsCounted, Before, Limit
  <1>5. Places' /\ ClockKept'
    BY DEF SInv, TouchStop, Places, ClockKept
  <1>6. ArmEventIsTrue' /\ ArmedBeforeOperation'
    BY DEF SInv, TouchStop, Disturbed, ArmEventIsTrue, TypeOK, ArmedBeforeOperation
  <1>7. TriggerIsOfThisRow' /\ RecordIsOfThisRow'
    BY DEF SInv, TouchStop, TriggerIsOfThisRow, RecordIsOfThisRow
  <1>8. Untouched'
    BY DEF SInv, TouchStop, Untouched
  <1>9. QED
    BY <1>2, <1>3, <1>4, <1>5, <1>6, <1>7, <1>8, TypeStep DEF SInv

\* A stray edge triggers this acquisition, or comes before it was started.
LEMMA StrayEdgeStep ==
  ASSUME SInv, StrayEdge
  PROVE  SInv'
  <1> USE Bounds DEF At, Goto, Stay, Scope, choice, instrument, backend, caller, history
  <1>0. Typed /\ Flags /\ ShotsCounted /\ Places /\ TypeOK
    BY TypeParts DEF SInv
  <1>1. setting' \in [Settings -> Values] /\ baseline' \in [Settings -> Values]
    BY <1>0 DEF StrayEdge, Typed
  <1>2. Typed'
    BY <1>0 DEF StrayEdge, Triggered, Disturbed, Typed
  <1>3. Flags'
    BY <1>0 DEF StrayEdge, Triggered, Flags
  <1>4. ShotsCounted'
    BY DEF SInv, StrayEdge, ShotsCounted, Before, Limit
  <1>5. Places' /\ ClockKept'
    BY DEF SInv, StrayEdge, Places, ClockKept
  <1>6. ArmEventIsTrue' /\ ArmedBeforeOperation'
    BY DEF SInv, StrayEdge, Disturbed, ArmEventIsTrue, TypeOK, ArmedBeforeOperation
  <1>7. TriggerIsOfThisRow' /\ RecordIsOfThisRow'
    BY DEF SInv, StrayEdge, Triggered, TriggerIsOfThisRow, RecordIsOfThisRow
  <1>8. Untouched'
    BY DEF SInv, StrayEdge, Untouched
  <1>9. QED
    BY <1>2, <1>3, <1>4, <1>5, <1>6, <1>7, <1>8, TypeStep DEF SInv

\* AER and the run bit together are the armed state.
LEMMA ArmKeysightStep ==
  ASSUME SInv, ArmKeysight
  PROVE  SInv'
  <1> USE Bounds DEF At, Goto, Stay, Scope, choice, instrument, backend, caller, history
  <1>0. Typed /\ Flags /\ ShotsCounted /\ Places /\ TypeOK /\ pc = "poll" /\ pc \in Measuring
    BY TypeParts DEF SInv, ArmKeysight, Measuring
  <1>1. /\ UNCHANGED <<choice, setting, visa, husky, baseline>>
        /\ UNCHANGED <<errors, acq, ter, numAcq, memory, timeout, index, history>>
        /\ aer' = FALSE
        /\ kind = "keysight"
    BY DEF ArmKeysight
  <1>2. \/ TryOver
        \/ Stay /\ pc' = "poll"
        \/ Stay /\ pc' = "run" /\ aer /\ acq # "stopped"
    BY <1>0, RaisedSummary DEF ArmKeysight
  <1>3. Flags'
    BY <1>0, <1>1 DEF Flags
  <1>4. Typed'
    BY <1>0, <1>1, <1>2 DEF Typed, TryOver
  <1>5. CASE TryOver
    BY <1>0, <1>1, <1>3, <1>4, <1>5, TryEnds, TypeStep DEF SInv, Related
  <1>6. CASE Stay /\ pc' \in {"poll", "run"} /\ (pc' = "run" => aer /\ acq # "stopped")
    <2>1. ShotsCounted'
      BY <1>0, <1>6 DEF ShotsCounted, Before, Limit, Measuring, Settled
    <2>2. Places'
      BY <1>1 DEF Places
    <2>3. ClockKept'
      BY <1>0, <1>1, <1>6 DEF ClockKept, SInv
    <2>4. ArmEventIsTrue'
      BY <1>1 DEF ArmEventIsTrue
    <2>5. ArmedBeforeOperation'
      BY <1>0, <1>1, <1>6 DEF ArmedBeforeOperation, ArmEventIsTrue, SInv, Typed
    <2>6. TriggerIsOfThisRow'
      BY <1>0, <1>1, <1>6 DEF TriggerIsOfThisRow, SInv, Armed
    <2>7. RecordIsOfThisRow'
      BY <1>6 DEF RecordIsOfThisRow
    <2>8. Untouched'
      BY <1>0, <1>1 DEF Untouched, SInv, Settled
    <2>9. QED
      BY <1>3, <1>4, <2>1, <2>2, <2>3, <2>4, <2>5, <2>6, <2>7, <2>8, TypeStep DEF SInv
  <1>7. QED
    BY <1>2, <1>5, <1>6

\* READY is the armed state.
LEMMA ArmTekStep ==
  ASSUME SInv, ArmTek
  PROVE  SInv'
  <1> USE Bounds DEF At, Goto, Stay, Scope, choice, instrument, backend, caller, history
  <1>0. Typed /\ Flags /\ ShotsCounted /\ Places /\ TypeOK /\ pc = "poll" /\ pc \in Measuring
    BY TypeParts DEF SInv, ArmTek, Measuring
  <1>1. /\ UNCHANGED <<choice, setting, visa, husky, baseline>>
        /\ UNCHANGED <<errors, acq, ter, aer, numAcq, memory, timeout, index, history>>
        /\ kind = "tek"
    BY DEF ArmTek
  <1>2. \/ TryOver
        \/ Stay /\ pc' = "poll"
        \/ Stay /\ pc' = "run" /\ acq = "ready"
    BY <1>0, RaisedSummary DEF ArmTek
  <1>3. Flags'
    BY <1>0, <1>1 DEF Flags
  <1>4. Typed'
    BY <1>0, <1>1, <1>2 DEF Typed, TryOver
  <1>5. CASE TryOver
    BY <1>0, <1>1, <1>3, <1>4, <1>5, TryEnds, TypeStep DEF SInv, Related
  <1>6. CASE Stay /\ pc' \in {"poll", "run"} /\ (pc' = "run" => acq = "ready")
    <2>1. ShotsCounted'
      BY <1>0, <1>6 DEF ShotsCounted, Before, Limit, Measuring, Settled
    <2>2. Places'
      BY <1>1, <1>6 DEF Places
    <2>3. ClockKept'
      BY <1>0, <1>1, <1>6 DEF ClockKept, SInv
    <2>4. ArmEventIsTrue'
      BY <1>1 DEF ArmEventIsTrue
    <2>5. ArmedBeforeOperation'
      BY <1>1, <1>6 DEF ArmedBeforeOperation
    <2>6. TriggerIsOfThisRow'
      BY <1>0, <1>1, <1>6 DEF TriggerIsOfThisRow, SInv, Armed
    <2>7. RecordIsOfThisRow'
      BY <1>6 DEF RecordIsOfThisRow
    <2>8. Untouched'
      BY <1>0, <1>1 DEF Untouched, SInv, Settled
    <2>9. QED
      BY <1>3, <1>4, <2>1, <2>2, <2>3, <2>4, <2>5, <2>6, <2>7, <2>8, TypeStep DEF SInv
  <1>7. QED
    BY <1>2, <1>5, <1>6

\* The wait ends with the acquisition or with the time limit.
LEMMA WaitStep ==
  ASSUME SInv, Wait
  PROVE  SInv'
  <1> USE Bounds DEF At, Goto, Stay, Scope, choice, instrument, backend, caller, history
  <1>0. Typed /\ Flags /\ ShotsCounted /\ Places /\ TypeOK /\ pc = "wait" /\ pc \in Measuring
    BY TypeParts DEF SInv, Wait, Measuring
  <1>1. /\ UNCHANGED <<choice, setting, visa, husky, baseline>>
        /\ UNCHANGED <<errors, acq, ter, aer, numAcq, memory, timeout, index, history>>
    BY DEF Wait
  <1>2. \/ TryOver
        \/ Stay /\ pc' = "wait"
        \/ Stay /\ pc' = "confirm"
    BY <1>0, RaisedSummary DEF Wait
  <1>3. Flags'
    BY <1>0, <1>1 DEF Flags
  <1>4. Typed'
    BY <1>0, <1>1, <1>2 DEF Typed, TryOver
  <1>5. CASE TryOver
    BY <1>0, <1>1, <1>3, <1>4, <1>5, TryEnds, TypeStep DEF SInv, Related
  <1>6. CASE Stay /\ pc' \in {"wait", "confirm"}
    <2>1. ShotsCounted'
      BY <1>0, <1>6 DEF ShotsCounted, Before, Limit, Measuring, Settled
    <2>2. Places'
      BY <1>6 DEF Places
    <2>3. ClockKept'
      BY <1>0, <1>1, <1>6 DEF ClockKept, SInv
    <2>4. ArmEventIsTrue'
      BY <1>6 DEF ArmEventIsTrue
    <2>5. ArmedBeforeOperation'
      BY <1>6 DEF ArmedBeforeOperation
    <2>6. TriggerIsOfThisRow'
      BY <1>0, <1>1, <1>6 DEF TriggerIsOfThisRow, SInv, Armed
    <2>7. RecordIsOfThisRow'
      BY <1>6 DEF RecordIsOfThisRow
    <2>8. Untouched'
      BY <1>0, <1>1 DEF Untouched, SInv, Settled
    <2>9. QED
      BY <1>3, <1>4, <2>1, <2>2, <2>3, <2>4, <2>5, <2>6, <2>7, <2>8, TypeStep DEF SInv
  <1>7. QED
    BY <1>2, <1>5, <1>6

\* A register that says triggered speaks of this row.
LEMMA ConfirmStep ==
  ASSUME SInv, Confirm
  PROVE  SInv'
  <1> USE Bounds DEF At, Goto, Stay, Scope, choice, instrument, backend, caller, history
  <1>0. /\ Typed /\ Flags /\ ShotsCounted /\ Places /\ TypeOK /\ pc = "confirm"
        /\ pc \in Measuring /\ kind \in {"keysight", "tek", "husky"}
    BY TypeParts, ScopeBounds DEF SInv, Confirm, Measuring, Typed
  <1>1. /\ UNCHANGED <<choice, setting, visa, husky, baseline>>
        /\ UNCHANGED <<errors, acq, aer, numAcq, memory, timeout, index, history>>
        /\ ter' = (ter /\ kind # "keysight")
    BY DEF Confirm
  <1>2. \/ TryOver
        \/ Stay /\ kind = "keysight" /\ ter /\ pc' = "index"
        \/ Stay /\ kind = "tek" /\ numAcq = 1 /\ pc' = "index"
        \/ Stay /\ kind = "husky" /\ memory.shot = shot /\ pc' = "transfer"
    <2>1. CASE Raised("timeout")
      BY <1>0, <2>1, RaisedSummary
    <2>2. CASE ~Raised("timeout")
      <3>1. CASE kind = "keysight"
        BY <2>2, <3>1 DEF Confirm
      <3>2. CASE kind = "tek"
        BY <2>2, <3>2 DEF Confirm
      <3>3. CASE kind = "husky"
        BY <2>2, <3>3 DEF Confirm
      <3>4. QED
        BY <1>0, <3>1, <3>2, <3>3
    <2>3. QED
      BY <2>1, <2>2
  <1>3. Flags'
    BY <1>0, <1>1 DEF Flags
  <1>4. Typed'
    BY <1>0, <1>1, <1>2 DEF Typed, TryOver
  <1>5. CASE TryOver
    BY <1>0, <1>1, <1>3, <1>4, <1>5, TryEnds, TypeStep DEF SInv, Related
  <1>6. CASE ~TryOver
    <2>1. ShotsCounted'
      BY <1>0, <1>2, <1>6 DEF ShotsCounted, Before, Limit, Measuring, Settled
    <2>2. Places'
      BY <1>1, <1>2, <1>6 DEF Places
    <2>3. ClockKept'
      BY <1>0, <1>1, <1>2, <1>6 DEF ClockKept, SInv
    <2>4. ArmEventIsTrue' /\ ArmedBeforeOperation' /\ RecordIsOfThisRow'
      BY <1>2, <1>6 DEF ArmEventIsTrue, ArmedBeforeOperation, RecordIsOfThisRow
    <2>5. TriggerIsOfThisRow'
      BY <1>0, <1>1, <1>2, <1>6 DEF TriggerIsOfThisRow, SInv, Armed
    <2>6. Untouched'
      BY <1>0, <1>1 DEF Untouched, SInv, Settled
    <2>7. QED
      BY <1>3, <1>4, <2>1, <2>2, <2>3, <2>4, <2>5, <2>6, TypeStep DEF SInv
  <1>7. QED
    BY <1>5, <1>6

\* The index is of the record in the memory.
LEMMA ReadTriggerIndexStep ==
  ASSUME SInv, ReadTriggerIndex
  PROVE  SInv'
  <1> USE Bounds DEF At, Goto, Stay, Scope, choice, instrument, backend, caller, history
  <1>0. Typed /\ Flags /\ ShotsCounted /\ Places /\ TypeOK /\ pc = "index" /\ pc \in Measuring
    BY TypeParts DEF SInv, ReadTriggerIndex, Measuring
  <1>1. /\ UNCHANGED <<choice, setting, visa, husky, baseline>>
        /\ UNCHANGED <<errors, acq, ter, aer, numAcq, memory, history>>
    BY DEF ReadTriggerIndex
  <1>2. \/ TryOver /\ UNCHANGED <<index, timeout>>
        \/ Stay /\ pc' = "transfer" /\ index' = memory.shot /\ timeout' = "transfer"
    BY <1>0, RaisedSummary DEF ReadTriggerIndex
  <1>3. Flags'
    BY <1>0, <1>1 DEF Flags
  <1>4. Typed'
    BY <1>0, <1>1, <1>2 DEF Typed, TryOver, Places
  <1>5. CASE TryOver
    BY <1>0, <1>1, <1>3, <1>4, <1>5, TryEnds, TypeStep DEF SInv, Related
  <1>6. CASE Stay /\ pc' = "transfer" /\ index' = memory.shot /\ timeout' = "transfer"
    <2>1. ShotsCounted'
      BY <1>0, <1>6 DEF ShotsCounted, Before, Limit, Measuring, Settled
    <2>2. Places'
      BY <1>6 DEF Places
    <2>3. ClockKept'
      BY <1>0, <1>1, <1>6 DEF ClockKept, SInv
    <2>4. ArmEventIsTrue'
      BY <1>6 DEF ArmEventIsTrue
    <2>5. ArmedBeforeOperation'
      BY <1>6 DEF ArmedBeforeOperation
    <2>6. TriggerIsOfThisRow'
      BY <1>0, <1>1, <1>6 DEF TriggerIsOfThisRow, SInv, Armed
    <2>7. RecordIsOfThisRow'
      BY <1>6 DEF RecordIsOfThisRow
    <2>8. Untouched'
      BY <1>0, <1>1 DEF Untouched, SInv, Settled
    <2>9. QED
      BY <1>3, <1>4, <2>1, <2>2, <2>3, <2>4, <2>5, <2>6, <2>7, <2>8, TypeStep DEF SInv
  <1>7. QED
    BY <1>2, <1>5, <1>6

\* The time limit goes back however the transfer ends.
LEMMA TransferStep ==
  ASSUME SInv, Transfer
  PROVE  SInv'
  <1> USE Bounds DEF At, Goto, Stay, Scope, choice, instrument, backend, caller, history
  <1>0. Typed /\ Flags /\ ShotsCounted /\ Places /\ TypeOK /\ pc = "transfer" /\ pc \in Measuring
    BY TypeParts DEF SInv, Transfer, Measuring
  <1>1. /\ UNCHANGED <<choice, setting, visa, husky, baseline>>
        /\ UNCHANGED <<errors, acq, ter, aer, numAcq, memory, index, history>>
        /\ timeout' = "control"
    BY DEF Transfer, LimitRestored
  <1>2. \/ TryOver
        \/ /\ UNCHANGED <<phase, tries, fired, shot>> /\ pc' = "returned"
           /\ got'.record = memory /\ got'.index = index
    BY <1>0, RaisedSummary DEF Transfer
  <1>3. Flags'
    BY <1>0, <1>1 DEF Flags
  <1>4. Typed'
    BY <1>0, <1>1, <1>2 DEF Typed, TryOver
  <1>5. CASE TryOver
    BY <1>0, <1>1, <1>3, <1>4, <1>5, TryEnds, TypeStep DEF SInv, Related
  <1>6. CASE /\ UNCHANGED <<phase, tries, fired, shot>> /\ pc' = "returned"
             /\ got'.record = memory /\ got'.index = index
    <2>1. ShotsCounted'
      BY <1>0, <1>6 DEF ShotsCounted, Before, Limit, Measuring, Settled
    <2>2. Places'
      BY <1>6 DEF Places
    <2>3. ClockKept'
      BY <1>0, <1>1, <1>6 DEF ClockKept, SInv
    <2>4. ArmEventIsTrue'
      BY <1>6 DEF ArmEventIsTrue
    <2>5. ArmedBeforeOperation'
      BY <1>6 DEF ArmedBeforeOperation
    <2>6. TriggerIsOfThisRow'
      BY <1>6 DEF TriggerIsOfThisRow, Armed
    <2>7. RecordIsOfThisRow'
      BY <1>0, <1>1, <1>6 DEF RecordIsOfThisRow, TriggerIsOfThisRow, SInv
    <2>8. Untouched'
      BY <1>0, <1>1 DEF Untouched, SInv, Settled
    <2>9. QED
      BY <1>3, <1>4, <2>1, <2>2, <2>3, <2>4, <2>5, <2>6, <2>7, <2>8, TypeStep DEF SInv
  <1>7. QED
    BY <1>2, <1>5, <1>6

\* A record used or rejected is the end of its try.
LEMMA UseRecordStep ==
  ASSUME SInv, UseRecord
  PROVE  SInv'
  <1> USE Bounds DEF At, Goto, Stay, Scope, choice, instrument, backend, caller, history
  <1>0. Typed /\ Flags /\ ShotsCounted /\ Places /\ TypeOK /\ pc = "returned" /\ pc \in Measuring
    BY TypeParts DEF SInv, UseRecord, Measuring
  <1>1. /\ UNCHANGED <<choice, setting, visa, husky, baseline>>
        /\ UNCHANGED <<errors, acq, ter, aer, numAcq, memory, timeout, index, history>>
    BY DEF UseRecord
  <1>2. \/ TryOver
    BY <1>0, RaisedSummary, NextTrySummary DEF UseRecord
  <1>3. Flags'
    BY <1>0, <1>1 DEF Flags
  <1>4. Typed'
    BY <1>0, <1>1, <1>2 DEF Typed, TryOver
  <1>5. CASE TryOver
    BY <1>0, <1>1, <1>3, <1>4, <1>5, TryEnds, TypeStep DEF SInv, Related
  <1>6. QED
    BY <1>2, <1>5

\* What an edge of the trigger line, or none, does to the instrument.
EdgeOrNot ==
  /\ acq' \in {"stopped", "filling", "ready"} /\ numAcq' \in 0 .. 1 /\ ter' \in BOOLEAN
  /\ memory' \in [shot : 0 .. Shots, onTime : BOOLEAN]
  /\ ter' => ter \/ memory'.shot = shot
  /\ numAcq' = 1 => numAcq = 1 \/ memory'.shot = shot
  /\ memory.shot = shot => memory'.shot = shot

\* Whatever starts it, a record in a ready acquisition is of the current shot.
LEMMA EdgeSummary ==
  ASSUME Typed, Flags, Triggered \/ UNCHANGED <<acq, ter, numAcq, memory>>
  PROVE  EdgeOrNot
  <1> DEFINE inTime == setting["timing"] = Asked(phase)["timing"]
  <1>1. inTime \in BOOLEAN
    OBVIOUS
  <1>2. CASE Triggered /\ acq = "ready"
    <2>1. memory' = [shot |-> shot, onTime |-> inTime] /\ numAcq' = 1 /\ acq' = "stopped"
      BY <1>2 DEF Triggered
    <2>2. ter' = TRUE
      BY <1>2 DEF Triggered
    <2> HIDE DEF inTime
    <2>3. QED
      BY <1>1, <2>1, <2>2 DEF EdgeOrNot, Typed
  <1>3. CASE UNCHANGED <<acq, ter, numAcq, memory>>
    BY <1>3 DEF EdgeOrNot, Typed, Flags
  <1>4. CASE Triggered /\ acq # "ready"
    <2>1. UNCHANGED <<acq, numAcq, memory>> /\ (ter' <=> ter) /\ ter' \in BOOLEAN
      BY <1>4 DEF Triggered
    <2>2. QED
      BY <2>1 DEF EdgeOrNot, Typed
  <1>5. QED
    BY <1>2, <1>3, <1>4

\* The operation triggers the acquisition, or its edge is lost, or the target fails.
LEMMA OperateStep ==
  ASSUME SInv, Operate
  PROVE  SInv'
  <1> USE Bounds DEF At, Goto, Stay, Scope, choice, instrument, backend, caller, history
  <1>0. Typed /\ Flags /\ ShotsCounted /\ Places /\ TypeOK /\ pc = "run" /\ pc \in Measuring
    BY TypeParts DEF SInv, Operate, Measuring
  <1>1. /\ UNCHANGED <<choice, setting, visa, husky, baseline>>
        /\ UNCHANGED <<errors, timeout, index, aer, history>>
    BY DEF Operate
  <1>2. EdgeOrNot
    BY <1>0, EdgeSummary DEF Operate
  <1>3. \/ TryOver
        \/ Stay /\ pc' = "wait"
    BY <1>0, RaisedSummary DEF Operate
  <1>4. Flags'
    BY <1>0, <1>1, <1>2 DEF Flags, EdgeOrNot
  <1>5. Typed'
    BY <1>0, <1>1, <1>3, <1>2 DEF Typed, TryOver, EdgeOrNot
  <1>6. CASE TryOver
    BY <1>0, <1>1, <1>4, <1>5, <1>6, TryEnds, TypeStep DEF SInv, Related
  <1>7. CASE Stay /\ pc' = "wait"
    <2>1. ShotsCounted'
      BY <1>0, <1>7 DEF ShotsCounted, Before, Limit, Measuring, Settled
    <2>2. Places'
      BY <1>7 DEF Places
    <2>3. ClockKept'
      BY <1>0, <1>1, <1>7 DEF ClockKept, SInv
    <2>4. ArmEventIsTrue'
      BY <1>7 DEF ArmEventIsTrue
    <2>5. ArmedBeforeOperation'
      BY <1>7 DEF ArmedBeforeOperation
    <2>6. TriggerIsOfThisRow'
      BY <1>0, <1>1, <1>7, <1>2 DEF TriggerIsOfThisRow, SInv, Armed, EdgeOrNot
    <2>7. RecordIsOfThisRow'
      BY <1>7 DEF RecordIsOfThisRow
    <2>8. Untouched'
      BY <1>0, <1>1 DEF Untouched, SInv, Settled
    <2>9. QED
      BY <1>4, <1>5, <2>1, <2>2, <2>3, <2>4, <2>5, <2>6, <2>7, <2>8, TypeStep DEF SInv
  <1>8. QED
    BY <1>3, <1>6, <1>7

\* A command that fails ends the try or the session, with the time limit restored.
LEMMA CommandFailsStep ==
  ASSUME SInv, CommandFails
  PROVE  SInv'
  <1> USE Bounds DEF At, Goto, Stay, Scope, choice, instrument, backend, caller, history
  <1>0. Typed /\ Flags /\ ShotsCounted /\ Places /\ TypeOK
    BY TypeParts DEF SInv
  <1>1. /\ UNCHANGED <<choice, setting, visa, husky, baseline>>
        /\ UNCHANGED <<acq, ter, aer, numAcq, memory, index, lateEvent>>
        /\ touched' = TRUE /\ errors' \in {errors, TRUE}
        /\ disturbances' = disturbances + 1 /\ disturbances < MaxDisturbances
    BY DEF CommandFails, Disturbed
  <1>2. \/ pc \in Measuring /\ TryOver /\ timeout' = "control"
        \/ /\ pc \in {"setup", "check", "preamble", "baseline", "samples", "verify"}
           /\ pc' = "closing" /\ Stay /\ UNCHANGED timeout
        \/ pc = "wait" /\ pc' = "wait" /\ Stay /\ UNCHANGED timeout
    BY <1>0, RaisedSummary DEF CommandFails, LimitRestored, Measuring, Typed
  <1>3. Flags'
    BY <1>0, <1>1 DEF Flags
  <1>4. Typed'
    BY <1>0, <1>1, <1>2 DEF Typed, TryOver
  <1>5. CASE pc \in Measuring /\ TryOver
    BY <1>1, <1>3, <1>4, <1>5, TryEnds, TypeStep DEF SInv, Related
  <1>6. CASE ~(pc \in Measuring /\ TryOver)
    <2>1. ShotsCounted'
      BY <1>0, <1>2, <1>6 DEF ShotsCounted, Before, Limit
    <2>2. Places'
      BY <1>2, <1>6 DEF Places
    <2>3. ClockKept'
      BY <1>1, <1>2, <1>6 DEF ClockKept, SInv
    <2>4. ArmEventIsTrue' /\ ArmedBeforeOperation' /\ RecordIsOfThisRow'
      BY <1>2, <1>6 DEF ArmEventIsTrue, ArmedBeforeOperation, RecordIsOfThisRow
    <2>5. TriggerIsOfThisRow'
      BY <1>1, <1>2, <1>6 DEF TriggerIsOfThisRow, SInv, Armed
    <2>6. Untouched'
      BY <1>1 DEF Untouched
    <2>7. QED
      BY <1>3, <1>4, <2>1, <2>2, <2>3, <2>4, <2>5, <2>6, TypeStep DEF SInv
  <1>7. QED
    BY <1>5, <1>6

-----------------------------------------------------------------------------
\* The invariant holds before the session.
LEMMA InitSInv == Init => SInv
  <1> SUFFICES ASSUME Init PROVE SInv
    OBVIOUS
  <1>1. TypeOK
    <2>1. Flags
      BY DEF Init, Flags
    <2>2. setting \in [Settings -> Values] /\ baseline \in [Settings -> Values]
      BY DEF Init, Values
    <2>3. Nothing \in [shot : 0 .. Shots, onTime : BOOLEAN]
      BY Bounds DEF Nothing
    <2>4. Typed
      BY <2>2, <2>3, Bounds DEF Init, Typed
    <2>5. QED
      BY <2>1, <2>4, TypeParts
  <1>2. ShotsCounted /\ Places /\ ClockKept
    BY Bounds DEF Init, ShotsCounted, Before, Limit, Measuring, Places, ClockKept
  <1>3. ArmEventIsTrue /\ ArmedBeforeOperation /\ TriggerIsOfThisRow /\ RecordIsOfThisRow
    BY DEF Init, ArmEventIsTrue, ArmedBeforeOperation, TriggerIsOfThisRow, RecordIsOfThisRow,
       Armed, At
  <1>4. Untouched
    BY DEF Init, Untouched, Settled, Measuring
  <1>5. QED
    BY <1>1, <1>2, <1>3, <1>4 DEF SInv

\* The invariant is about the variables of the specification only.
LEMMA StutterSInv == ASSUME SInv, UNCHANGED vars PROVE SInv'
  <1> USE DEF vars, choice, instrument, backend, caller, history, At, Scope
  <1>1. TypeOK'
    BY DEF SInv, TypeOK
  <1>2. ShotsCounted' /\ Places' /\ ClockKept'
    BY DEF SInv, ShotsCounted, Before, Limit, Places, ClockKept
  <1>3. ArmEventIsTrue' /\ ArmedBeforeOperation' /\ TriggerIsOfThisRow' /\ RecordIsOfThisRow'
    BY DEF SInv, ArmEventIsTrue, ArmedBeforeOperation, TriggerIsOfThisRow, RecordIsOfThisRow
  <1>4. Untouched'
    BY DEF SInv, Untouched
  <1>5. QED
    BY <1>1, <1>2, <1>3, <1>4 DEF SInv

\* Every step of the program and of its surroundings keeps the invariant.
LEMMA NextSInv == SInv /\ [Next]_vars => SInv'
  <1> SUFFICES ASSUME SInv, [Next]_vars PROVE SInv'
    OBVIOUS
  <1>1. CASE UNCHANGED vars
    BY <1>1, StutterSInv
  <1>2. CASE ConfigureTek \/ ConfigureKeysight
    <2>1. WriteSettings \/ CheckSettings
      BY <1>2 DEF ConfigureTek, ConfigureKeysight
    <2>2. QED
      BY <2>1, WriteSettingsStep, CheckSettingsStep
  <1>3. CASE ConnectHusky \/ OpenInstrument \/ ReadPreamble \/ ReadBaseline \/ ConfigureHusky
    BY <1>3, ConnectHuskyStep, OpenInstrumentStep, ReadPreambleStep, ReadBaselineStep,
       ConfigureHuskyStep
  <1>4. CASE SetSamples \/ SetHuskySamples \/ StartRow \/ ClearEvents \/ StartAcquisition
    BY <1>4, SetSamplesStep, SetHuskySamplesStep, StartRowStep, ClearEventsStep,
       StartAcquisitionStep
  <1>5. CASE ArmKeysight \/ ArmTek \/ Operate \/ Wait \/ Confirm
    BY <1>5, ArmKeysightStep, ArmTekStep, OperateStep, WaitStep, ConfirmStep
  <1>6. CASE ReadTriggerIndex \/ Transfer \/ UseRecord \/ Verify \/ Close
    BY <1>6, ReadTriggerIndexStep, TransferStep, UseRecordStep, VerifyStep, CloseStep
  <1>7. CASE Surroundings
    BY <1>7, FillsStep, TouchSettingStep, TouchStopStep, StrayEdgeStep, CommandFailsStep
       DEF Surroundings
  <1>8. QED
    BY <1>1, <1>2, <1>3, <1>4, <1>5, <1>6, <1>7 DEF Next, Program

\* The invariant holds throughout.
LEMMA SpecSInv == Spec => []SInv
  BY InitSInv, NextSInv, PTL DEF Spec

\* A row is measured only on an instrument that is armed for it and clocked, every
\* command but the transfer has the short time limit, and nothing stays open after
\* the session: for every number of rows, disturbances and failures.
THEOREM EveryRowIsSetUp == Spec => []MeasuresAsSetUp
  <1>1. SInv => MeasuresAsSetUp
    <2> SUFFICES ASSUME SInv PROVE MeasuresAsSetUp
      OBVIOUS
    <2>1. ClockWhileMeasuring
      BY DEF SInv, ClockKept, ClockWhileMeasuring
    <2>2. QED
      BY <2>1 DEF SInv, MeasuresAsSetUp
  <1>2. QED
    BY <1>1, SpecSInv, PTL

\* The record and the trigger index that capture() returns are of this row's own
\* acquisition, or an event of the one before came between the reading of the event
\* registers and :SINGle.
THEOREM RecordsAreOfTheirRows == Spec => []RecordIsOfThisRow
  <1>1. SInv => RecordIsOfThisRow
    BY DEF SInv
  <1>2. QED
    BY <1>1, SpecSInv, PTL

\* verify_capture_state ends a campaign before its last row only after a hand at the
\* instrument or a command that failed.
THEOREM OnlyTouchedScopesDrift == Spec => NoFalseAlarm
  <1>1. SInv /\ [Next]_vars => [At("verify") /\ tries < Rows /\ pc' = "closing" => touched']_vars
    <2> SUFFICES ASSUME SInv, Next, pc = "verify", tries < Rows, pc' = "closing"
                 PROVE  touched'
      BY DEF At
    <2> USE DEF At, Goto, Stay, caller
    <2>1. CASE Verify
      <3>1. Scope /\ (errors \/ Drifted)
        BY <2>1 DEF Verify
      <3>2. touched
        BY <3>1 DEF SInv, Untouched, Drifted, Settled
      <3>3. QED
        BY <2>1, <3>2 DEF Verify, history
    <2>2. CASE CommandFails
      BY <2>2 DEF CommandFails
    <2>3. CASE Fills \/ TouchSetting \/ TouchStop \/ StrayEdge
      BY <2>3 DEF Fills, TouchSetting, TouchStop, StrayEdge
    <2>4. ~(Program /\ ~Verify)
      BY DEF Program, ConnectHusky, OpenInstrument, ConfigureTek, ConfigureKeysight,
         WriteSettings, CheckSettings, ReadPreamble, ReadBaseline, ConfigureHusky, SetSamples,
         SetHuskySamples, StartRow, ClearEvents, StartAcquisition, ArmKeysight, ArmTek, Operate,
         Wait, Confirm, ReadTriggerIndex, Transfer, UseRecord, Close
    <2>5. QED
      BY <2>1, <2>2, <2>3, <2>4 DEF Next, Surroundings
  <1>2. QED
    BY <1>1, SpecSInv, PTL DEF Spec, NoFalseAlarm
===============================================================================
