-------------------------- MODULE MCLeakageCampaign --------------------------
EXTENDS LeakageCampaign
Plan(n, size, order, tvla, fixed) ==
  [traces |-> n, size |-> size, order |-> order, tvla |-> tvla, fixedInput |-> fixed]
Husky(offset, readback) ==
  [backend |-> "husky", provenance |-> "missing", offset |-> offset, observedOffset |-> offset,
   readback |-> readback, adcMul |-> 1]
Scope(provenance) ==
  [backend |-> "scope", provenance |-> provenance, offset |-> 0, observedOffset |-> 0,
   readback |-> FALSE, adcMul |-> 1]
MCCampaigns ==
  {<<Plan(6, 4, "block", TRUE, FALSE), Husky(4, TRUE)>>,
   <<Plan(4, 2, "block", TRUE, FALSE), Scope("complete")>>,
   <<Plan(4, 2, "alternate", TRUE, FALSE), Scope("complete")>>,
   <<Plan(3, 2, "block", TRUE, FALSE), Husky(3, TRUE)>>,
   <<Plan(3, 2, "block", FALSE, TRUE), Scope("complete")>>}
    \cup {<<Plan(3, 2, "block", FALSE, FALSE), d>> :
            d \in {Husky(14, FALSE), Scope("complete"), Scope("missing"), Scope("prealigned")}}
\* A long campaign gets two waveforms in turn; in a short one any row may be either,
\* early or late.  Rows of a fixed input may be later than any correction allows.
MCRecords(p, i) ==
  LET late == [wave |-> <<0, 1, 3>>, trigger |-> 1]
      early == [wave |-> <<2, 1, 0>>, trigger |-> -2]
      wild == [wave |-> <<1, 0, 1>>, trigger |-> 3]
  IN  IF p.traces = 6 THEN {IF i % 3 = 0 THEN late ELSE early}
      ELSE IF p.fixedInput THEN {late, wild} ELSE {late, early}
MCScores == [0 .. 2 -> {NotFinite, 1, 2}]
=============================================================================
