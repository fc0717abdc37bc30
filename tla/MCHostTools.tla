---- MODULE MCHostTools ----
(* Model-checking instance of HostTools: every other row has an expected     *)
(* output; the capture programs differ in their target, clock path and       *)
(* options; one core, two or all of them are dead.                           *)
EXTENDS HostTools
MCExpected == {k \in 1 .. MaxRows : k % 2 = 1}
Plan(core, platform, bitstream, auto) ==
  [core |-> core, platform |-> platform, bitstream |-> bitstream, auto |-> auto,
   capture |-> TRUE, random |-> TRUE]
MCPlans ==
  {Plan("aes1", "asic", FALSE, TRUE), Plan("swrv", "fpga", FALSE, FALSE),
   Plan("swrv", "fpga", TRUE, FALSE),
   [Plan("swrv", "asic", FALSE, FALSE) EXCEPT !.capture = FALSE, !.random = FALSE]}
MCCheckups ==
  {[images |-> TRUE, capture |-> TRUE, platform |-> "asic", bitstream |-> FALSE],
   [images |-> FALSE, capture |-> FALSE, platform |-> "fpga", bitstream |-> FALSE]}
MCDeadCores == {{}, {"aes2"}, {"ascon"}, {"swrv"}, Cores}
MCCampaigns ==
  {[core |-> "aes1", masked |-> FALSE, policy |-> "random"],
   [core |-> "swrv", masked |-> FALSE, policy |-> "tvla"],
   [core |-> "swrv", masked |-> TRUE, policy |-> "fixed"]}
Order(core, timer, compare, random, gui) ==
  [core |-> core, timer |-> timer, compare |-> compare, random |-> random, gui |-> gui]
MCOrders ==
  {Order("aes1", TRUE, TRUE, TRUE, FALSE), Order("swrv", FALSE, TRUE, TRUE, FALSE),
   Order("swrv", TRUE, TRUE, TRUE, TRUE)}
====
