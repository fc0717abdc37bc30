------------------------------- MODULE UartLink -------------------------------
(***************************************************************************)
(* The board's one serial line, as the host library drives it              *)
(* (Software/Python/proact_host/transport.py): the lock file and the       *)
(* device that several processes contend for, the commands a process       *)
(* sends, the answers the controller sends back in order, and the buffer   *)
(* of the operating system that they wait in.  The operators are the steps *)
(* of UartTransport and of ProactTarget's transactions; GuiSession puts    *)
(* the threads around them.                                                *)
(*                                                                         *)
(* Simplifications: the k-th command that has an answer is the number k,   *)
(* and its answer frame is that number too (read_frame's mode byte is      *)
(* discarded by every caller, so a frame carries nothing that ties it to   *)
(* its command; the number is what the model knows and the host does not); *)
(* a frame arrives whole or not at all; commands without an answer change  *)
(* nothing here; the boot banner is text with the firmware that prints it. *)
(*                                                                         *)
(* A definition marked (mutant) is wrong on purpose: a plausible slip that *)
(* takes the place of the definition after it to show that the properties  *)
(* notice.                                                                 *)
(***************************************************************************)
EXTENDS Naturals, Sequences, FiniteSets, SequencesExt

CONSTANTS
  Free,                 \* an unlocked lock, an unheld file lock
  MaxAsks,              \* bound: commands with an answer
  MaxLoads              \* bound: firmware images, the first one loaded before the session

ASSUME FreeAssumption == Free \notin {"gui", "cli", "job", "poll"}
ASSUME LinkBounds == MaxAsks \in Nat \ {0} /\ MaxLoads \in Nat \ {0}

VARIABLES
  flock,                \* the process that holds the lock file of the port
  opened,               \* the processes that have the port open
  rx,                   \* received and not yet read
  due,                  \* what the controller has still to send
  firmware,             \* the loaded image; 0: none, or a broken one
  running,              \* the controller is out of reset
  asked,                \* commands sent that have an answer
  abandoned             \* of these, the ones given up whose answer is still on its way

link == <<flock, opened, rx, due, firmware, running, asked, abandoned>>

Processes == {"gui", "cli"}
Asks == 1 .. MaxAsks
Answer(ask) == <<"answer", ask>>
Banner(image) == <<"banner", image>>
Frames == {Answer(ask) : ask \in Asks} \cup {Banner(image) : image \in 1 .. MaxLoads}

LinkTypeOK ==
  /\ flock \in Processes \cup {Free}
  /\ opened \subseteq Processes
  /\ rx \in Seq(Frames) /\ due \in Seq(Frames)
  /\ firmware \in 0 .. MaxLoads /\ running \in BOOLEAN
  /\ asked \in 0 .. MaxAsks /\ abandoned \subseteq Asks

\* The board may hold a working image, number 1, from an earlier session.
LinkInit ==
  /\ flock = Free /\ opened = {}
  /\ rx = <<>> /\ due = <<>>
  /\ firmware \in {0, 1} /\ running = (firmware = 1)
  /\ asked = 0 /\ abandoned = {}

\* Every frame that is on its way to a reader.
OnTheWay == ToSet(rx) \cup ToSet(due)
StillComing(asks) == {ask \in asks : Answer(ask) \in OnTheWay'}

-----------------------------------------------------------------------------
(* UartTransport.open and close.                                           *)

\* flock(LOCK_EX | LOCK_NB): at once, or an error.
FlockShared(p) ==   \* (mutant)
  /\ flock' = p
  /\ UNCHANGED <<opened, rx, due, firmware, running, asked, abandoned>>

TakeFlock(p) ==
  /\ flock = Free
  /\ flock' = p
  /\ UNCHANGED <<opened, rx, due, firmware, running, asked, abandoned>>

\* serial.Serial(...) empties the buffer of the port it opens.
OpenSerial(p) ==
  /\ opened' = opened \cup {p}
  /\ rx' = <<>>
  /\ UNCHANGED <<flock, due, firmware, running, asked>>
  /\ abandoned' = StillComing(abandoned)

\* The first half of close: the device.  Nobody is left to receive for.
DeviceLeftOpen(p) == UNCHANGED link   \* (mutant)

CloseSerial(p) ==
  /\ opened' = opened \ {p}
  /\ rx' = IF opened' = {} THEN <<>> ELSE rx
  /\ UNCHANGED <<flock, due, firmware, running, asked>>
  /\ abandoned' = StillComing(abandoned)

\* The second half, also after a failed open: the lock file.
ReleaseFlock(p) ==
  /\ flock' = IF flock = p THEN Free ELSE flock
  /\ UNCHANGED <<opened, rx, due, firmware, running, asked, abandoned>>

\* The kernel closes both for a process that dies while it waits for asks.
Dies(p, asks) ==
  /\ opened' = opened \ {p}
  /\ rx' = IF opened' = {} THEN <<>> ELSE rx
  /\ flock' = IF flock = p THEN Free ELSE flock
  /\ UNCHANGED <<due, firmware, running, asked>>
  /\ abandoned' = StillComing(abandoned \cup asks)

-----------------------------------------------------------------------------
(* Commands and answers.                                                   *)

\* A command with an answer; `kept` says whether its sender will read for it.
Send(kept) ==
  /\ asked < MaxAsks
  /\ asked' = asked + 1
  /\ due' = IF running THEN Append(due, Answer(asked')) ELSE due
  /\ UNCHANGED <<flock, opened, rx, firmware, running>>
  /\ abandoned' = StillComing(IF kept THEN abandoned ELSE abandoned \cup {asked'})

\* read_frame skips text and takes the next frame, whatever it answers.
SkipText ==
  /\ rx # <<>> /\ Head(rx)[1] = "banner"
  /\ rx' = Tail(rx)
  /\ UNCHANGED <<flock, opened, due, firmware, running, asked>>
  /\ abandoned' = StillComing(abandoned)

TakeFrame(ask) ==
  /\ rx # <<>> /\ Head(rx)[1] = "answer"
  /\ rx' = Tail(rx)
  /\ UNCHANGED <<flock, opened, due, firmware, running, asked>>
  /\ abandoned' = StillComing(abandoned \cup {ask})

\* TimeoutError: the buffer stayed empty for the whole time limit.
GiveUp(ask) ==
  /\ rx = <<>>
  /\ UNCHANGED <<flock, opened, rx, due, firmware, running, asked>>
  /\ abandoned' = StillComing(abandoned \cup {ask})

\* read_available: everything that is there, and nothing more.
ReadAvailable ==
  /\ rx' = <<>>
  /\ UNCHANGED <<flock, opened, due, firmware, running, asked>>
  /\ abandoned' = StillComing(abandoned)

-----------------------------------------------------------------------------
(* The controller, as far as the host can see it.                          *)

\* What it sends while nobody has the port open is lost.
ControllerSends ==
  /\ due # <<>>
  /\ due' = Tail(due)
  /\ rx' = IF opened = {} THEN rx ELSE Append(rx, Head(due))
  /\ UNCHANGED <<flock, opened, firmware, running, asked>>
  /\ abandoned' = StillComing(abandoned)

\* A frame or banner that is never sent: a dead core, a hung bus, a cut line.
ControllerSilent ==
  /\ due # <<>>
  /\ due' = Tail(due)
  /\ UNCHANGED <<flock, opened, rx, firmware, running, asked>>
  /\ abandoned' = StillComing(abandoned)

\* Held in reset it forgets what it owed; `image` is what its memory holds.
Hold(image) ==
  /\ running' = FALSE /\ due' = <<>>
  /\ firmware' = image
  /\ UNCHANGED <<flock, opened, rx, asked>>
  /\ abandoned' = StillComing(abandoned)

\* Released, a whole image announces itself and serves.
Boot(image) ==
  /\ firmware' = image
  /\ running' = (image # 0)
  /\ due' = IF image # 0 THEN <<Banner(image)>> ELSE <<>>
  /\ UNCHANGED <<flock, opened, rx, asked>>
  /\ abandoned' = StillComing(abandoned)
===============================================================================
