-------------------------- MODULE GuiSession_proofs --------------------------
(***************************************************************************)
(* Proofs about GuiSession for any number of commands, firmware images,    *)
(* rows of a capture, connects and commands of the other process.          *)
(***************************************************************************)
EXTENDS GuiSession, SequenceTheorems, FiniteSetTheorems, TLAPS

\* Where each job can be, and what it has done by then.
JobPlaces ==
  /\ job.pc \in {"shut", "unlock"} => job.kind \in {"connect", "disconnect", "close"} /\ uart # 0
  /\ job.pc \in {"lockfile", "serial"} => job.kind = "connect" /\ uart = 0
  /\ job.kind = "connect" /\ job.pc \in {"shut", "unlock", "lockfile"} => transports < MaxConnects
  /\ job.pc = "serial" => transports # 0
  /\ job.pc = "unlock" => serial = 0
  /\ job.pc \in {"acquire", "write", "read", "drain", "banner", "release"} => uart # 0
  /\ job.pc = "acquire" => job.kind \in {"ask", "send", "capture", "program"}
  /\ job.pc \in {"write", "read"} => job.kind \in {"ask", "send", "capture"}
  /\ job.pc = "read" => serial = uart /\ job.ask \in 1 .. asked
  /\ job.pc \in {"load", "boot", "drain", "banner"} => job.kind = "program"
  /\ job.kind = "program" /\ job.pc \in {"hold", "reboot"} => uart # 0

\* The rows of a capture, which only a capture has.
RowsCounted ==
  /\ job.pc \in {"write", "read"} => Len(rows) <= job.row /\ job.row < Traces
  /\ job.pc \notin {"write", "read", "release"} => job.row = 0
  /\ job.kind # "capture" \/ job.pc \notin {"write", "read", "release"} => rows = <<>> /\ ~ failures

\* The lock file of the port is with whoever has the port open.
PortHeld ==
  /\ \A p \in opened : flock = p
  /\ job.pc = "serial" => flock = "gui"
  /\ flock = "gui" => serial # 0 \/ job.pc \in {"serial", "unlock"}
  /\ cli.pc \in {"serial", "write", "read", "close", "unlock"} => flock = "cli"
  /\ "cli" \in opened <=> cli.pc \in {"write", "read", "close"}
  /\ cli.pc = "read" => cli.ask \in 1 .. asked

\* The lock of a transport is with the thread that is in the middle of a transaction.
LocksHeld ==
  /\ \/ job.pc \in {"unlock", "write", "read", "drain", "banner", "release"}
     \/ job.kind = "program" /\ job.pc \in {"hold", "reboot"}
     => lock[uart] = "job"
  /\ poll.pc = "read" => lock[poll.uart] = "poll"
  /\ poll.pc \in {"try", "read"} => poll.uart # 0

\* The device of a scope is open only while somebody knows it.
ScopeHeld == husky => scope \/ job.pc = "cw_setup"

GInv ==
  /\ TypeOK
  /\ JobPlaces
  /\ RowsCounted
  /\ PortHeld
  /\ LocksHeld
  /\ ScopeHeld
  /\ ClosesCleanly


-----------------------------------------------------------------------------
(* Sequences of frames, as sets.                                           *)

\* The elements of a sequence, by how it was made or is taken apart.
LEMMA SetOfSequence ==
  ASSUME NEW S, NEW s \in Seq(S)
  PROVE  /\ ToSet(s) \subseteq S
         /\ ToSet(<<>>) = {}
         /\ \A e \in S : ToSet(Append(s, e)) = ToSet(s) \cup {e}
         /\ s # <<>> => /\ Head(s) \in S /\ Tail(s) \in Seq(S)
                        /\ ToSet(s) = {Head(s)} \cup ToSet(Tail(s))
  <1>1. \A t \in Seq(S) : ToSet(t) = {t[k] : k \in 1 .. Len(t)}
    BY DEF ToSet
  <1>2. ToSet(s) \subseteq S
    BY <1>1
  <1>3. ToSet(<<>>) = {}
    BY DEF ToSet
  <1>4. ASSUME NEW e \in S PROVE ToSet(Append(s, e)) = ToSet(s) \cup {e}
    <2>1. /\ Append(s, e) \in Seq(S) /\ Len(Append(s, e)) = Len(s) + 1
          /\ \A k \in 1 .. Len(s) : Append(s, e)[k] = s[k]
          /\ Append(s, e)[Len(s) + 1] = e
      OBVIOUS
    <2>2. ToSet(Append(s, e)) = {Append(s, e)[k] : k \in 1 .. Len(s) + 1}
      BY <1>1, <2>1
    <2>3. ToSet(s) = {s[k] : k \in 1 .. Len(s)}
      BY <1>1
    <2>4. ASSUME NEW x PROVE x \in ToSet(Append(s, e)) <=> x \in ToSet(s) \/ x = e
      <3>1. ASSUME NEW k \in 1 .. Len(s) + 1, x = Append(s, e)[k] PROVE x \in ToSet(s) \/ x = e
        BY <2>1, <2>3, <3>1
      <3>2. QED
        BY <2>1, <2>2, <2>3, <3>1
    <2>5. QED
      BY <2>4
  <1>5. ASSUME s # <<>>
        PROVE  /\ Head(s) \in S /\ Tail(s) \in Seq(S)
               /\ ToSet(s) = {Head(s)} \cup ToSet(Tail(s))
    <2>1. /\ Head(s) \in S /\ Tail(s) \in Seq(S) /\ Len(Tail(s)) = Len(s) - 1
          /\ \A k \in 1 .. Len(Tail(s)) : Tail(s)[k] = s[k + 1]
      BY <1>5, HeadTailProperties
    <2>2. Head(s) = s[1] /\ Len(s) \in Nat \ {0}
      BY <1>5
    <2>3. ToSet(Tail(s)) = {Tail(s)[k] : k \in 1 .. Len(s) - 1}
      BY <1>1, <2>1
    <2>4. ToSet(s) = {s[k] : k \in 1 .. Len(s)}
      BY <1>1
    <2>5. ASSUME NEW x PROVE x \in ToSet(s) <=> x = Head(s) \/ x \in ToSet(Tail(s))
      <3>1. ASSUME NEW k \in 1 .. Len(s), x = s[k] PROVE x = Head(s) \/ x \in ToSet(Tail(s))
        <4>1. CASE k = 1
          BY <2>2, <3>1, <4>1
        <4>2. CASE k # 1
          <5>1. k - 1 \in 1 .. Len(s) - 1 /\ Tail(s)[k - 1] = s[k]
            BY <2>1, <2>2, <4>2
          <5>2. QED
            BY <2>3, <3>1, <5>1
        <4>3. QED
          BY <4>1, <4>2
      <3>2. ASSUME NEW k \in 1 .. Len(s) - 1, x = Tail(s)[k] PROVE x \in ToSet(s)
        <4>1. k + 1 \in 1 .. Len(s) /\ x = s[k + 1]
          BY <2>1, <2>2, <3>2
        <4>2. QED
          BY <2>4, <4>1
      <3>3. Head(s) \in ToSet(s)
        BY <2>4, <2>2
      <3>4. QED
        BY <2>3, <2>4, <3>1, <3>2, <3>3
    <2>6. QED
      BY <2>1, <2>5
  <1>6. QED
    BY <1>2, <1>3, <1>4, <1>5

-----------------------------------------------------------------------------
(* The steps of the line.                                                  *)

\* What is already in Seq(Frames) and what the steps make of it.
LEMMA FrameSequences ==
  ASSUME LinkTypeOK
  PROVE  /\ rx \in Seq(Frames) /\ due \in Seq(Frames) /\ <<>> \in Seq(Frames)
         /\ rx # <<>> => Tail(rx) \in Seq(Frames)
         /\ due # <<>> => /\ Tail(due) \in Seq(Frames)
                          /\ Append(rx, Head(due)) \in Seq(Frames)
  BY HeadTailProperties, AppendProperties DEF LinkTypeOK

\* The steps on the port keep to the types.
LEMMA PortTypes ==
  ASSUME LinkTypeOK, NEW p \in Processes,
         \/ TakeFlock(p) \/ OpenSerial(p) \/ CloseSerial(p) \/ ReleaseFlock(p)
         \/ UNCHANGED link
  PROVE  LinkTypeOK'
  <1>1. CASE TakeFlock(p) \/ ReleaseFlock(p)
    BY <1>1 DEF TakeFlock, ReleaseFlock, LinkTypeOK
  <1>2. CASE OpenSerial(p) \/ CloseSerial(p)
    <2>1. abandoned' \subseteq Asks
      BY <1>2 DEF OpenSerial, CloseSerial, LinkTypeOK, StillComing
    <2>2. /\ rx' \in {<<>>, rx} /\ opened' \subseteq Processes
          /\ UNCHANGED <<flock, due, firmware, running, asked>>
      BY <1>2 DEF OpenSerial, CloseSerial, LinkTypeOK
    <2>3. QED
      BY <2>1, <2>2, FrameSequences DEF LinkTypeOK
  <1>3. CASE UNCHANGED link
    BY <1>3 DEF link, LinkTypeOK
  <1>4. QED
    BY <1>1, <1>2, <1>3

\* So does the death of a process, whatever it was waiting for.
LEMMA DeathTypes ==
  ASSUME LinkTypeOK, NEW p \in Processes, NEW asks \in SUBSET Asks, Dies(p, asks)
  PROVE  LinkTypeOK'
  <1>1. abandoned' \subseteq Asks
    BY DEF Dies, LinkTypeOK, StillComing
  <1>2. /\ rx' \in {<<>>, rx} /\ opened' \subseteq Processes
        /\ flock' \in Processes \cup {Free}
        /\ UNCHANGED <<due, firmware, running, asked>>
    BY DEF Dies, LinkTypeOK
  <1>3. QED
    BY <1>1, <1>2, FrameSequences DEF LinkTypeOK

\* And whatever is read.
LEMMA ReadTypes ==
  ASSUME LinkTypeOK, SkipText \/ ReadAvailable \/ UNCHANGED link
  PROVE  LinkTypeOK'
  <1>1. CASE SkipText \/ ReadAvailable
    <2>1. abandoned' \subseteq Asks
      BY <1>1 DEF SkipText, ReadAvailable, LinkTypeOK, StillComing
    <2>2. /\ rx' \in Seq(Frames)
          /\ UNCHANGED <<flock, opened, due, firmware, running, asked>>
      BY <1>1, FrameSequences DEF SkipText, ReadAvailable
    <2>3. QED
      BY <2>1, <2>2 DEF LinkTypeOK
  <1>2. CASE UNCHANGED link
    BY <1>2 DEF link, LinkTypeOK
  <1>3. QED
    BY <1>1, <1>2

\* An answer that is taken or given up.
LEMMA AnswerTypes ==
  ASSUME LinkTypeOK, NEW ask \in Asks, TakeFrame(ask) \/ GiveUp(ask)
  PROVE  LinkTypeOK'
  <1>1. abandoned' \subseteq Asks
    BY DEF TakeFrame, GiveUp, LinkTypeOK, StillComing
  <1>2. /\ rx' \in Seq(Frames)
        /\ UNCHANGED <<flock, opened, due, firmware, running, asked>>
    BY FrameSequences DEF TakeFrame, GiveUp
  <1>3. QED
    BY <1>1, <1>2 DEF LinkTypeOK

\* What the controller does, and what is done to it.
LEMMA ChipTypes ==
  ASSUME LinkTypeOK, NEW image \in 0 .. MaxLoads,
         ControllerSends \/ ControllerSilent \/ Hold(image) \/ Boot(image)
  PROVE  LinkTypeOK'
  <1>1. image # 0 => <<Banner(image)>> \in Seq(Frames)
    <2>1. image # 0 => Banner(image) \in Frames
      BY LinkBounds DEF Frames
    <2>2. QED
      BY <2>1
  <1>2. CASE ControllerSends \/ ControllerSilent
    <2>1. abandoned' \subseteq Asks
      BY <1>2 DEF ControllerSends, ControllerSilent, LinkTypeOK, StillComing
    <2>2. /\ rx' \in Seq(Frames) /\ due' \in Seq(Frames)
          /\ UNCHANGED <<flock, opened, firmware, running, asked>>
      BY <1>2, FrameSequences DEF ControllerSends, ControllerSilent
    <2>3. QED
      BY <2>1, <2>2 DEF LinkTypeOK
  <1>3. CASE Hold(image) \/ Boot(image)
    <2>1. abandoned' \subseteq Asks /\ running' \in BOOLEAN
      BY <1>3 DEF Hold, Boot, LinkTypeOK, StillComing
    <2>2. /\ due' \in Seq(Frames) /\ firmware' = image
          /\ UNCHANGED <<flock, opened, rx, asked>>
      BY <1>1, <1>3, FrameSequences DEF Hold, Boot
    <2>3. QED
      BY <2>1, <2>2, FrameSequences DEF LinkTypeOK
  <1>4. QED
    BY <1>2, <1>3

\* A command keeps to the types too, and is the last one asked.
LEMMA SendTypes ==
  ASSUME LinkTypeOK, NEW kept, Send(kept)
  PROVE  LinkTypeOK' /\ asked' = asked + 1 /\ asked' \in Asks
  <1>1. asked' = asked + 1 /\ asked' \in Asks
    BY LinkBounds DEF LinkTypeOK, Send, Asks
  <1>2. due' \in Seq(Frames)
    BY <1>1 DEF LinkTypeOK, Send, Frames
  <1>3. abandoned' \subseteq Asks
    BY <1>1 DEF LinkTypeOK, Send, StillComing
  <1>4. asked' \in 0 .. MaxAsks /\ UNCHANGED <<flock, opened, rx, firmware, running>>
    BY <1>1 DEF Asks, Send
  <1>5. QED
    BY <1>1, <1>2, <1>3, <1>4 DEF LinkTypeOK

-----------------------------------------------------------------------------
(* The steps of the session.                                               *)

\* The job goes on at one of these places; its kind, its command and its row stay.
Moves(pcs) ==
  /\ job' \in JobStates /\ job'.pc \in pcs
  /\ job'.kind = job.kind /\ job'.ask = job.ask /\ job'.row = job.row

\* The end of a row, or of a transaction.
LEMMA NextRowMoves ==
  ASSUME job \in JobStates, NextRow, failures' \in BOOLEAN
  PROVE  /\ job' \in JobStates /\ job'.kind = job.kind /\ job'.ask = job.ask
         /\ \/ /\ job'.pc = "write" /\ job.kind = "capture"
               /\ job'.row = job.row + 1 /\ job'.row < Traces
            \/ job'.pc = "release" /\ job'.row = job.row
  <1>1. CASE job.kind = "capture" /\ job.row + 1 < Traces
    <2>1. job' = [job EXCEPT !.pc = "write", !.row = job.row + 1]
      BY <1>1 DEF NextRow
    <2>2. job.row + 1 \in 0 .. Traces
      BY <1>1, SessionBounds DEF JobStates
    <2>3. QED
      BY <1>1, <2>1, <2>2 DEF JobStates, Moves
  <1>2. CASE ~ (job.kind = "capture" /\ job.row + 1 < Traces)
    <2> DEFINE failed == job.kind = "capture" /\ failures'
    <2>1. job' = [job EXCEPT !.pc = "release", !.failed = failed]
      BY <1>2 DEF NextRow
    <2>2. failed \in BOOLEAN
      OBVIOUS
    <2> HIDE DEF failed
    <2>3. QED
      BY <2>1, <2>2 DEF JobStates, Moves
  <1>3. QED
    BY <1>1, <1>2

\* A job that ends, well or as failed.
LEMMA DoneMoves ==
  ASSUME job \in JobStates,
         job' = [job EXCEPT !.pc = "done", !.failed = (job.kind = "scope")]
  PROVE  Moves({"done"})
  <1> DEFINE failed == job.kind = "scope"
  <1>1. failed \in BOOLEAN
    OBVIOUS
  <1>2. job' = [job EXCEPT !.pc = "done", !.failed = failed]
    OBVIOUS
  <1> HIDE DEF failed
  <1>3. QED
    BY <1>1, <1>2 DEF JobStates, Moves

\* The other steps of connecting and disconnecting.
LEMMA BridgeKeepsGInv ==
  ASSUME GInv, OpenLockFile \/ OpenBridge \/ OpenScope \/ SetUpScope \/ CloseBridge
  PROVE  GInv'
  <1> USE SessionBounds, LinkBounds, FreeAssumption
      DEF board, session, capture, link, Transports, Busy, PollActive, InJob, Goto, JobLeaves,
          Processes, Asks, GInv
  <1>1. CASE OpenLockFile
    <2>0. job \in JobStates /\ job.pc = "lockfile" /\ job.kind = "connect" /\ uart = 0 /\ serial = 0
      BY <1>1 DEF OpenLockFile, TypeOK, JobPlaces
    <2>1. /\ Moves({"serial", "spi"})
          /\ job'.pc = "serial" => flock = Free /\ flock' = "gui"
          /\ job'.pc = "spi" => flock' = flock
      <3>1. CASE TakeFlock("gui") /\ Goto("serial")
        BY <2>0, <3>1 DEF TakeFlock, JobStates, Moves
      <3>2. CASE UNCHANGED link /\ Goto("spi")
        BY <2>0, <3>2 DEF JobStates, Moves
      <3>3. QED
        BY <1>1, <3>1, <3>2 DEF OpenLockFile
    <2>2. LinkTypeOK' /\ opened' = opened /\ asked' = asked
      <3>1. TakeFlock("gui") \/ UNCHANGED link
        BY <1>1 DEF OpenLockFile
      <3>2. LinkTypeOK'
        BY <3>1, PortTypes DEF TypeOK
      <3>3. QED
        BY <3>1, <3>2 DEF TakeFlock
    <2>3. /\ UNCHANGED <<uart, serial, lock, board, capture, poll, cli, closeRequested,
                         closing, images>>
          /\ transports' = transports + 1 /\ transports < MaxConnects
      BY <1>1 DEF OpenLockFile, JobPlaces
    <2>4. TypeOK'
      BY <2>1, <2>2, <2>3 DEF TypeOK, Moves
    <2>5. JobPlaces'
      BY <2>0, <2>1, <2>2, <2>3 DEF TypeOK, JobPlaces, Moves
    <2>6. RowsCounted'
      BY <2>0, <2>1, <2>3 DEF RowsCounted, Moves
    <2>7. PortHeld'
      BY <2>0, <2>1, <2>2, <2>3 DEF TypeOK, LinkTypeOK, PortHeld, Moves
    <2>8. LocksHeld'
      BY <2>0, <2>1, <2>3 DEF LocksHeld, Moves
    <2>9. ScopeHeld'
      BY <2>0, <2>1, <2>3 DEF ScopeHeld, Moves
    <2>10. ClosesCleanly'
      BY <2>0, <2>1, <2>2, <2>3 DEF ClosesCleanly, Moves
    <2>11. QED
      BY <2>4, <2>5, <2>6, <2>7, <2>8, <2>9, <2>10
  <1>2. CASE OpenBridge
    <2>0. job \in JobStates /\ job.pc = "spi"
      BY <1>2 DEF OpenBridge, TypeOK
    <2>1. Moves({"done", "cw"})
      <3>1. CASE Goto("done")
        BY <2>0, <3>1 DEF JobStates, Moves
      <3>2. CASE Goto("cw")
        BY <2>0, <3>2 DEF JobStates, Moves
      <3>3. QED
        BY <1>2, <3>1, <3>2 DEF OpenBridge
    <2>2. /\ UNCHANGED <<link, uart, transports, serial, lock, scope, husky, capture, poll, cli,
                         closeRequested, closing, images>>
          /\ spi' \in BOOLEAN
      BY <1>2 DEF OpenBridge
    <2>4. TypeOK'
      BY <2>1, <2>2 DEF TypeOK, LinkTypeOK, Moves
    <2>5. JobPlaces' /\ RowsCounted' /\ LocksHeld' /\ ScopeHeld' /\ ClosesCleanly'
      BY <2>0, <2>1, <2>2 DEF JobPlaces, RowsCounted, LocksHeld, ScopeHeld, ClosesCleanly, Moves
    <2>7. PortHeld'
      BY <2>0, <2>1, <2>2 DEF PortHeld, Moves
    <2>11. QED
      BY <2>4, <2>5, <2>7
  <1>3. CASE OpenScope
    <2>0. job \in JobStates /\ job.pc = "cw"
      BY <1>3 DEF OpenScope, TypeOK
    <2>1. /\ Moves({"cw_setup", "done"})
          /\ husky' \in BOOLEAN /\ (husky' => husky \/ job'.pc = "cw_setup")
      <3>1. CASE husky' = TRUE /\ Goto("cw_setup")
        <4>1. Goto("cw_setup")
          BY <3>1
        <4>2. Moves({"cw_setup", "done"}) /\ job'.pc = "cw_setup"
          BY <2>0, <4>1 DEF JobStates, Moves
        <4>3. QED
          BY <3>1, <4>2 DEF TypeOK
      <3>2. CASE /\ UNCHANGED husky
                 /\ job' = [job EXCEPT !.pc = "done", !.failed = (job.kind = "scope")]
        <4>1. Moves({"cw_setup", "done"})
          BY <2>0, <3>2, DoneMoves DEF Moves
        <4>2. QED
          BY <3>2, <4>1 DEF TypeOK
      <3>3. QED
        BY <1>3, <3>1, <3>2 DEF OpenScope, TypeOK
    <2>2. UNCHANGED <<link, uart, transports, serial, lock, spi, scope, capture, poll, cli,
                         closeRequested, closing, images>>
      BY <1>3 DEF OpenScope
    <2>4. TypeOK'
      BY <2>1, <2>2 DEF TypeOK, LinkTypeOK, Moves
    <2>5. JobPlaces' /\ RowsCounted' /\ LocksHeld' /\ ScopeHeld' /\ ClosesCleanly'
      BY <2>0, <2>1, <2>2 DEF JobPlaces, RowsCounted, LocksHeld, ScopeHeld, ClosesCleanly, Moves
    <2>7. PortHeld'
      BY <2>0, <2>1, <2>2 DEF PortHeld, Moves
    <2>11. QED
      BY <2>4, <2>5, <2>7
  <1>4. CASE SetUpScope
    <2>0. job \in JobStates /\ job.pc = "cw_setup"
      BY <1>4 DEF SetUpScope, TypeOK
    <2>1. /\ Moves({"done"})
          /\ husky' \in BOOLEAN /\ scope' \in BOOLEAN /\ (husky' => scope')
          /\ scope => scope'
      <3>1. CASE scope' = TRUE /\ UNCHANGED husky /\ Goto("done")
        <4>1. Goto("done")
          BY <3>1
        <4>2. Moves({"done"})
          BY <2>0, <4>1 DEF JobStates, Moves
        <4>3. QED
          BY <3>1, <4>2 DEF TypeOK
      <3>2. CASE /\ ScopeCleaned /\ UNCHANGED scope
                 /\ job' = [job EXCEPT !.pc = "done", !.failed = (job.kind = "scope")]
        <4>1. Moves({"done"})
          BY <2>0, <3>2, DoneMoves
        <4>2. husky' = FALSE /\ scope' = scope
          BY <3>2 DEF ScopeCleaned
        <4>3. QED
          BY <4>1, <4>2 DEF TypeOK
      <3>3. QED
        BY <1>4, <3>1, <3>2 DEF SetUpScope
    <2>2. UNCHANGED <<link, uart, transports, serial, lock, spi, capture, poll, cli,
                         closeRequested, closing, images>>
      BY <1>4 DEF SetUpScope
    <2>4. TypeOK'
      BY <2>1, <2>2 DEF TypeOK, LinkTypeOK, Moves
    <2>5. JobPlaces' /\ RowsCounted' /\ LocksHeld' /\ ScopeHeld' /\ ClosesCleanly'
      BY <2>0, <2>1, <2>2
      DEF TypeOK, JobPlaces, RowsCounted, LocksHeld, ScopeHeld, ClosesCleanly, Moves
    <2>7. PortHeld'
      BY <2>0, <2>1, <2>2 DEF PortHeld, Moves
    <2>11. QED
      BY <2>4, <2>5, <2>7
  <1>5. CASE CloseBridge
    <2>0. job \in JobStates /\ job.pc = "spi_off" /\ spi' \in BOOLEAN
      BY <1>5 DEF CloseBridge, TypeOK
    <2>1. Moves({"done", "cw_off"})
      <3>1. CASE Goto(IF job.kind = "close" /\ scope THEN "cw_off" ELSE "done")
        <4>1. Goto("cw_off") \/ Goto("done")
          BY <3>1
        <4>2. QED
          BY <2>0, <4>1 DEF JobStates, Moves
      <3>2. CASE job' = [job EXCEPT !.pc = "done", !.failed = TRUE]
        BY <2>0, <3>2 DEF JobStates, Moves
      <3>3. QED
        BY <1>5, <3>1, <3>2 DEF CloseBridge
    <2>2. UNCHANGED <<link, uart, transports, serial, lock, scope, husky, capture, poll, cli,
                         closeRequested, closing, images>>
      BY <1>5 DEF CloseBridge
    <2>4. TypeOK'
      BY <2>0, <2>1, <2>2 DEF TypeOK, LinkTypeOK, Moves
    <2>5. JobPlaces' /\ RowsCounted' /\ LocksHeld' /\ ScopeHeld' /\ ClosesCleanly'
      BY <2>0, <2>1, <2>2 DEF JobPlaces, RowsCounted, LocksHeld, ScopeHeld, ClosesCleanly, Moves
    <2>7. PortHeld'
      BY <2>0, <2>1, <2>2 DEF PortHeld, Moves
    <2>11. QED
      BY <2>4, <2>5, <2>7
  <1>6. QED
    BY <1>1, <1>2, <1>3, <1>4, <1>5


\* A new job, begun by an idle window.
LEMMA JobStarts ==
  ASSUME GInv, ~ Busy, ~ closing,
         job' \in JobStates, job'.row = 0,
         job'.pc \in {"shut", "lockfile", "spi_off", "acquire", "cw", "cw_off", "load", "hold"},
         job'.pc = "shut" => job'.kind \in {"connect", "disconnect", "close"} /\ uart # 0,
         job'.pc = "lockfile" => job'.kind = "connect" /\ uart = 0,
         job'.kind = "connect" => transports < MaxConnects,
         job'.pc = "acquire" => job'.kind \in {"ask", "send", "capture"} /\ uart # 0,
         job'.pc = "load" => job'.kind = "program",
         job'.pc = "hold" => job'.kind = "restart",
         UNCHANGED <<link, uart, transports, serial, lock, board, closing, poll, capture, cli>>,
         closeRequested' \in BOOLEAN, images' \in 1 .. MaxLoads
  PROVE  GInv'
  <1> USE SessionBounds, LinkBounds, FreeAssumption
      DEF board, capture, link, Transports, Busy, PollActive, Processes, Asks, GInv
  <1>1. job.pc = "idle" /\ rows = <<>> /\ ~ failures /\ closing' = FALSE
    BY DEF RowsCounted, TypeOK
  <1>2. TypeOK'
    BY DEF TypeOK, LinkTypeOK
  <1>3. JobPlaces' /\ RowsCounted' /\ ScopeHeld' /\ ClosesCleanly'
    BY <1>1 DEF JobPlaces, RowsCounted, ScopeHeld, ClosesCleanly
  <1>4. PortHeld' /\ LocksHeld'
    BY <1>1 DEF PortHeld, LocksHeld, TypeOK
  <1>5. QED
    BY <1>2, <1>3, <1>4

\* What the user and the timer ask for.
LEMMA QtKeepsGInv ==
  ASSUME GInv, QtThread
  PROVE  GInv'
  <1> USE SessionBounds, LinkBounds, FreeAssumption
      DEF board, session, capture, link, Transports, Busy, PollActive, Processes, Asks, GInv
  <1>0. uart \in Nat /\ transports \in Nat /\ closeRequested \in BOOLEAN /\ images \in 1 .. MaxLoads
    BY DEF TypeOK
  <1>1. CASE OnConnect
    <2>1. CASE uart = 0
      <3>1. job' = [kind |-> "connect", pc |-> "lockfile", ask |-> 0, row |-> 0, failed |-> FALSE]
        BY <1>1, <2>1 DEF OnConnect, Run, Begin
      <3>2. QED
        BY <1>0, <1>1, <2>1, <3>1, JobStarts DEF OnConnect, Run, Begin, JobStates
    <2>2. CASE uart # 0
      <3>1. job' = [kind |-> "connect", pc |-> "shut", ask |-> 0, row |-> 0, failed |-> FALSE]
        BY <1>1, <2>2 DEF OnConnect, Run, Begin
      <3>2. QED
        BY <1>0, <1>1, <2>2, <3>1, JobStarts DEF OnConnect, Run, Begin, JobStates
    <2>3. QED
      BY <2>1, <2>2
  <1>2. CASE OnDisconnect
    <2>1. CASE uart = 0
      <3>1. job' = [kind |-> "disconnect", pc |-> "spi_off", ask |-> 0, row |-> 0, failed |-> FALSE]
        BY <1>2, <2>1 DEF OnDisconnect, Run, Begin
      <3>2. QED
        BY <1>0, <1>2, <2>1, <3>1, JobStarts DEF OnDisconnect, Run, Begin, JobStates
    <2>2. CASE uart # 0
      <3>1. job' = [kind |-> "disconnect", pc |-> "shut", ask |-> 0, row |-> 0, failed |-> FALSE]
        BY <1>2, <2>2 DEF OnDisconnect, Run, Begin
      <3>2. QED
        BY <1>0, <1>2, <2>2, <3>1, JobStarts DEF OnDisconnect, Run, Begin, JobStates
    <2>3. QED
      BY <2>1, <2>2
  <1>3. CASE OnAsk
    BY <1>0, <1>3, JobStarts DEF OnAsk, Run, Begin, JobStates
  <1>4. CASE OnSend
    BY <1>0, <1>4, JobStarts DEF OnSend, Run, Begin, JobStates
  <1>5. CASE OnCapture
    BY <1>0, <1>5, JobStarts DEF OnCapture, Run, Begin, JobStates
  <1>6. CASE OnScope
    BY <1>0, <1>6, JobStarts DEF OnScope, Run, Begin, JobStates
  <1>7. CASE OnScopeOff
    BY <1>0, <1>7, JobStarts DEF OnScopeOff, Run, Begin, JobStates
  <1>8. CASE OnRestart
    BY <1>0, <1>8, JobStarts DEF OnRestart, Run, Begin, JobStates
  <1>9. CASE OnProgram
    BY <1>0, <1>9, JobStarts DEF OnProgram, Begin, JobStates
  <1>10. CASE CloseEvent
    <2>1. CASE uart # 0
      <3>1. job' = [kind |-> "close", pc |-> "shut", ask |-> 0, row |-> 0, failed |-> FALSE]
        BY <1>10, <2>1 DEF CloseEvent, Begin
      <3>2. QED
        BY <1>0, <1>10, <2>1, <3>1, JobStarts DEF CloseEvent, Begin, JobStates
    <2>2. CASE uart = 0 /\ (spi \/ scope)
      <3>1. job' = [kind |-> "close", pc |-> "spi_off", ask |-> 0, row |-> 0, failed |-> FALSE]
        BY <1>10, <2>2 DEF CloseEvent, Begin
      <3>2. /\ UNCHANGED <<link, uart, transports, serial, lock, board, closing, images, poll,
                           capture, cli>>
            /\ ~ Busy /\ ~ closing /\ closeRequested' = TRUE
        BY <1>10, <2>2 DEF CloseEvent, Begin
      <3>3. closeRequested' \in BOOLEAN
        BY <3>2
      <3>4. /\ job' \in JobStates /\ job'.row = 0 /\ job'.pc = "spi_off"
            /\ job'.kind = "close"
        BY <3>1 DEF JobStates
      <3>5. QED
        BY <1>0, <3>2, <3>3, <3>4, JobStarts
    <2>3. CASE uart = 0 /\ ~ spi /\ ~ scope
      <3>1. /\ ~ Busy /\ ~ PollActive
            /\ UNCHANGED <<link, uart, transports, serial, lock, board, images, poll, capture, cli,
                           job, closeRequested>>
            /\ closing' = TRUE
        BY <1>10, <2>3 DEF CloseEvent, MayClose
      <3>2. TypeOK'
        BY <3>1 DEF TypeOK, LinkTypeOK
      <3>3. JobPlaces' /\ RowsCounted' /\ LocksHeld' /\ ScopeHeld'
        BY <3>1 DEF JobPlaces, RowsCounted, LocksHeld, ScopeHeld
      <3>4. PortHeld' /\ ClosesCleanly'
        BY <2>3, <3>1 DEF TypeOK, PortHeld, ClosesCleanly, ScopeHeld
      <3>5. QED
        BY <3>2, <3>3, <3>4
    <2>4. QED
      BY <2>1, <2>2, <2>3
  <1>11. CASE PollTick
    <2>1. PICK monitor \in BOOLEAN :
            /\ monitor => uart # 0
            /\ poll' = [pc |-> IF monitor THEN "try" ELSE "done",
                        uart |-> IF monitor THEN uart ELSE 0]
      BY <1>11 DEF PollTick
    <2>2. /\ poll' \in PollStates /\ poll'.pc \in {"try", "done"}
          /\ poll'.pc = "try" => poll'.uart # 0
      <3>1. CASE monitor
        BY <1>0, <2>1, <3>1 DEF PollStates, TypeOK
      <3>2. CASE ~ monitor
        BY <1>0, <2>1, <3>2 DEF PollStates, TypeOK
      <3>3. QED
        BY <3>1, <3>2
    <2>3. UNCHANGED <<link, session, job, capture, cli>> /\ ~ closing
      BY <1>11 DEF PollTick
    <2>4. TypeOK'
      BY <2>2, <2>3 DEF TypeOK, LinkTypeOK
    <2>5. JobPlaces' /\ RowsCounted' /\ LocksHeld' /\ ScopeHeld' /\ ClosesCleanly'
      BY <2>2, <2>3 DEF JobPlaces, RowsCounted, LocksHeld, ScopeHeld, ClosesCleanly
    <2>6. PortHeld'
      BY <2>3 DEF PortHeld
    <2>7. QED
      BY <2>4, <2>5, <2>6
  <1>12. QED
    BY <1>1, <1>2, <1>3, <1>4, <1>5, <1>6, <1>7, <1>8, <1>9, <1>10, <1>11
       DEF QtThread

\* The poll thread, and the ends of both threads.
LEMMA PollKeepsGInv ==
  ASSUME GInv, PollThread \/ FinishPoll \/ FinishJob
  PROVE  GInv'
  <1> USE SessionBounds, LinkBounds, FreeAssumption
      DEF board, session, capture, link, Transports, Busy, PollActive, Processes, Asks, GInv
  <1>1. CASE PollTry
    <2>1. /\ UNCHANGED <<link, uart, transports, serial, board, closeRequested, closing,
                         images, job, capture, cli>>
          /\ poll.pc = "try" /\ poll.uart \in Transports
      BY <1>1 DEF PollTry, TypeOK, PollStates, LocksHeld
    <2>2. /\ poll' \in PollStates
          /\ \/ /\ lock[poll.uart] = Free /\ lock' = [lock EXCEPT ![poll.uart] = "poll"]
                /\ poll'.pc = "read" /\ poll'.uart = poll.uart
             \/ lock' = lock /\ poll'.pc = "done"
      <3>1. CASE lock[poll.uart] = Free
        BY <1>1, <3>1 DEF PollTry, TypeOK, PollStates
      <3>2. CASE lock[poll.uart] # Free
        BY <1>1, <3>2 DEF PollTry, TypeOK, PollStates
      <3>3. QED
        BY <3>1, <3>2
    <2>3. lock' \in [Transports -> {Free, "job", "poll"}]
      BY <2>1, <2>2 DEF TypeOK
    <2>4. TypeOK'
      BY <2>1, <2>2, <2>3 DEF TypeOK, LinkTypeOK
    <2>5. JobPlaces' /\ RowsCounted' /\ ScopeHeld' /\ ClosesCleanly'
      BY <2>1, <2>2 DEF JobPlaces, RowsCounted, ScopeHeld, ClosesCleanly
    <2>6. PortHeld'
      BY <2>1 DEF PortHeld
    <2>7. LocksHeld'
      <3>1. CASE lock' = lock /\ poll'.pc = "done"
        BY <2>1, <3>1 DEF LocksHeld
      <3>2. CASE /\ lock[poll.uart] = Free /\ lock' = [lock EXCEPT ![poll.uart] = "poll"]
                 /\ poll'.pc = "read" /\ poll'.uart = poll.uart
        <4>1. \A u \in Transports : lock[u] = "job" => lock'[u] = "job"
          BY <2>1, <3>2 DEF TypeOK
        <4>2. lock'[poll.uart] = "poll"
          BY <2>1, <3>2 DEF TypeOK
        <4>3. ASSUME \/ job.pc \in {"unlock", "write", "read", "drain", "banner", "release"}
                     \/ job.kind = "program" /\ job.pc \in {"hold", "reboot"}
              PROVE  lock'[uart] = "job"
          BY <4>1, <4>3 DEF LocksHeld, JobPlaces, TypeOK
        <4>4. QED
          BY <2>1, <3>2, <4>2, <4>3 DEF LocksHeld
      <3>3. QED
        BY <2>2, <3>1, <3>2
    <2>8. QED
      BY <2>4, <2>5, <2>6, <2>7
  <1>2. CASE PollReads
    <2>0. poll.pc = "read" /\ lock[poll.uart] = "poll" /\ poll.uart \in Transports
      BY <1>2 DEF PollReads, TypeOK, PollStates, LocksHeld
    <2>1. /\ UNCHANGED <<uart, transports, serial, board, closeRequested, closing,
                         images, job, capture, cli>>
          /\ lock' = [lock EXCEPT ![poll.uart] = Free]
          /\ poll' = [pc |-> "done", uart |-> 0]
      BY <1>2, <2>0 DEF PollReads, TypeOK
    <2>2. LinkTypeOK' /\ UNCHANGED <<flock, opened, asked>>
      <3>1. ReadAvailable \/ UNCHANGED link
        BY <1>2 DEF PollReads
      <3>2. LinkTypeOK'
        BY <3>1, ReadTypes DEF TypeOK
      <3>3. QED
        BY <3>1, <3>2 DEF ReadAvailable
    <2>3. lock' \in [Transports -> {Free, "job", "poll"}] /\ poll' \in PollStates
      BY <2>0, <2>1 DEF TypeOK, PollStates
    <2>4. TypeOK'
      BY <2>1, <2>2, <2>3 DEF TypeOK
    <2>5. JobPlaces' /\ RowsCounted' /\ ScopeHeld'
      BY <2>1, <2>2 DEF JobPlaces, RowsCounted, ScopeHeld
    <2>6. PortHeld' /\ ClosesCleanly'
      BY <2>0, <2>1, <2>2 DEF PortHeld, ClosesCleanly
    <2>7. LocksHeld'
      <3>1. \A u \in Transports : lock[u] = "job" => lock'[u] = "job"
        BY <2>0, <2>1 DEF TypeOK
      <3>2. ASSUME \/ job.pc \in {"unlock", "write", "read", "drain", "banner", "release"}
                   \/ job.kind = "program" /\ job.pc \in {"hold", "reboot"}
            PROVE  lock'[uart] = "job"
        BY <3>1, <3>2 DEF LocksHeld, JobPlaces, TypeOK
      <3>3. QED
        BY <2>1, <3>2 DEF LocksHeld
    <2>8. QED
      BY <2>4, <2>5, <2>6, <2>7
  <1>3. CASE FinishPoll
    <2>1. UNCHANGED <<link, session, job, capture, cli>> /\ poll' = IdlePoll
      BY <1>3 DEF FinishPoll
    <2>2. poll' \in PollStates /\ poll'.pc = "idle"
      BY <2>1 DEF IdlePoll, PollStates
    <2>3. TypeOK'
      BY <2>1, <2>2 DEF TypeOK, LinkTypeOK
    <2>4. JobPlaces' /\ RowsCounted' /\ LocksHeld' /\ ScopeHeld' /\ ClosesCleanly' /\ PortHeld'
      BY <2>1, <2>2 DEF JobPlaces, RowsCounted, LocksHeld, ScopeHeld, ClosesCleanly, PortHeld
    <2>5. QED
      BY <2>3, <2>4
  <1>4. CASE FinishJob
    <2>1. /\ UNCHANGED <<link, uart, transports, serial, lock, board, images, poll, capture, cli>>
          /\ job.pc = "done" /\ job' = IdleJob /\ closeRequested' = FALSE
      BY <1>4 DEF FinishJob
    <2>2. job' \in JobStates /\ job'.pc = "idle" /\ job'.kind = "none" /\ job'.row = 0
      BY <2>1 DEF IdleJob, JobStates
    <2>3. closing' \in BOOLEAN /\ (closing' => ~ PollActive /\ uart = 0 /\ ~ spi /\ ~ scope)
      BY <1>4 DEF FinishJob
    <2>4. TypeOK'
      BY <2>1, <2>2, <2>3 DEF TypeOK, LinkTypeOK
    <2>5. JobPlaces' /\ RowsCounted' /\ ScopeHeld' /\ PortHeld' /\ LocksHeld'
      BY <2>1, <2>2 DEF JobPlaces, RowsCounted, LocksHeld, ScopeHeld, PortHeld
    <2>6. ClosesCleanly'
      BY <2>1, <2>2, <2>3 DEF ScopeHeld, PortHeld, ClosesCleanly, TypeOK
    <2>7. QED
      BY <2>4, <2>5, <2>6
  <1>5. QED
    BY <1>1, <1>2, <1>3, <1>4 DEF PollThread

\* Closing the transport, opening the device and giving up the scope.
LEMMA TransportKeepsGInv ==
  ASSUME GInv, ShutSerial \/ ShutLockFile \/ OpenDevice \/ CloseScope
  PROVE  GInv'
  <1> USE SessionBounds, LinkBounds, FreeAssumption
      DEF board, session, capture, link, Transports, Busy, PollActive, InJob, JobLeaves,
          Processes, Asks, GInv
  <1>1. CASE ShutSerial
    <2>0. job.pc = "shut" /\ uart \in Transports
      <3>1. job.pc = "shut" /\ uart # 0
        BY <1>1 DEF ShutSerial, JobPlaces
      <3>2. QED
        BY <3>1 DEF TypeOK
    <2>1. /\ UNCHANGED <<uart, transports, board, capture, poll, cli, closeRequested, closing,
                         images, flock, asked>>
          /\ serial' = 0 /\ lock' = [lock EXCEPT ![uart] = "job"]
          /\ opened' = opened \ {"gui"}
          /\ lock[uart] \in {Free, "job"}
      BY <1>1 DEF ShutSerial, CloseSerial
    <2>2. LinkTypeOK'
      <3>1. CloseSerial("gui")
        BY <1>1 DEF ShutSerial
      <3>2. QED
        BY <3>1, PortTypes DEF TypeOK
    <2>3. Moves({"unlock"})
      <3>1. PICK raised \in BOOLEAN : job' = [job EXCEPT !.pc = "unlock", !.failed = raised]
        BY <1>1 DEF ShutSerial
      <3>2. QED
        BY <3>1 DEF TypeOK, JobStates, Moves
    <2>4. TypeOK'
      BY <2>0, <2>1, <2>2, <2>3 DEF TypeOK, Moves
    <2>5. JobPlaces' /\ RowsCounted' /\ ScopeHeld'
      BY <2>0, <2>1, <2>3 DEF JobPlaces, RowsCounted, ScopeHeld, Moves
    <2>6. PortHeld' /\ ClosesCleanly'
      BY <2>0, <2>1, <2>3 DEF PortHeld, ClosesCleanly, Moves, JobPlaces
    <2>7. LocksHeld'
      BY <2>0, <2>1, <2>3 DEF TypeOK, LocksHeld, Moves
    <2>8. QED
      BY <2>4, <2>5, <2>6, <2>7
  <1>2. CASE ShutLockFile
    <2>0. /\ job.pc = "unlock" /\ uart \in Transports /\ serial = 0 /\ "gui" \notin opened
          /\ job.kind \in {"connect", "disconnect", "close"}
      BY <1>2 DEF ShutLockFile, TypeOK, JobPlaces
    <2>1. /\ UNCHANGED <<transports, serial, board, capture, poll, cli, closeRequested, closing,
                         images, opened, asked>>
          /\ lock' = [lock EXCEPT ![uart] = Free]
          /\ flock' = IF flock = "gui" THEN Free ELSE flock
      BY <1>2 DEF ShutLockFile, ReleaseFlock
    <2>2. LinkTypeOK'
      <3>1. ReleaseFlock("gui")
        BY <1>2 DEF ShutLockFile
      <3>2. QED
        BY <3>1, PortTypes DEF TypeOK
    <2>3. /\ Moves({"spi", "lockfile", "done", "spi_off"})
          /\ uart' \in {0, uart}
          /\ job'.pc = "lockfile" => job.kind = "connect" /\ uart' = 0
      <3>1. CASE job.failed /\ job.kind = "connect"
        BY <1>2, <3>1 DEF ShutLockFile, TypeOK, JobStates, Moves
      <3>2. CASE job.failed /\ job.kind # "connect"
        BY <1>2, <3>2 DEF ShutLockFile, TypeOK, JobStates, Moves
      <3>3. CASE ~ job.failed /\ job.kind = "connect"
        BY <1>2, <3>3 DEF ShutLockFile, TypeOK, JobStates, Moves
      <3>4. CASE ~ job.failed /\ job.kind # "connect"
        BY <1>2, <3>4 DEF ShutLockFile, TypeOK, JobStates, Moves
      <3>5. QED
        BY <3>1, <3>2, <3>3, <3>4
    <2>4. TypeOK'
      BY <2>0, <2>1, <2>2, <2>3 DEF TypeOK, Moves
    <2>5. JobPlaces' /\ RowsCounted' /\ ScopeHeld'
      BY <2>0, <2>1, <2>3 DEF TypeOK, JobPlaces, RowsCounted, ScopeHeld, Moves
    <2>6. PortHeld' /\ ClosesCleanly'
      BY <2>0, <2>1, <2>3 DEF PortHeld, ClosesCleanly, Moves, JobPlaces
    <2>7. LocksHeld'
      BY <2>0, <2>1, <2>3 DEF TypeOK, LocksHeld, Moves
    <2>8. QED
      BY <2>4, <2>5, <2>6, <2>7
  <1>3. CASE OpenDevice
    <2>0. /\ job.pc = "serial" /\ transports \in Transports /\ uart = 0 /\ serial = 0
          /\ job.kind = "connect" /\ flock = "gui" /\ "gui" \notin opened
      BY <1>3 DEF OpenDevice, TypeOK, JobPlaces, PortHeld
    <2>1. /\ UNCHANGED <<transports, lock, board, capture, poll, cli, closeRequested, closing,
                         images, asked>>
          /\ \/ /\ uart' = transports /\ serial' = transports
                /\ opened' = opened \cup {"gui"} /\ flock' = flock
             \/ uart' = uart /\ serial' = serial /\ opened' = opened /\ flock' = Free
      BY <1>3, <2>0 DEF OpenDevice, OpenSerial, ReleaseFlock
    <2>2. LinkTypeOK'
      <3>1. OpenSerial("gui") \/ ReleaseFlock("gui")
        BY <1>3 DEF OpenDevice
      <3>2. QED
        BY <3>1, PortTypes DEF TypeOK
    <2>3. Moves({"spi"})
      BY <1>3 DEF OpenDevice, Goto, TypeOK, JobStates, Moves
    <2>4. TypeOK'
      BY <2>0, <2>1, <2>2, <2>3 DEF TypeOK, Moves
    <2>5. JobPlaces' /\ RowsCounted' /\ ScopeHeld' /\ LocksHeld'
      BY <2>0, <2>1, <2>3 DEF JobPlaces, RowsCounted, ScopeHeld, LocksHeld, Moves
    <2>6. PortHeld' /\ ClosesCleanly'
      BY <2>0, <2>1, <2>3 DEF PortHeld, ClosesCleanly, Moves
    <2>7. QED
      BY <2>4, <2>5, <2>6
  <1>4. CASE CloseScope
    <2>1. /\ UNCHANGED <<link, uart, transports, serial, spi, lock, capture, poll, cli,
                         closeRequested, closing, images>>
          /\ husky' = FALSE /\ scope' = FALSE /\ job.pc = "cw_off"
      BY <1>4 DEF CloseScope
    <2>2. Moves({"done"})
      BY <1>4 DEF CloseScope, Goto, TypeOK, JobStates, Moves
    <2>3. TypeOK'
      BY <2>1, <2>2 DEF TypeOK, LinkTypeOK, Moves
    <2>4. /\ JobPlaces' /\ RowsCounted' /\ ScopeHeld' /\ LocksHeld' /\ PortHeld'
          /\ ClosesCleanly'
      BY <2>1, <2>2
      DEF JobPlaces, RowsCounted, ScopeHeld, LocksHeld, PortHeld, ClosesCleanly, Moves
    <2>5. QED
      BY <2>3, <2>4
  <1>5. QED
    BY <1>1, <1>2, <1>3, <1>4

\* Programming and restarting the controller.
LEMMA ProgramKeepsGInv ==
  ASSUME GInv, Load \/ BootLoaded \/ Drain \/ HoldAgain \/ BootAgain \/ AwaitBanner
  PROVE  GInv'
  <1> USE SessionBounds, LinkBounds, FreeAssumption
      DEF board, session, capture, link, Transports, Busy, PollActive, InJob, Processes, Asks,
          GInv
  <1>1. UNCHANGED <<session, poll, capture, cli>>
    BY DEF Load, BootLoaded, Drain, HoldAgain, BootAgain, AwaitBanner
  <1>2. LinkTypeOK' /\ UNCHANGED <<flock, opened, asked>>
    <2>1. images \in 0 .. MaxLoads /\ firmware \in 0 .. MaxLoads /\ 0 \in 0 .. MaxLoads
      BY DEF TypeOK, LinkTypeOK
    <2>2. CASE Load \/ HoldAgain
      <3>1. PICK image \in 0 .. MaxLoads : Hold(image)
        BY <2>1, <2>2 DEF Load, HoldAgain
      <3>2. LinkTypeOK'
        BY <3>1, ChipTypes DEF TypeOK
      <3>3. QED
        BY <3>1, <3>2 DEF Hold
    <2>3. CASE BootLoaded \/ BootAgain
      <3>1. PICK image \in 0 .. MaxLoads : Boot(image)
        BY <2>1, <2>3 DEF BootLoaded, BootAgain
      <3>2. LinkTypeOK'
        BY <3>1, ChipTypes DEF TypeOK
      <3>3. QED
        BY <3>1, <3>2 DEF Boot
    <2>4. CASE Drain \/ AwaitBanner
      <3>1. ReadAvailable \/ UNCHANGED link
        BY <2>4 DEF Drain, Drained, AwaitBanner
      <3>2. LinkTypeOK'
        BY <3>1, ReadTypes DEF TypeOK
      <3>3. QED
        BY <3>1, <3>2 DEF ReadAvailable
    <2>5. QED
      BY <2>2, <2>3, <2>4
  <1>3. /\ Moves({"boot", "done", "acquire", "hold", "reboot", "banner", "release"})
        /\ \/ job.pc = "load" /\ job'.pc \in {"boot", "done"}
           \/ /\ job.pc = "boot" /\ job'.pc \in {"done", "acquire"}
              /\ job'.pc = "acquire" => uart # 0
           \/ job.pc = "drain" /\ job'.pc = "hold"
           \/ job.pc = "hold" /\ job'.pc = "reboot"
           \/ job.pc = "reboot" /\ job'.pc = "banner" /\ job.kind = "program"
           \/ job.pc = "reboot" /\ job'.pc = "done"
           \/ job.pc = "banner" /\ job'.pc \in {"banner", "release"}
    <2>0. job \in JobStates
      BY DEF TypeOK
    <2>1. CASE Load
      <3>1. job.pc = "load" /\ (Goto("boot") \/ Goto("done"))
        BY <2>1 DEF Load
      <3>2. QED
        BY <2>0, <3>1 DEF JobStates, Moves, Goto
    <2>2. CASE BootLoaded
      <3>1. CASE uart = 0
        <4>1. job.pc = "boot" /\ Goto("done")
          BY <2>2, <3>1 DEF BootLoaded
        <4>2. QED
          BY <2>0, <4>1 DEF JobStates, Moves, Goto
      <3>2. CASE uart # 0
        BY <2>0, <2>2, <3>2 DEF BootLoaded, JobStates, Moves, Goto
      <3>3. QED
        BY <3>1, <3>2
    <2>3. CASE Drain
      BY <2>0, <2>3 DEF Drain, JobStates, Moves, Goto
    <2>4. CASE HoldAgain
      BY <2>0, <2>4 DEF HoldAgain, JobStates, Moves, Goto
    <2>5. CASE BootAgain
      BY <2>0, <2>5 DEF BootAgain, JobStates, Moves, Goto
    <2>6. CASE AwaitBanner
      <3>1. job.pc = "banner" /\ (Goto("release") \/ UNCHANGED job)
        BY <2>6 DEF AwaitBanner
      <3>2. QED
        BY <2>0, <3>1 DEF JobStates, Moves, Goto
    <2>7. QED
      BY <2>1, <2>2, <2>3, <2>4, <2>5, <2>6
  <1>4. TypeOK'
    BY <1>1, <1>2, <1>3 DEF TypeOK, Moves
  <1>5. JobPlaces'
    BY <1>1, <1>2, <1>3 DEF JobPlaces, Moves
  <1>6. RowsCounted'
    BY <1>1, <1>3 DEF JobPlaces, RowsCounted, Moves
  <1>7. PortHeld' /\ ScopeHeld' /\ ClosesCleanly'
    BY <1>1, <1>2, <1>3 DEF PortHeld, ScopeHeld, ClosesCleanly, Moves
  <1>8. LocksHeld'
    BY <1>1, <1>3 DEF JobPlaces, LocksHeld, Moves
  <1>9. QED
    BY <1>4, <1>5, <1>6, <1>7, <1>8

\* Transactions and captures.
LEMMA TransactionKeepsGInv ==
  ASSUME GInv,
         \/ Acquire \/ Release \/ WriteToClosed \/ Write \/ ArmFails
         \/ ReadFrame \/ ReadText \/ ReadTimesOut
  PROVE  GInv'
  <1> USE SessionBounds, LinkBounds, FreeAssumption
      DEF board, session, capture, link, Transports, Busy, PollActive, InJob, JobLeaves,
          Processes, Asks, GInv
  <1>0. job \in JobStates /\ failures \in BOOLEAN
    BY DEF TypeOK
  <1>1. CASE Acquire
    <2>0. /\ job.pc = "acquire" /\ uart \in Transports /\ lock[uart] = Free
          /\ job.kind \in {"ask", "send", "capture", "program"}
      BY <1>1 DEF Acquire, TypeOK, JobPlaces
    <2>1. /\ UNCHANGED <<link, uart, transports, serial, board, rows, failures, poll, cli,
                         closeRequested, closing, images>>
          /\ lock' = [lock EXCEPT ![uart] = "job"]
      BY <1>1 DEF Acquire
    <2>2. /\ Moves({"drain", "write"})
          /\ job'.pc = "drain" <=> job.kind = "program"
      BY <1>0, <1>1 DEF Acquire, Goto, JobStates, Moves
    <2>3. cleanStart' \in BOOLEAN
      BY <1>1 DEF Acquire, TypeOK
    <2>4. TypeOK'
      BY <2>0, <2>1, <2>2, <2>3 DEF TypeOK, LinkTypeOK, Moves
    <2>5. JobPlaces' /\ ScopeHeld' /\ ClosesCleanly'
      BY <2>0, <2>1, <2>2 DEF JobPlaces, ScopeHeld, ClosesCleanly, Moves
    <2>6. RowsCounted'
      <3>1. rows = <<>> /\ ~ failures
        BY <2>0 DEF RowsCounted
      <3>2. job'.row \in Nat /\ rows' = <<>> /\ ~ failures'
        BY <2>1, <2>2, <3>1 DEF Moves, JobStates
      <3>3. job.pc = "acquire" => job.row = 0
        BY DEF RowsCounted
      <3>4. QED
        BY <2>0, <2>2, <3>2, <3>3 DEF RowsCounted, Moves
    <2>7. PortHeld'
      BY <2>0, <2>1, <2>2 DEF PortHeld, Moves
    <2>8. LocksHeld'
      BY <2>0, <2>1, <2>2 DEF TypeOK, LocksHeld, Moves
    <2>9. QED
      BY <2>4, <2>5, <2>6, <2>7, <2>8
  <1>2. CASE Release
    <2>0. job.pc = "release" /\ uart \in Transports
      BY <1>2 DEF Release, TypeOK, JobPlaces
    <2>1. /\ UNCHANGED <<link, uart, transports, serial, board, poll, cli,
                         closeRequested, closing, images>>
          /\ lock' = [lock EXCEPT ![uart] = Free]
          /\ rows' = <<>> /\ failures' = FALSE /\ cleanStart' = FALSE
      BY <1>2 DEF Release
    <2>2. job' \in JobStates /\ job'.kind = job.kind /\ job'.pc = "done" /\ job'.row = 0
      <3>1. 0 \in 0 .. MaxAsks /\ 0 \in 0 .. Traces
        OBVIOUS
      <3>2. job' = [job EXCEPT !.pc = "done", !.ask = 0, !.row = 0]
        BY <1>2 DEF Release
      <3>3. QED
        BY <1>0, <3>1, <3>2 DEF JobStates
    <2>3. failures' \in BOOLEAN /\ cleanStart' \in BOOLEAN /\ ~ failures'
      BY <2>1
    <2>4. rows' \in Seq(Asks \X Asks) /\ Len(rows') <= Traces
      BY <2>1
    <2>5. TypeOK'
      BY <2>0, <2>1, <2>2, <2>3, <2>4 DEF TypeOK, LinkTypeOK
    <2>6. JobPlaces' /\ ScopeHeld' /\ ClosesCleanly' /\ RowsCounted'
      BY <2>0, <2>1, <2>2, <2>3 DEF JobPlaces, ScopeHeld, ClosesCleanly, RowsCounted
    <2>7. PortHeld'
      BY <2>0, <2>1, <2>2 DEF PortHeld
    <2>8. LocksHeld'
      BY <2>0, <2>1, <2>2 DEF TypeOK, LocksHeld
    <2>9. QED
      BY <2>5, <2>6, <2>7, <2>8
  <1>3. CASE WriteToClosed
    <2>1. UNCHANGED <<link, session, poll, capture, cli>> /\ job.pc = "write"
      BY <1>3 DEF WriteToClosed
    <2>2. Moves({"release"})
      <3> DEFINE failed == job.kind # "ask"
      <3>1. failed \in BOOLEAN
        OBVIOUS
      <3>2. job' = [job EXCEPT !.pc = "release", !.failed = failed]
        BY <1>3 DEF WriteToClosed
      <3> HIDE DEF failed
      <3>3. QED
        BY <1>0, <3>1, <3>2 DEF JobStates, Moves
    <2>3. TypeOK'
      BY <2>1, <2>2 DEF TypeOK, LinkTypeOK, Moves
    <2>4. JobPlaces' /\ RowsCounted' /\ ScopeHeld' /\ LocksHeld' /\ ClosesCleanly'
      BY <2>1, <2>2 DEF JobPlaces, RowsCounted, ScopeHeld, LocksHeld, ClosesCleanly, Moves
    <2>5. PortHeld'
      BY <2>1, <2>2 DEF PortHeld, Moves
    <2>6. QED
      BY <2>3, <2>4, <2>5
  <1>4. CASE Write
    <2>1. /\ UNCHANGED <<session, poll, capture, cli>> /\ job.pc = "write" /\ serial = uart
          /\ Send(job.kind # "send")
      BY <1>4 DEF Write
    <2>2. LinkTypeOK' /\ asked' = asked + 1 /\ asked' \in Asks
      <3>1. PICK kept \in BOOLEAN : Send(kept)
        BY <2>1
      <3>2. QED
        BY <3>1, SendTypes DEF TypeOK
    <2>3. UNCHANGED <<flock, opened>>
      BY <2>1 DEF Send
    <2>4. /\ job' \in JobStates /\ job'.kind = job.kind /\ job'.row = job.row
          /\ \/ job'.pc = "release"
             \/ job'.pc = "read" /\ job'.ask = asked'
      <3>1. CASE job.kind = "send"
        <4>1. job' = [job EXCEPT !.pc = "release"]
          BY <1>4, <3>1 DEF Write
        <4>2. QED
          BY <1>0, <4>1 DEF JobStates
      <3>2. CASE job.kind # "send"
        <4>1. job' = [job EXCEPT !.pc = "read", !.ask = asked'] /\ asked' \in 0 .. MaxAsks
          BY <1>4, <2>2, <3>2 DEF Write
        <4>2. QED
          BY <1>0, <4>1 DEF JobStates
      <3>3. QED
        BY <3>1, <3>2
    <2>5. asked \in Nat
      BY DEF TypeOK, LinkTypeOK
    <2>6. TypeOK'
      BY <2>1, <2>2, <2>3, <2>4 DEF TypeOK
    <2>7. JobPlaces' /\ RowsCounted' /\ ScopeHeld' /\ LocksHeld' /\ ClosesCleanly'
      BY <2>1, <2>2, <2>3, <2>4, <2>5
      DEF JobPlaces, RowsCounted, ScopeHeld, LocksHeld, ClosesCleanly
    <2>8. PortHeld'
      BY <2>1, <2>2, <2>3, <2>4, <2>5 DEF PortHeld
    <2>9. QED
      BY <2>6, <2>7, <2>8
  <1>5. CASE ArmFails \/ ReadFrame \/ ReadTimesOut
    <2>1. /\ UNCHANGED <<session, poll, cli>> /\ NextRow
          /\ job.pc \in {"write", "read"}
      BY <1>5 DEF ArmFails, ReadFrame, ReadTimesOut, RowFails
    <2>2. LinkTypeOK' /\ UNCHANGED <<flock, opened, asked>>
      <3>1. CASE ArmFails
        BY <3>1 DEF ArmFails, TypeOK, LinkTypeOK
      <3>2. CASE ReadFrame \/ ReadTimesOut
        <4>1. job.ask \in Asks
          BY <3>2 DEF ReadFrame, ReadTimesOut, TypeOK, LinkTypeOK, JobPlaces
        <4>2. TakeFrame(job.ask) \/ GiveUp(job.ask)
          BY <3>2 DEF ReadFrame, ReadTimesOut
        <4>3. LinkTypeOK'
          BY <4>1, <4>2, AnswerTypes DEF TypeOK
        <4>4. QED
          BY <4>2, <4>3 DEF TakeFrame, GiveUp
      <3>3. QED
        BY <1>5, <3>1, <3>2
    <2>3. /\ rows' \in Seq(Asks \X Asks) /\ cleanStart' = cleanStart /\ failures' \in BOOLEAN
          /\ job.kind # "capture" => rows' = rows /\ failures' = failures
          /\ job.kind = "capture" => Len(rows') \in {Len(rows), Len(rows) + 1}
      <3>1. CASE RowFails
        BY <1>0, <3>1 DEF RowFails, TypeOK
      <3>2. CASE ReadFrame /\ ~ RowFails
        <4>1. /\ UNCHANGED <<failures, cleanStart>>
              /\ rows' = IF job.kind = "capture" THEN Append(rows, <<job.ask, Head(rx)[2]>>)
                                                 ELSE rows
              /\ rx # <<>> /\ Head(rx)[1] = "answer"
          BY <3>2 DEF ReadFrame, TakeFrame
        <4>2. Head(rx)[2] \in Asks
          <5>1. Head(rx) \in Frames
            BY <4>1 DEF TypeOK, LinkTypeOK
          <5>2. QED
            BY <4>1, <5>1 DEF Frames, Answer, Banner
        <4>3. <<job.ask, Head(rx)[2]>> \in Asks \X Asks
          BY <3>2, <4>2 DEF ReadFrame, TypeOK, LinkTypeOK, JobPlaces
        <4>4. rows \in Seq(Asks \X Asks)
          BY DEF TypeOK
        <4> DEFINE row == <<job.ask, Head(rx)[2]>>
        <4> HIDE DEF row
        <4>5. Append(rows, row) \in Seq(Asks \X Asks) /\ Len(Append(rows, row)) = Len(rows) + 1
          BY <4>3, <4>4 DEF row
        <4>6. rows' = IF job.kind = "capture" THEN Append(rows, row) ELSE rows
          BY <4>1 DEF row
        <4>7. QED
          BY <1>0, <4>1, <4>4, <4>5, <4>6
      <3>3. QED
        BY <1>5, <3>1, <3>2 DEF ArmFails, ReadTimesOut
    <2>4. /\ job' \in JobStates /\ job'.kind = job.kind /\ job'.ask = job.ask
          /\ \/ /\ job'.pc = "write" /\ job.kind = "capture"
                /\ job'.row = job.row + 1 /\ job'.row < Traces
             \/ job'.pc = "release" /\ job'.row = job.row
      BY <1>0, <2>1, <2>3, NextRowMoves
    <2>5. Len(rows) \in Nat /\ job.row \in Nat /\ Len(rows) <= job.row /\ job.row < Traces
      BY <2>1 DEF TypeOK, JobStates, RowsCounted
    <2>6. TypeOK'
      <3>1. Len(rows') <= Traces
        BY SMTT(30), <2>3, <2>5 DEF TypeOK
      <3>2. failures' \in BOOLEAN /\ cleanStart' \in BOOLEAN
        BY <2>3 DEF TypeOK
      <3>3. QED
        BY <2>1, <2>2, <2>3, <2>4, <3>1, <3>2 DEF TypeOK
    <2>7. JobPlaces' /\ ScopeHeld' /\ LocksHeld' /\ ClosesCleanly'
      BY <2>1, <2>2, <2>4 DEF JobPlaces, ScopeHeld, LocksHeld, ClosesCleanly
    <2>8. RowsCounted'
      <3>1. CASE job.kind = "capture"
        <4>1. Len(rows') <= job.row + 1 /\ job.row + 1 \in Nat
          BY SMTT(30), <2>3, <2>5, <3>1
        <4>2. CASE job'.pc = "write"
          BY <2>4, <3>1, <4>1, <4>2 DEF RowsCounted
        <4>3. CASE job'.pc = "release"
          BY <2>4, <3>1, <4>3 DEF RowsCounted
        <4>4. QED
          BY <2>4, <4>2, <4>3
      <3>2. CASE job.kind # "capture"
        <4>1. job'.pc = "release" /\ rows' = rows /\ failures' = failures
          BY <2>3, <2>4, <3>2
        <4>2. QED
          BY <2>4, <3>2, <4>1 DEF RowsCounted
      <3>3. QED
        BY <3>1, <3>2
    <2>9. PortHeld'
      BY <2>1, <2>2, <2>4 DEF PortHeld
    <2>10. QED
      BY <2>6, <2>7, <2>8, <2>9
  <1>6. CASE ReadText
    <2>1. UNCHANGED <<session, job, poll, capture, cli>> /\ SkipText
      BY <1>6 DEF ReadText
    <2>2. LinkTypeOK'
      BY <2>1, ReadTypes DEF TypeOK
    <2>3. UNCHANGED <<flock, opened, asked>>
      BY <2>1 DEF SkipText
    <2>4. TypeOK'
      BY <2>1, <2>2, <2>3 DEF TypeOK
    <2>5. JobPlaces' /\ RowsCounted' /\ ScopeHeld' /\ LocksHeld' /\ ClosesCleanly'
      BY <2>1, <2>3 DEF JobPlaces, RowsCounted, ScopeHeld, LocksHeld, ClosesCleanly
    <2>6. PortHeld'
      BY <2>1, <2>3 DEF PortHeld
    <2>7. QED
      BY <2>4, <2>5, <2>6
  <1>7. QED
    BY <1>1, <1>2, <1>3, <1>4, <1>5, <1>6

\* What the other process does leaves the session alone.
LEMMA OthersKeepGInv ==
  ASSUME GInv, LinkTypeOK', UNCHANGED <<session, job, poll, capture>>,
         cli' \in CliStates, PortHeld', asked' \in {asked, asked + 1},
         "gui" \in opened' <=> "gui" \in opened, flock' = "gui" => flock = "gui"
  PROVE  GInv'
  <1> USE DEF session, capture, board, GInv
  <1>1. asked \in Nat
    BY DEF TypeOK, LinkTypeOK
  <1>2. TypeOK'
    BY DEF TypeOK, Transports
  <1>3. JobPlaces'
    BY <1>1 DEF JobPlaces
  <1>4. RowsCounted' /\ LocksHeld' /\ ScopeHeld' /\ ClosesCleanly'
    BY DEF RowsCounted, LocksHeld, ScopeHeld, ClosesCleanly, Busy, PollActive
  <1>5. QED
    BY <1>2, <1>3, <1>4

\* The command of the other process, dead or alive.
LEMMA CliKeepsGInv ==
  ASSUME GInv, Cli
  PROVE  GInv'
  <1> USE LinkBounds, SessionBounds, FreeAssumption DEF Processes, Asks, CliOnly
  <1>0. /\ cli \in CliStates /\ asked \in Nat /\ opened \subseteq Processes /\ LinkTypeOK
        /\ flock = "gui" => serial # 0 \/ job.pc \in {"serial", "unlock"}
    BY DEF GInv, TypeOK, LinkTypeOK, PortHeld
  <1>9. 0 \in 0 .. MaxAsks
    OBVIOUS
  <1>1. UNCHANGED <<session, job, poll, capture>>
    BY DEF Cli, CliStart, CliOpen, CliAsks, CliReads, CliCloses, CliKilled
  <1>2. serial' = serial
    BY <1>1 DEF session
  <1>3. CASE CliStart
    <2>1. /\ UNCHANGED link /\ cli.pc = "idle" /\ cli.runs < MaxCli
          /\ cli' = [pc |-> "lockfile", ask |-> 0, runs |-> cli.runs + 1]
      BY <1>3 DEF CliStart
    <2>2. cli' \in CliStates
      BY <1>0, <2>1 DEF CliStates
    <2>3. PortHeld'
      BY <1>1, <1>2, <2>1 DEF GInv, PortHeld, link
    <2>4. LinkTypeOK' /\ asked' = asked /\ opened' = opened /\ flock' = flock
      BY <1>0, <2>1 DEF link, LinkTypeOK
    <2>5. QED
      BY <1>1, <2>2, <2>3, <2>4, OthersKeepGInv
  <1>4. CASE CliOpen \/ CliReads \/ CliCloses
    <2>1. PICK pc \in {"serial", "idle", "write", "unlock", "close"} :
            \/ /\ cli' = [cli EXCEPT !.pc = pc, !.ask = 0]
               /\ \/ cli.pc = "lockfile" /\ TakeFlock("cli") /\ pc = "serial"
                  \/ cli.pc = "lockfile" /\ flock # Free /\ UNCHANGED link /\ pc = "idle"
                  \/ cli.pc = "serial" /\ OpenSerial("cli") /\ pc = "write"
                  \/ cli.pc = "serial" /\ UNCHANGED link /\ pc = "unlock"
                  \/ cli.pc = "read" /\ TakeFrame(cli.ask) /\ pc = "close"
                  \/ cli.pc = "read" /\ GiveUp(cli.ask) /\ pc = "close"
                  \/ cli.pc = "close" /\ CloseSerial("cli") /\ pc = "unlock"
                  \/ cli.pc = "unlock" /\ ReleaseFlock("cli") /\ pc = "idle"
            \/ cli.pc = "read" /\ SkipText /\ UNCHANGED cli
      BY <1>4 DEF CliOpen, CliReads, CliCloses, CliGoto
    <2>2. LinkTypeOK'
      <3>1. cli.pc = "read" => cli.ask \in Asks
        BY <1>0 DEF GInv, PortHeld, LinkTypeOK
      <3>2. CASE \/ TakeFlock("cli") \/ UNCHANGED link \/ OpenSerial("cli")
                 \/ CloseSerial("cli") \/ ReleaseFlock("cli")
        BY <1>0, <3>2, PortTypes
      <3>3. CASE cli.pc = "read" /\ (TakeFrame(cli.ask) \/ GiveUp(cli.ask))
        BY <1>0, <3>1, <3>3, AnswerTypes
      <3>4. CASE SkipText
        BY <1>0, <3>4, ReadTypes
      <3>5. QED
        BY <2>1, <3>2, <3>3, <3>4
    <2>3. /\ asked' = asked
          /\ \/ /\ cli.pc = "lockfile" /\ cli'.pc = "serial" /\ flock = Free /\ flock' = "cli"
                /\ opened' = opened
             \/ cli.pc = "lockfile" /\ cli'.pc = "idle" /\ flock' = flock /\ opened' = opened
             \/ /\ cli.pc = "serial" /\ cli'.pc = "write" /\ flock' = flock
                /\ opened' = opened \cup {"cli"}
             \/ cli.pc = "serial" /\ cli'.pc = "unlock" /\ flock' = flock /\ opened' = opened
             \/ cli.pc = "read" /\ cli'.pc = "close" /\ flock' = flock /\ opened' = opened
             \/ /\ cli.pc = "close" /\ cli'.pc = "unlock" /\ flock' = flock
                /\ opened' = opened \ {"cli"}
             \/ cli.pc = "unlock" /\ cli'.pc = "idle" /\ opened' = opened
                /\ flock' = IF flock = "cli" THEN Free ELSE flock
             \/ cli' = cli /\ cli.pc = "read" /\ flock' = flock /\ opened' = opened
      <3>1. CASE cli.pc = "read" /\ SkipText /\ UNCHANGED cli
        BY <3>1 DEF SkipText
      <3>2. CASE
               /\ cli' = [cli EXCEPT !.pc = pc, !.ask = 0]
               /\ \/ cli.pc = "lockfile" /\ TakeFlock("cli") /\ pc = "serial"
                  \/ cli.pc = "lockfile" /\ flock # Free /\ UNCHANGED link /\ pc = "idle"
                  \/ cli.pc = "serial" /\ OpenSerial("cli") /\ pc = "write"
                  \/ cli.pc = "serial" /\ UNCHANGED link /\ pc = "unlock"
                  \/ cli.pc = "read" /\ TakeFrame(cli.ask) /\ pc = "close"
                  \/ cli.pc = "read" /\ GiveUp(cli.ask) /\ pc = "close"
                  \/ cli.pc = "close" /\ CloseSerial("cli") /\ pc = "unlock"
                  \/ cli.pc = "unlock" /\ ReleaseFlock("cli") /\ pc = "idle"
        <4>1. cli'.pc = pc
          BY <1>0, <3>2 DEF CliStates
        <4>2. QED
          BY <3>2, <4>1
          DEF TakeFlock, OpenSerial, TakeFrame, GiveUp, CloseSerial, ReleaseFlock, SkipText, link
      <3>3. QED
        BY <2>1, <3>1, <3>2
    <2>4. cli' \in CliStates /\ (cli'.pc = "read" => cli' = cli)
      <3>1. CASE cli' = [cli EXCEPT !.pc = pc, !.ask = 0]
        <4>1. cli' \in [pc : {"idle", "lockfile", "serial", "write", "read", "close", "unlock"},
                       ask : 0 .. MaxAsks, runs : 0 .. MaxCli]
          BY <1>0, <1>9, <3>1 DEF CliStates
        <4>2. cli'.pc = pc
          BY <1>0, <3>1 DEF CliStates
        <4>3. QED
          BY <4>1, <4>2 DEF CliStates
      <3>2. QED
        BY <1>0, <2>1, <3>1
    <2>5. PortHeld'
      BY <1>0, <1>1, <1>2, <2>3, <2>4 DEF GInv, PortHeld
    <2>6. QED
      BY <1>0, <1>1, <2>2, <2>3, <2>4, <2>5, OthersKeepGInv
  <1>5. CASE CliAsks
    <2>1. /\ cli.pc = "write" /\ Send(TRUE)
          /\ cli' = [cli EXCEPT !.pc = "read", !.ask = asked']
      BY <1>5 DEF CliAsks
    <2>2. LinkTypeOK' /\ asked' = asked + 1 /\ asked' \in Asks
      <3>1. PICK kept \in BOOLEAN : Send(kept)
        BY <2>1
      <3>2. QED
        BY <1>0, <3>1, SendTypes
    <2>3. UNCHANGED <<flock, opened>>
      BY <2>1 DEF Send
    <2>4. cli' \in CliStates /\ cli'.pc = "read" /\ cli'.ask = asked'
      <3>1. asked' \in 0 .. MaxAsks
        BY <2>2
      <3>2. QED
        BY <1>0, <2>1, <3>1 DEF CliStates
    <2>5. PortHeld'
      BY <1>0, <1>1, <1>2, <2>1, <2>2, <2>3, <2>4 DEF GInv, PortHeld
    <2>6. QED
      BY <1>1, <2>2, <2>3, <2>4, <2>5, OthersKeepGInv
  <1>6. CASE CliKilled
    <2> DEFINE waiting == IF cli.pc = "read" THEN {cli.ask} ELSE {}
    <2>1. Dies("cli", waiting) /\ cli' = [cli EXCEPT !.pc = "idle", !.ask = 0]
      BY <1>6 DEF CliKilled, CliGoto
    <2>2. waiting \in SUBSET Asks
      BY <1>0 DEF GInv, PortHeld, LinkTypeOK
    <2> HIDE DEF waiting
    <2>3. LinkTypeOK'
      BY <1>0, <2>1, <2>2, DeathTypes
    <2>4. cli' \in CliStates /\ cli'.pc = "idle"
      BY <1>0, <1>9, <2>1 DEF CliStates
    <2>5. /\ asked' = asked /\ opened' = opened \ {"cli"}
          /\ flock' = IF flock = "cli" THEN Free ELSE flock
      BY <2>1 DEF Dies
    <2>6. PortHeld'
      BY <1>0, <1>1, <1>2, <2>4, <2>5 DEF GInv, PortHeld
    <2>7. QED
      BY <1>0, <1>1, <2>3, <2>4, <2>5, <2>6, OthersKeepGInv
  <1>7. QED
    BY <1>3, <1>4, <1>5, <1>6 DEF Cli

\* Nor does the controller touch it.
LEMMA ControllerKeepsGInv ==
  ASSUME GInv, Controller \/ UNCHANGED vars
  PROVE  GInv'
  <1>1. CASE Controller
    <2>1. /\ ControllerSends \/ ControllerSilent
          /\ UNCHANGED <<session, job, poll, capture, cli>>
      BY <1>1 DEF Controller
    <2>2. LinkTypeOK'
      BY <2>1, ChipTypes, LinkBounds DEF GInv, TypeOK
    <2>3. UNCHANGED <<flock, opened, asked>>
      BY <2>1 DEF ControllerSends, ControllerSilent
    <2>4. PortHeld' /\ cli' \in CliStates
      BY <2>1, <2>3 DEF GInv, TypeOK, PortHeld, session
    <2>5. QED
      BY <2>1, <2>2, <2>3, <2>4, OthersKeepGInv
  <1>2. CASE UNCHANGED vars
    <2>1. UNCHANGED <<link, session, job, poll, capture, cli>>
      BY <1>2 DEF vars
    <2>2. LinkTypeOK' /\ PortHeld' /\ cli' \in CliStates
      BY <2>1 DEF GInv, TypeOK, LinkTypeOK, PortHeld, link, session
    <2>3. QED
      BY <2>1, <2>2, OthersKeepGInv DEF link
  <1>3. QED
    BY <1>1, <1>2

\* A window that was just opened.
LEMMA InitGInv == Init => GInv
  <1> SUFFICES ASSUME Init PROVE GInv
    OBVIOUS
  <1>1. LinkTypeOK
    BY LinkBounds DEF Init, LinkInit, LinkTypeOK, Processes
  <1>2. job \in JobStates /\ poll \in PollStates /\ cli \in CliStates
    BY LinkBounds, SessionBounds DEF Init, IdleJob, IdlePoll, JobStates, PollStates, CliStates
  <1>3. spi \in BOOLEAN /\ scope \in BOOLEAN /\ husky \in BOOLEAN
    BY DEF Init
  <1>4. /\ closeRequested \in BOOLEAN /\ closing \in BOOLEAN
        /\ failures \in BOOLEAN /\ cleanStart \in BOOLEAN
    BY DEF Init
  <1>5. rows \in Seq(Asks \X Asks) /\ Len(rows) <= Traces
    BY SessionBounds DEF Init
  <1>6. TypeOK
    BY <1>1, <1>2, <1>3, <1>4, <1>5, LinkBounds, SessionBounds DEF Init, LinkInit, TypeOK
  <1>7. JobPlaces /\ RowsCounted /\ PortHeld /\ LocksHeld /\ ScopeHeld /\ ClosesCleanly
    <2>1. /\ job.pc = "idle" /\ job.kind = "none" /\ job.row = 0
          /\ poll.pc = "idle" /\ cli.pc = "idle"
          /\ opened = {} /\ flock = Free /\ rows = <<>> /\ ~ failures /\ ~ husky /\ ~ closing
      BY DEF Init, LinkInit, IdleJob, IdlePoll
    <2>2. QED
      BY <2>1, FreeAssumption
      DEF JobPlaces, RowsCounted, PortHeld, LocksHeld, ScopeHeld, ClosesCleanly
  <1>8. QED
    BY <1>6, <1>7 DEF GInv

\* Every step keeps all of it.
LEMMA NextGInv == GInv /\ [Next]_vars => GInv'
  BY QtKeepsGInv, PollKeepsGInv, TransportKeepsGInv, BridgeKeepsGInv, TransactionKeepsGInv,
     ProgramKeepsGInv, CliKeepsGInv, ControllerKeepsGInv
  DEF Next, Worker

\* So it holds in every state of the session.
LEMMA SpecGInv == Spec => []GInv
  <1>1. QED
    BY InitGInv, NextGInv, PTL DEF Spec

\* Two processes never have the port open at once, whatever is closed, killed or
\* fails to open in between; and it is with whoever believes to have it.
THEOREM PortIsExclusive == Spec => []PortHasOneOwner
  <1>1. GInv => PortHasOneOwner
    <2> SUFFICES ASSUME GInv PROVE PortHasOneOwner
      OBVIOUS
    <2>1. opened = {} \/ opened = {flock}
      BY DEF GInv, PortHeld
    <2>2. Cardinality(opened) <= 1
      <3>1. Cardinality({}) = 0 /\ Cardinality({flock}) = 1
        BY FS_EmptySet, FS_Singleton
      <3>2. QED
        BY <2>1, <3>1
    <2>3. QED
      BY <2>2 DEF GInv, PortHasOneOwner, OneProcessHasThePort
  <1>2. QED
    BY <1>1, SpecGInv, PTL

\* The window is gone only when no thread of it runs and everything it held is
\* given back.
THEOREM WindowClosesCleanly == Spec => []ClosesCleanly
  <1>1. GInv => ClosesCleanly
    BY DEF GInv
  <1>2. QED
    BY <1>1, SpecGInv, PTL

-----------------------------------------------------------------------------
(* What is on its way: the steps of the line only move or lose it, but for *)
(* a new command and a boot.                                               *)

\* Nothing new is on its way, and what was given up stays so.
Forgets ==
  /\ ToSet(due') \subseteq ToSet(due)
  /\ ToSet(rx') \subseteq ToSet(rx) \cup ToSet(due)
  /\ firmware' = firmware
  /\ \A ask \in abandoned : Answer(ask) \in OnTheWay' => ask \in abandoned'

\* The elements of the two queues, and of their tails.
LEMMA QueueSets ==
  ASSUME LinkTypeOK
  PROVE  /\ ToSet(<<>>) = {}
         /\ rx # <<>> => /\ ToSet(rx) = {Head(rx)} \cup ToSet(Tail(rx))
                         /\ Head(rx) \in Frames
         /\ due # <<>> => /\ ToSet(due) = {Head(due)} \cup ToSet(Tail(due))
                          /\ ToSet(Append(rx, Head(due))) = ToSet(rx) \cup {Head(due)}
                          /\ Head(due) \in Frames
         /\ \A frame \in Frames : /\ ToSet(Append(due, frame)) = ToSet(due) \cup {frame}
                                  /\ ToSet(<<frame>>) = {frame}
  <1>1. rx \in Seq(Frames) /\ due \in Seq(Frames) /\ <<>> \in Seq(Frames)
    BY FrameSequences
  <1>2. ASSUME NEW frame \in Frames PROVE ToSet(<<frame>>) = {frame}
    <2>1. DOMAIN <<frame>> = {1} /\ <<frame>>[1] = frame
      OBVIOUS
    <2>2. QED
      BY <2>1 DEF ToSet
  <1>3. ASSUME NEW frame \in Frames PROVE ToSet(Append(due, frame)) = ToSet(due) \cup {frame}
    BY <1>1, SetOfSequence
  <1>4. ToSet(<<>>) = {}
    BY <1>1, SetOfSequence
  <1>5. ASSUME rx # <<>>
        PROVE  ToSet(rx) = {Head(rx)} \cup ToSet(Tail(rx)) /\ Head(rx) \in Frames
    BY <1>1, <1>5, SetOfSequence
  <1>6. ASSUME due # <<>>
        PROVE  /\ ToSet(due) = {Head(due)} \cup ToSet(Tail(due)) /\ Head(due) \in Frames
               /\ ToSet(Append(rx, Head(due))) = ToSet(rx) \cup {Head(due)}
    <2>1. ToSet(due) = {Head(due)} \cup ToSet(Tail(due)) /\ Head(due) \in Frames
      BY <1>1, <1>6, SetOfSequence
    <2>2. QED
      BY <1>1, <2>1, SetOfSequence
  <1>7. QED
    BY <1>2, <1>3, <1>4, <1>5, <1>6

\* The steps on the port.
LEMMA PortForgets ==
  ASSUME LinkTypeOK, NEW p,
         \/ TakeFlock(p) \/ OpenSerial(p) \/ CloseSerial(p) \/ ReleaseFlock(p)
         \/ UNCHANGED link
  PROVE  Forgets
  <1>1. CASE TakeFlock(p) \/ ReleaseFlock(p) \/ UNCHANGED link
    <2>1. UNCHANGED <<rx, due, firmware, abandoned>>
      BY <1>1 DEF TakeFlock, ReleaseFlock, link
    <2>2. QED
      BY <2>1 DEF Forgets
  <1>2. CASE OpenSerial(p) \/ CloseSerial(p)
    <2>1. /\ rx' \in {<<>>, rx} /\ due' = due /\ firmware' = firmware
          /\ abandoned' = {ask \in abandoned : Answer(ask) \in OnTheWay'}
      BY <1>2 DEF OpenSerial, CloseSerial, StillComing
    <2>2. QED
      BY <2>1, QueueSets DEF Forgets
  <1>3. QED
    BY <1>1, <1>2

\* The death of a process, which gives up what it waited for.
LEMMA DeathForgets ==
  ASSUME LinkTypeOK, NEW p, NEW asks \in SUBSET Asks, Dies(p, asks)
  PROVE  Forgets /\ (\A ask \in asks : Answer(ask) \in OnTheWay' => ask \in abandoned')
  <1>1. /\ rx' \in {<<>>, rx} /\ due' = due /\ firmware' = firmware
        /\ abandoned' = {ask \in abandoned \cup asks : Answer(ask) \in OnTheWay'}
    BY DEF Dies, StillComing
  <1>2. QED
    BY <1>1, QueueSets DEF Forgets

\* Reading text, or all there is.
LEMMA ReadForgets ==
  ASSUME LinkTypeOK, SkipText \/ ReadAvailable \/ UNCHANGED link
  PROVE  Forgets
  <1>1. CASE SkipText \/ ReadAvailable
    <2>1. /\ rx' = <<>> \/ (rx # <<>> /\ rx' = Tail(rx))
          /\ due' = due /\ firmware' = firmware
          /\ abandoned' = {ask \in abandoned : Answer(ask) \in OnTheWay'}
      BY <1>1 DEF SkipText, ReadAvailable, StillComing
    <2>2. QED
      BY <2>1, QueueSets DEF Forgets
  <1>2. CASE UNCHANGED link
    BY <1>2 DEF Forgets, link
  <1>3. QED
    BY <1>1, <1>2

\* Taking an answer or giving it up.
LEMMA AnswerForgets ==
  ASSUME LinkTypeOK, NEW ask \in Asks, TakeFrame(ask) \/ GiveUp(ask)
  PROVE  Forgets /\ (Answer(ask) \in OnTheWay' => ask \in abandoned')
  <1>1. /\ rx' = rx \/ (rx # <<>> /\ rx' = Tail(rx))
        /\ due' = due /\ firmware' = firmware
        /\ abandoned' = {a \in abandoned \cup {ask} : Answer(a) \in OnTheWay'}
    BY DEF TakeFrame, GiveUp, StillComing
  <1>2. QED
    BY <1>1, QueueSets DEF Forgets

\* What the controller sends or does not.
LEMMA ChipForgets ==
  ASSUME LinkTypeOK, ControllerSends \/ ControllerSilent
  PROVE  Forgets
  <1>1. /\ due # <<>> /\ due' = Tail(due) /\ firmware' = firmware
        /\ rx' = rx \/ rx' = Append(rx, Head(due))
        /\ abandoned' = {ask \in abandoned : Answer(ask) \in OnTheWay'}
    BY DEF ControllerSends, ControllerSilent, StillComing
  <1>2. QED
    BY <1>1, QueueSets DEF Forgets

\* In the middle of a transaction, or of a program job after the boot of its image.
MidJob(j) ==
  \/ j.pc \in {"write", "read", "drain", "reboot", "banner"}
  \/ j.kind = "program" /\ j.pc \in {"acquire", "hold"}

\* What the steps outside transactions and program jobs leave alone.
LEMMA OtherSteps ==
  ASSUME GInv,
         \/ QtThread \/ FinishJob \/ PollThread \/ FinishPoll
         \/ ShutSerial \/ ShutLockFile \/ OpenLockFile \/ OpenDevice \/ OpenBridge
         \/ CloseBridge \/ OpenScope \/ SetUpScope \/ CloseScope \/ Release \/ WriteToClosed
  PROVE  /\ Forgets /\ cli' = cli
         /\ \/ UNCHANGED <<job, uart, serial, images, rows, failures, cleanStart>>
            \/ job.pc # "read" /\ ~ MidJob(job') /\ (UNCHANGED capture \/ rows' = <<>>)
  <1> USE DEF session, board, capture, InJob, JobLeaves
  <1>0. LinkTypeOK /\ job \in JobStates
    BY DEF GInv, TypeOK
  <1>1. CASE QtThread
    <2>1. UNCHANGED <<link, cli, capture>>
      BY <1>1 DEF QtThread, OnConnect, OnDisconnect, OnAsk, OnSend, OnScope, OnScopeOff, OnCapture,
         OnRestart, OnProgram, CloseEvent, PollTick, Run
    <2>2. Forgets
      BY <1>0, <2>1, ReadForgets
    <2>3. \/ UNCHANGED <<job, uart, serial, images>>
          \/ job.pc # "read" /\ ~ MidJob(job')
      <3>1. CASE PollTick
        BY <3>1 DEF PollTick
      <3>2. CASE CloseEvent
        BY <3>2 DEF CloseEvent, Begin, Busy, MidJob
      <3>3. CASE OnConnect \/ OnDisconnect
        BY <3>3 DEF OnConnect, OnDisconnect, Run, Begin, Busy, MidJob
      <3>4. CASE OnProgram
        BY <3>4 DEF OnProgram, Begin, Busy, MidJob
      <3>5. CASE OnAsk \/ OnSend \/ OnScope \/ OnScopeOff \/ OnCapture \/ OnRestart
        BY <3>5
        DEF OnAsk, OnSend, OnScope, OnScopeOff, OnCapture, OnRestart, Run, Begin, Busy, MidJob
      <3>6. QED
        BY <1>1, <3>1, <3>2, <3>3, <3>4, <3>5 DEF QtThread
    <2>4. QED
      BY <2>1, <2>2, <2>3
  <1>2. CASE FinishJob \/ FinishPoll \/ PollTry
    <2>1. UNCHANGED <<link, cli, capture, uart, serial, images>>
      BY <1>2 DEF FinishJob, FinishPoll, PollTry
    <2>2. Forgets
      BY <1>0, <2>1, ReadForgets
    <2>3. job' = job \/ (job.pc # "read" /\ ~ MidJob(job'))
      BY <1>2 DEF FinishJob, FinishPoll, PollTry, IdleJob, MidJob
    <2>4. QED
      BY <2>1, <2>2, <2>3
  <1>3. CASE PollReads
    <2>1. UNCHANGED <<cli, job, capture, uart, serial, images>> /\ (ReadAvailable \/ UNCHANGED link)
      BY <1>3 DEF PollReads
    <2>2. Forgets
      BY <1>0, <2>1, ReadForgets
    <2>3. QED
      BY <2>1, <2>2
  <1>4. CASE ShutSerial \/ ShutLockFile \/ OpenLockFile \/ OpenDevice
    <2>1. UNCHANGED <<cli, capture>>
      BY <1>4 DEF ShutSerial, ShutLockFile, OpenLockFile, OpenDevice
    <2>2. Forgets
      <3>1. PICK p \in Processes :
              TakeFlock(p) \/ OpenSerial(p) \/ CloseSerial(p) \/ ReleaseFlock(p) \/ UNCHANGED link
        BY <1>4 DEF ShutSerial, ShutLockFile, OpenLockFile, OpenDevice, Processes
      <3>2. QED
        BY <1>0, <3>1, PortForgets
    <2>3. job.pc # "read" /\ ~ MidJob(job')
      <3>1. CASE ShutSerial
        BY <1>0, <3>1 DEF ShutSerial, JobStates, MidJob
      <3>2. CASE ShutLockFile
        BY <1>0, <3>2 DEF ShutLockFile, JobStates, MidJob
      <3>3. CASE OpenLockFile
        BY <1>0, <3>3 DEF OpenLockFile, Goto, JobStates, MidJob
      <3>4. CASE OpenDevice
        BY <1>0, <3>4 DEF OpenDevice, Goto, JobStates, MidJob
      <3>5. QED
        BY <1>4, <3>1, <3>2, <3>3, <3>4
    <2>4. QED
      BY <2>1, <2>2, <2>3
  <1>5. CASE OpenBridge \/ CloseBridge \/ OpenScope \/ SetUpScope \/ CloseScope
    <2>1. UNCHANGED <<link, cli, capture>>
      BY <1>5 DEF OpenBridge, CloseBridge, OpenScope, SetUpScope, CloseScope
    <2>2. Forgets
      BY <1>0, <2>1, ReadForgets
    <2>3. job.pc # "read"
      BY <1>5 DEF OpenBridge, CloseBridge, OpenScope, SetUpScope, CloseScope
    <2>4. job'.pc \in {"done", "cw", "cw_setup", "cw_off"}
      <3>1. CASE OpenBridge \/ CloseScope
        BY <1>0, <3>1 DEF OpenBridge, CloseScope, Goto, JobStates
      <3>2. CASE CloseBridge
        BY <1>0, <3>2 DEF CloseBridge, Goto, JobStates
      <3>3. CASE OpenScope
        <4>1. \/ job' = [job EXCEPT !.pc = "cw_setup"]
              \/ job' = [job EXCEPT !.pc = "done", !.failed = (job.kind = "scope")]
          BY <3>3 DEF OpenScope, Goto
        <4>2. QED
          BY <1>0, <4>1 DEF JobStates
      <3>4. CASE SetUpScope
        <4>1. \/ job' = [job EXCEPT !.pc = "done"]
              \/ job' = [job EXCEPT !.pc = "done", !.failed = (job.kind = "scope")]
          BY <3>4 DEF SetUpScope, Goto
        <4>2. QED
          BY <1>0, <4>1 DEF JobStates
      <3>5. QED
        BY <1>5, <3>1, <3>2, <3>3, <3>4
    <2>5. QED
      BY <2>1, <2>2, <2>3, <2>4 DEF MidJob
  <1>6. CASE Release \/ WriteToClosed
    <2>1. UNCHANGED <<link, cli>> /\ (UNCHANGED capture \/ rows' = <<>>)
      BY <1>6 DEF Release, WriteToClosed
    <2>2. Forgets
      BY <1>0, <2>1, ReadForgets
    <2>3. job.pc # "read" /\ job'.pc \in {"done", "release"}
      <3>1. CASE Release
        BY <1>0, <3>1 DEF Release, JobStates
      <3>2. CASE WriteToClosed
        BY <1>0, <3>2 DEF WriteToClosed, JobStates
      <3>3. QED
        BY <1>6, <3>1, <3>2
    <2>4. QED
      BY <2>1, <2>2, <2>3 DEF MidJob
  <1>7. QED
    BY <1>1, <1>2, <1>3, <1>4, <1>5, <1>6 DEF PollThread

\* The other process, which gives up what it waits for when it goes on.
LEMMA CliForgets ==
  ASSUME GInv, Cli, ~ CliAsks
  PROVE  /\ Forgets /\ asked' = asked
         /\ cli.pc = "read" /\ cli' # cli /\ Answer(cli.ask) \in OnTheWay' => cli.ask \in abandoned'
         /\ cli'.pc = "read" => cli' = cli
  <1>0. LinkTypeOK /\ cli \in CliStates /\ (cli.pc = "read" => cli.ask \in Asks) /\ asked \in Nat
    BY LinkBounds DEF GInv, TypeOK, LinkTypeOK, PortHeld, Asks
  <1>1. CASE CliStart
    <2>1. UNCHANGED link /\ cli'.pc = "lockfile" /\ cli.pc = "idle"
      BY <1>1 DEF CliStart
    <2>2. Forgets
      BY <1>0, <2>1, ReadForgets
    <2>3. QED
      BY <2>1, <2>2 DEF link
  <1>2. CASE CliOpen \/ CliCloses
    <2>1. PICK p \in Processes :
            TakeFlock(p) \/ OpenSerial(p) \/ CloseSerial(p) \/ ReleaseFlock(p) \/ UNCHANGED link
      BY <1>2 DEF CliOpen, CliCloses, Processes
    <2>2. Forgets
      BY <1>0, <2>1, PortForgets
    <2>3. asked' = asked
      BY <2>1 DEF TakeFlock, OpenSerial, CloseSerial, ReleaseFlock, link
    <2>4. cli.pc # "read"
      BY <1>2 DEF CliOpen, CliCloses
    <2>5. cli'.pc # "read"
      BY <1>0, <1>2 DEF CliOpen, CliCloses, CliGoto, CliStates
    <2>6. QED
      BY <2>2, <2>3, <2>4, <2>5
  <1>3. CASE CliReads
    <2>1. CASE SkipText /\ UNCHANGED cli
      BY <1>0, <2>1, ReadForgets DEF SkipText
    <2>2. CASE (TakeFrame(cli.ask) \/ GiveUp(cli.ask)) /\ CliGoto("close")
      <3>1. cli.pc = "read" /\ cli'.pc = "close"
        BY <1>0, <1>3, <2>2 DEF CliReads, CliGoto, CliStates
      <3>2. Forgets /\ (Answer(cli.ask) \in OnTheWay' => cli.ask \in abandoned')
        BY <1>0, <2>2, <3>1, AnswerForgets
      <3>3. asked' = asked
        BY <2>2 DEF TakeFrame, GiveUp
      <3>4. QED
        BY <3>1, <3>2, <3>3
    <2>3. QED
      BY <1>3, <2>1, <2>2 DEF CliReads
  <1>4. CASE CliKilled
    <2> DEFINE waiting == IF cli.pc = "read" THEN {cli.ask} ELSE {}
    <2>1. Dies("cli", waiting) /\ cli' = [cli EXCEPT !.pc = "idle", !.ask = 0]
      BY <1>4 DEF CliKilled, CliGoto
    <2>2. waiting \in SUBSET Asks /\ (cli.pc = "read" => cli.ask \in waiting)
      BY <1>0
    <2>3. cli'.pc = "idle"
      BY <1>0, <2>1 DEF CliStates
    <2> HIDE DEF waiting
    <2>4. Forgets /\ (\A ask \in waiting : Answer(ask) \in OnTheWay' => ask \in abandoned')
      BY <1>0, <2>1, <2>2, DeathForgets
    <2>5. asked' = asked
      BY <2>1 DEF Dies
    <2>6. QED
      BY <2>2, <2>3, <2>4, <2>5
  <1>5. QED
    BY <1>1, <1>2, <1>3, <1>4 DEF Cli

-----------------------------------------------------------------------------
(* The banner of a confirmed boot.                                         *)

BannersAre(frames, image) ==
  \A b \in 1 .. MaxLoads : Banner(b) \in ToSet(frames) => b = image

\* From the boot of the loaded image on, only that image can announce itself.
OnlyTheLoadedBoots ==
  job.kind = "program" /\ job.pc \in {"acquire", "drain", "hold", "reboot", "banner"} =>
    /\ firmware = images
    /\ BannersAre(due, images)
    /\ job.pc \in {"hold", "reboot", "banner"} /\ serial = uart => BannersAre(rx, images)

\* While the job stays where it is, what the line forgets says nothing new.
LEMMA ForgettingKeepsBanners ==
  ASSUME Forgets, OnlyTheLoadedBoots, UNCHANGED <<job, uart, serial, images>>
  PROVE  OnlyTheLoadedBoots'
  BY DEF Forgets, OnlyTheLoadedBoots, BannersAre, Banner

\* Every step keeps the loaded image the only one to announce itself.
LEMMA NextBanners ==
  ASSUME GInv, OnlyTheLoadedBoots, [Next]_vars
  PROVE  OnlyTheLoadedBoots'
  <1> USE DEF InJob
  <1>0. /\ LinkTypeOK /\ job \in JobStates /\ asked \in Nat
        /\ images \in 1 .. MaxLoads /\ MaxLoads \in Nat
    BY LinkBounds DEF GInv, TypeOK, LinkTypeOK
  <1>1. CASE \/ QtThread \/ FinishJob \/ PollThread \/ FinishPoll
             \/ ShutSerial \/ ShutLockFile \/ OpenLockFile \/ OpenDevice \/ OpenBridge
             \/ CloseBridge \/ OpenScope \/ SetUpScope \/ CloseScope \/ Release \/ WriteToClosed
    <2>1. /\ Forgets
          /\ UNCHANGED <<job, uart, serial, images>> \/ ~ MidJob(job')
      BY <1>1, OtherSteps
    <2>2. CASE UNCHANGED <<job, uart, serial, images>>
      BY <2>1, <2>2, ForgettingKeepsBanners
    <2>3. CASE ~ MidJob(job')
      BY <2>3 DEF MidJob, OnlyTheLoadedBoots
    <2>4. QED
      BY <2>1, <2>2, <2>3
  <1>2. CASE Acquire
    <2>1. /\ job.pc = "acquire"
          /\ job' = [job EXCEPT !.pc = IF job.kind = "program" THEN "drain" ELSE "write"]
          /\ UNCHANGED <<link, uart, serial, images>>
      BY <1>2 DEF Acquire, Goto, JobLeaves
    <2>2. job'.kind = job.kind /\ job'.pc \in {"drain", "write"}
      BY <1>0, <2>1 DEF JobStates
    <2>3. QED
      BY <2>1, <2>2 DEF OnlyTheLoadedBoots, BannersAre, link
  <1>3. CASE Write \/ ArmFails \/ ReadFrame \/ ReadTimesOut
    <2>1. job.pc \in {"write", "read"}
      BY <1>3 DEF Write, ArmFails, ReadFrame, ReadTimesOut
    <2>2. job.kind # "program"
      BY <2>1 DEF GInv, JobPlaces
    <2>3. job'.kind = job.kind
      <3>1. CASE Write
        BY <1>0, <3>1 DEF Write, JobStates
      <3>2. CASE ArmFails \/ ReadFrame \/ ReadTimesOut
        BY <1>0, <3>2 DEF ArmFails, ReadFrame, ReadTimesOut, RowFails, NextRow, JobStates
      <3>3. QED
        BY <1>3, <3>1, <3>2
    <2>4. QED
      BY <2>2, <2>3 DEF OnlyTheLoadedBoots
  <1>4. CASE ReadText
    <2>1. SkipText /\ UNCHANGED <<job, uart, serial, images>>
      BY <1>4 DEF ReadText, session
    <2>2. Forgets
      BY <1>0, <2>1, ReadForgets
    <2>3. QED
      BY <2>1, <2>2, ForgettingKeepsBanners
  <1>5. CASE Load
    <2>1. job'.pc \in {"boot", "done"}
      BY <1>0, <1>5 DEF Load, Goto, JobStates
    <2>2. QED
      BY <2>1 DEF OnlyTheLoadedBoots
  <1>6. CASE BootLoaded
    <2>1. /\ firmware' = images /\ due' = <<Banner(images)>> /\ UNCHANGED <<uart, serial, images>>
      BY <1>0, <1>6 DEF BootLoaded, Boot, session
    <2>2. job'.pc \in {"done", "acquire"}
      BY <1>0, <1>6 DEF BootLoaded, Goto, JobStates
    <2>3. Banner(images) \in Frames
      BY <1>0 DEF Frames
    <2>4. BannersAre(due, images)'
      BY <1>0, <2>1, <2>3, QueueSets DEF BannersAre, Banner
    <2>5. QED
      BY <2>1, <2>2, <2>4 DEF OnlyTheLoadedBoots
  <1>7. CASE Drain
    <2>1. /\ job.pc = "drain" /\ Goto("hold") /\ UNCHANGED <<uart, serial, images, firmware, due>>
          /\ serial = uart => rx' = <<>>
      BY <1>7 DEF Drain, Drained, ReadAvailable, session, link
    <2>2. job'.kind = job.kind /\ job'.pc = "hold"
      BY <1>0, <2>1 DEF Goto, JobStates
    <2>3. ToSet(<<>>) = {}
      BY <1>0, QueueSets
    <2>4. QED
      BY <2>1, <2>2, <2>3 DEF OnlyTheLoadedBoots, BannersAre
  <1>8. CASE HoldAgain
    <2>1. /\ job.pc = "hold" /\ Goto("reboot") /\ UNCHANGED <<uart, serial, images, rx>>
          /\ firmware' = firmware /\ due' = <<>>
      BY <1>8 DEF HoldAgain, Hold, session
    <2>2. job'.kind = job.kind /\ job'.pc = "reboot"
      BY <1>0, <2>1 DEF Goto, JobStates
    <2>3. ToSet(<<>>) = {}
      BY <1>0, QueueSets
    <2>4. QED
      BY <2>1, <2>2, <2>3 DEF OnlyTheLoadedBoots, BannersAre
  <1>9. CASE BootAgain
    <2>1. /\ job.pc = "reboot" /\ UNCHANGED <<uart, serial, images, rx>>
          /\ firmware' = firmware
          /\ due' = IF firmware # 0 THEN <<Banner(firmware)>> ELSE <<>>
      BY <1>9 DEF BootAgain, Boot, session
    <2>2. job'.kind = job.kind /\ job'.pc \in {"banner", "done"}
      BY <1>0, <1>9 DEF BootAgain, Goto, JobStates
    <2>3. ASSUME firmware = images PROVE BannersAre(due, images)'
      <3>1. due' = <<Banner(images)>> /\ Banner(images) \in Frames
        BY <1>0, <2>1, <2>3 DEF Frames
      <3>2. QED
        BY <1>0, <2>1, <3>1, QueueSets DEF BannersAre, Banner
    <2>4. QED
      BY <2>1, <2>2, <2>3 DEF OnlyTheLoadedBoots, BannersAre
  <1>10. CASE AwaitBanner
    <2>1. /\ job.pc = "banner" /\ (Goto("release") \/ UNCHANGED job)
          /\ UNCHANGED <<uart, serial, images>> /\ (ReadAvailable \/ UNCHANGED link)
      BY <1>10 DEF AwaitBanner, session
    <2>2. Forgets
      BY <1>0, <2>1, ReadForgets
    <2>3. job' = job \/ job'.pc = "release"
      BY <1>0, <2>1 DEF Goto, JobStates
    <2>4. QED
      BY <2>1, <2>2, <2>3, ForgettingKeepsBanners DEF OnlyTheLoadedBoots
  <1>11. CASE Cli
    <2>1. UNCHANGED <<job, uart, serial, images>>
      BY <1>11 DEF Cli, CliStart, CliOpen, CliAsks, CliReads, CliCloses, CliKilled, CliOnly, session
    <2>2. CASE CliAsks
      <3>1. Send(TRUE)
        BY <2>2 DEF CliAsks
      <3>2. /\ UNCHANGED <<rx, firmware>> /\ asked' \in Asks
            /\ due' = IF running THEN Append(due, Answer(asked')) ELSE due
        BY <1>0, <3>1, LinkBounds DEF Send, Asks
      <3>3. Answer(asked') \in Frames
        BY <3>2 DEF Frames
      <3>4. ToSet(due') \subseteq ToSet(due) \cup {Answer(asked')}
        BY <1>0, <3>2, <3>3, QueueSets
      <3>5. \A b \in 1 .. MaxLoads : Banner(b) \in ToSet(due') => Banner(b) \in ToSet(due)
        BY <3>4 DEF Banner, Answer
      <3>6. QED
        BY <2>1, <3>2, <3>5 DEF OnlyTheLoadedBoots, BannersAre
    <2>3. CASE ~ CliAsks
      BY <1>11, <2>1, <2>3, CliForgets, ForgettingKeepsBanners
    <2>4. QED
      BY <2>2, <2>3
  <1>12. CASE Controller
    <2>1. UNCHANGED <<job, uart, serial, images>> /\ (ControllerSends \/ ControllerSilent)
      BY <1>12 DEF Controller, session
    <2>2. QED
      BY <1>0, <2>1, ChipForgets, ForgettingKeepsBanners
  <1>13. CASE UNCHANGED vars
    <2>1. UNCHANGED <<job, uart, serial, images>> /\ UNCHANGED link
      BY <1>13 DEF vars, session
    <2>2. QED
      BY <1>0, <2>1, ReadForgets, ForgettingKeepsBanners
  <1>14. QED
    BY <1>1, <1>2, <1>3, <1>4, <1>5, <1>6, <1>7, <1>8, <1>9, <1>10, <1>11, <1>12, <1>13
    DEF Next, Worker

\* When verify_running reports a running chip, the banner it saw is of the image just
\* loaded, never one that an earlier boot left in the buffer.
THEOREM ConfirmedBootIsOfTheImage == Spec => []ConfirmedBootIsNew
  <1>1. Init => OnlyTheLoadedBoots
    BY DEF Init, IdleJob, OnlyTheLoadedBoots
  <1>2. GInv /\ OnlyTheLoadedBoots /\ [Next]_vars => OnlyTheLoadedBoots'
    BY NextBanners
  <1>3. GInv /\ OnlyTheLoadedBoots => ConfirmedBootIsNew
    BY DEF GInv, JobPlaces, OnlyTheLoadedBoots, BannersAre, ConfirmedBootIsNew, InJob
  <1>4. QED
    BY <1>1, <1>2, <1>3, SpecGInv, PTL DEF Spec

-----------------------------------------------------------------------------
(* The answers, and who waits for them.                                    *)

JobWaitsFor(ask) == job.pc = "read" /\ job.ask = ask
CliWaitsFor(ask) == cli.pc = "read" /\ cli.ask = ask

\* Somebody waits for every answer that is on its way, or has given up on it.
AnswersOwed ==
  \A ask \in Asks :
    Answer(ask) \in OnTheWay => ask \in abandoned \/ JobWaitsFor(ask) \/ CliWaitsFor(ask)

\* No answer is new on its way, and one that was given up stays so.
NoNewAnswer ==
  \A ask \in Asks :
    Answer(ask) \in OnTheWay' =>
      Answer(ask) \in OnTheWay /\ (ask \in abandoned => ask \in abandoned')

\* Who stops to wait for an answer gives it up.
NobodyForgets ==
  \A ask \in Asks :
    Answer(ask) \in OnTheWay' =>
      /\ JobWaitsFor(ask) => (job'.pc = "read" /\ job'.ask = ask) \/ ask \in abandoned'
      /\ CliWaitsFor(ask) => (cli'.pc = "read" /\ cli'.ask = ask) \/ ask \in abandoned'

\* A line that only forgets brings no answer.
LEMMA ForgettingIsNoNewAnswer == ASSUME Forgets PROVE NoNewAnswer
  BY DEF Forgets, NoNewAnswer, OnTheWay

\* Nor is there one after a reset.
LEMMA ResetsAnswerNothing ==
  ASSUME LinkTypeOK, NEW image \in 0 .. MaxLoads, Hold(image) \/ Boot(image)
  PROVE  NoNewAnswer /\ rx' = rx
  <1>1. /\ due' = <<>> \/ (image # 0 /\ due' = <<Banner(image)>>)
        /\ abandoned' = {ask \in abandoned : Answer(ask) \in OnTheWay'}
        /\ rx' = rx
    BY DEF Hold, Boot, StillComing
  <1>2. image # 0 => Banner(image) \in Frames
    BY LinkBounds DEF Frames
  <1>3. \A ask \in Asks : Answer(ask) \notin ToSet(due')
    <2>1. CASE due' = <<>>
      BY <2>1, QueueSets
    <2>2. CASE image # 0 /\ due' = <<Banner(image)>>
      <3>1. ToSet(due') = {Banner(image)}
        BY <1>2, <2>2, QueueSets
      <3>2. QED
        BY <3>1 DEF Answer, Banner
    <2>3. QED
      BY <1>1, <2>1, <2>2
  <1>4. QED
    BY <1>1, <1>3 DEF NoNewAnswer, OnTheWay

\* Every step that sends no command.
LEMMA StepsOwe ==
  ASSUME GInv, [Next]_vars, ~ Write, ~ CliAsks
  PROVE  NoNewAnswer /\ NobodyForgets
  <1> USE DEF InJob
  <1>0. LinkTypeOK /\ job \in JobStates /\ (job.pc = "read" => job.ask \in Asks)
    BY LinkBounds DEF GInv, TypeOK, LinkTypeOK, JobPlaces, Asks
  <1>1. CASE \/ QtThread \/ FinishJob \/ PollThread \/ FinishPoll
             \/ ShutSerial \/ ShutLockFile \/ OpenLockFile \/ OpenDevice \/ OpenBridge
             \/ CloseBridge \/ OpenScope \/ SetUpScope \/ CloseScope \/ Release \/ WriteToClosed
    <2>1. Forgets /\ cli' = cli /\ (job' = job \/ job.pc # "read")
      BY <1>1, OtherSteps
    <2>2. QED
      BY <2>1, ForgettingIsNoNewAnswer DEF NobodyForgets, JobWaitsFor, CliWaitsFor
  <1>2. CASE Acquire \/ ArmFails
    <2>1. UNCHANGED <<link, cli>> /\ job.pc # "read"
      BY <1>2 DEF Acquire, JobLeaves, ArmFails
    <2>2. Forgets
      BY <1>0, <2>1, ReadForgets
    <2>3. QED
      BY <2>1, <2>2, ForgettingIsNoNewAnswer DEF NobodyForgets, JobWaitsFor, CliWaitsFor
  <1>3. CASE ReadFrame \/ ReadTimesOut
    <2>1. job.pc = "read" /\ cli' = cli /\ (TakeFrame(job.ask) \/ GiveUp(job.ask))
      BY <1>3 DEF ReadFrame, ReadTimesOut
    <2>2. Forgets /\ (Answer(job.ask) \in OnTheWay' => job.ask \in abandoned')
      BY <1>0, <2>1, AnswerForgets
    <2>3. QED
      BY <2>1, <2>2, ForgettingIsNoNewAnswer DEF NobodyForgets, JobWaitsFor, CliWaitsFor
  <1>4. CASE ReadText \/ UNCHANGED vars
    <2>1. UNCHANGED <<job, cli>> /\ (SkipText \/ UNCHANGED link)
      BY <1>4 DEF ReadText, vars
    <2>2. Forgets
      BY <1>0, <2>1, ReadForgets
    <2>3. QED
      BY <2>1, <2>2, ForgettingIsNoNewAnswer DEF NobodyForgets, JobWaitsFor, CliWaitsFor
  <1>5. CASE Load \/ BootLoaded \/ HoldAgain \/ BootAgain
    <2>1. job.pc # "read" /\ cli' = cli
      BY <1>5 DEF Load, BootLoaded, HoldAgain, BootAgain
    <2>2. images \in 0 .. MaxLoads /\ firmware \in 0 .. MaxLoads /\ 0 \in 0 .. MaxLoads
      BY LinkBounds DEF GInv, TypeOK, LinkTypeOK
    <2>3. PICK image \in 0 .. MaxLoads : Hold(image) \/ Boot(image)
      BY <1>5, <2>2 DEF Load, BootLoaded, HoldAgain, BootAgain
    <2>4. NoNewAnswer
      BY <1>0, <2>3, ResetsAnswerNothing
    <2>5. QED
      BY <2>1, <2>4 DEF NobodyForgets, JobWaitsFor, CliWaitsFor
  <1>6. CASE Drain \/ AwaitBanner
    <2>1. job.pc # "read" /\ cli' = cli /\ (ReadAvailable \/ UNCHANGED link)
      BY <1>6 DEF Drain, Drained, AwaitBanner
    <2>2. Forgets
      BY <1>0, <2>1, ReadForgets
    <2>3. QED
      BY <2>1, <2>2, ForgettingIsNoNewAnswer DEF NobodyForgets, JobWaitsFor, CliWaitsFor
  <1>7. CASE Cli
    <2>1. job' = job
      BY <1>7 DEF Cli, CliStart, CliOpen, CliAsks, CliReads, CliCloses, CliKilled, CliOnly
    <2>2. /\ Forgets
          /\ cli.pc = "read" /\ cli' # cli /\ Answer(cli.ask) \in OnTheWay'
             => cli.ask \in abandoned'
      BY <1>7, CliForgets
    <2>3. QED
      BY <2>1, <2>2, ForgettingIsNoNewAnswer DEF NobodyForgets, JobWaitsFor, CliWaitsFor
  <1>8. CASE Controller
    <2>1. UNCHANGED <<job, cli>> /\ (ControllerSends \/ ControllerSilent)
      BY <1>8 DEF Controller
    <2>2. Forgets
      BY <1>0, <2>1, ChipForgets
    <2>3. QED
      BY <2>1, <2>2, ForgettingIsNoNewAnswer DEF NobodyForgets, JobWaitsFor, CliWaitsFor
  <1>9. QED
    BY <1>1, <1>2, <1>3, <1>4, <1>5, <1>6, <1>7, <1>8 DEF Next, Worker

\* A command is the only one that makes an answer come, and its sender waits or has
\* given up at once.
LEMMA NextOwed ==
  ASSUME GInv, AnswersOwed, [Next]_vars
  PROVE  AnswersOwed'
  <1> USE DEF InJob
  <1>0. LinkTypeOK /\ job \in JobStates /\ cli \in CliStates
    BY DEF GInv, TypeOK
  <1>1. CASE ~ Write /\ ~ CliAsks
    <2>1. NoNewAnswer /\ NobodyForgets
      BY <1>1, StepsOwe
    <2>2. SUFFICES ASSUME NEW ask \in Asks, Answer(ask) \in OnTheWay'
                   PROVE  ask \in abandoned' \/ JobWaitsFor(ask)' \/ CliWaitsFor(ask)'
      BY DEF AnswersOwed
    <2>3. Answer(ask) \in OnTheWay
      BY <2>1, <2>2 DEF NoNewAnswer
    <2>4. CASE ask \in abandoned
      BY <2>1, <2>2, <2>4 DEF NoNewAnswer
    <2>5. CASE JobWaitsFor(ask)
      BY <2>1, <2>2, <2>5 DEF NobodyForgets, JobWaitsFor
    <2>6. CASE CliWaitsFor(ask)
      BY <2>1, <2>2, <2>6 DEF NobodyForgets, CliWaitsFor
    <2>7. QED
      BY <2>3, <2>4, <2>5, <2>6 DEF AnswersOwed
  <1>2. CASE Write \/ CliAsks
    <2>1. PICK kept \in BOOLEAN :
            /\ Send(kept)
            /\ kept => \/ job'.pc = "read" /\ job'.ask = asked'
                       \/ cli'.pc = "read" /\ cli'.ask = asked'
      <3>1. CASE Write /\ job.kind = "send"
        <4>1. Send(FALSE)
          BY <3>1 DEF Write
        <4>2. QED
          BY <4>1
      <3>2. CASE Write /\ job.kind # "send"
        <4>1. Send(TRUE)
          BY <3>2 DEF Write
        <4>2. job' = [job EXCEPT !.pc = "read", !.ask = asked']
          BY <3>2 DEF Write
        <4>3. job'.pc = "read" /\ job'.ask = asked'
          BY <1>0, <4>2 DEF JobStates
        <4>4. QED
          BY <4>1, <4>3
      <3>3. CASE CliAsks
        <4>1. Send(TRUE) /\ cli' = [cli EXCEPT !.pc = "read", !.ask = asked']
          BY <3>3 DEF CliAsks
        <4>2. cli'.pc = "read" /\ cli'.ask = asked'
          BY <1>0, <4>1 DEF CliStates
        <4>3. QED
          BY <4>1, <4>2
      <3>4. QED
        BY <1>2, <3>1, <3>2, <3>3
    <2>2. job.pc # "read" /\ (cli' = cli \/ (cli.pc # "read" /\ job' = job))
      BY <1>2 DEF Write, CliAsks, CliOnly, GInv, PortHeld, JobPlaces, TypeOK
    <2>3. \A ask : ~ JobWaitsFor(ask) /\ (CliWaitsFor(ask) => CliWaitsFor(ask)')
      BY <2>2 DEF JobWaitsFor, CliWaitsFor
    <2>4. asked' \in Asks /\ rx' = rx
      BY <1>0, <2>1, SendTypes DEF Send
    <2>5. Answer(asked') \in Frames
      BY <2>4 DEF Frames
    <2>6. OnTheWay' \subseteq OnTheWay \cup {Answer(asked')}
      <3>1. due' = due \/ due' = Append(due, Answer(asked'))
        BY <2>1 DEF Send
      <3>2. ToSet(due') \subseteq ToSet(due) \cup {Answer(asked')}
        BY <1>0, <2>5, <3>1, QueueSets
      <3>3. QED
        BY <2>4, <3>2 DEF OnTheWay
    <2>7. abandoned' = {ask \in (IF kept THEN abandoned ELSE abandoned \cup {asked'}) :
                           Answer(ask) \in OnTheWay'}
      BY <2>1 DEF Send, StillComing
    <2>8. ASSUME NEW ask \in Asks, Answer(ask) \in OnTheWay'
          PROVE  ask \in abandoned' \/ JobWaitsFor(ask)' \/ CliWaitsFor(ask)'
      <3>1. CASE ask = asked'
        BY <2>1, <2>7, <2>8, <3>1 DEF JobWaitsFor, CliWaitsFor
      <3>2. CASE ask # asked'
        <4>1. Answer(ask) \in OnTheWay
          BY <2>6, <2>8, <3>2 DEF Answer
        <4>2. ask \in abandoned \/ CliWaitsFor(ask)
          BY <2>3, <4>1 DEF AnswersOwed
        <4>3. QED
          BY <2>3, <2>7, <2>8, <4>2
      <3>3. QED
        BY <3>1, <3>2
    <2>9. QED
      BY <2>8 DEF AnswersOwed
  <1>3. QED
    BY <1>1, <1>2

\* No answer leaves the buffer.
AnswersStay == \A ask \in Asks : Answer(ask) \in ToSet(rx) => Answer(ask) \in ToSet(rx')

\* Text that is skipped and frames that come in leave the answers where they are.
LEMMA QuietSteps ==
  ASSUME LinkTypeOK, rx' = rx \/ SkipText \/ ControllerSends
  PROVE  AnswersStay
  <1>1. CASE rx' = rx
    BY <1>1 DEF AnswersStay
  <1>2. CASE SkipText
    <2>1. rx # <<>> /\ Head(rx)[1] = "banner" /\ rx' = Tail(rx)
      BY <1>2 DEF SkipText
    <2>2. \A ask \in Asks : Answer(ask) # Head(rx)
      BY <2>1 DEF Answer
    <2>3. QED
      BY <2>1, <2>2, QueueSets DEF AnswersStay
  <1>3. CASE ControllerSends
    <2>1. due # <<>> /\ (rx' = rx \/ rx' = Append(rx, Head(due)))
      BY <1>3 DEF ControllerSends
    <2>2. QED
      BY <2>1, QueueSets DEF AnswersStay
  <1>4. QED
    BY <1>1, <1>2, <1>3

\* While the worker waits, no other thread or process touches the buffer.
LEMMA JobReadsAlone ==
  ASSUME GInv, [Next]_vars, job.pc = "read", job' = job
  PROVE  AnswersStay
  <1> USE DEF InJob
  <1>0. /\ LinkTypeOK /\ job \in JobStates
        /\ serial = uart /\ uart # 0 /\ opened = {"gui"} /\ flock = "gui"
        /\ cli.pc \in {"idle", "lockfile"} /\ lock[uart] = "job"
        /\ poll.pc = "read" => lock[poll.uart] = "poll"
    BY FreeAssumption
    DEF GInv, TypeOK, LinkTypeOK, JobPlaces, PortHeld, LocksHeld, CliStates, Processes
  <1>1. CASE QtThread \/ FinishPoll \/ FinishJob \/ PollTry \/ UNCHANGED vars
    <2>1. UNCHANGED link
      BY <1>1 DEF QtThread, OnConnect, OnDisconnect, OnAsk, OnSend, OnScope, OnScopeOff, OnCapture,
         OnRestart, OnProgram, CloseEvent, PollTick, Run, FinishPoll, FinishJob, PollTry, vars
    <2>2. QED
      BY <1>0, <2>1, QuietSteps DEF link
  <1>2. CASE PollReads
    <2>1. poll.uart # uart
      BY <1>0, <1>2 DEF PollReads
    <2>2. UNCHANGED link
      BY <1>0, <1>2, <2>1 DEF PollReads
    <2>3. QED
      BY <1>0, <2>2, QuietSteps DEF link
  <1>3. CASE Worker
    <2>1. ReadFrame \/ ReadText \/ ReadTimesOut
      BY <1>3
      DEF Worker, ShutSerial, ShutLockFile, OpenLockFile, OpenDevice, OpenBridge, CloseBridge,
         OpenScope, SetUpScope, CloseScope, Acquire, Release, WriteToClosed, Write, ArmFails,
         Load, BootLoaded, Drain, HoldAgain, BootAgain, AwaitBanner
    <2>2. ~ NextRow
      <3>1. job' = job => job'.pc = "read"
        OBVIOUS
      <3>2. NextRow => job'.pc \in {"write", "release"}
        BY <1>0 DEF NextRow, JobStates
      <3>3. QED
        BY <3>1, <3>2
    <2>3. SkipText
      BY <2>1, <2>2 DEF ReadFrame, ReadText, ReadTimesOut, RowFails
    <2>4. QED
      BY <1>0, <2>3, QuietSteps
  <1>4. CASE Cli
    <2>1. rx' = rx
      <3>1. CASE CliStart \/ CliOpen
        BY <1>0, <3>1 DEF CliStart, CliOpen, TakeFlock, link
      <3>2. CASE CliKilled
        BY <1>0, <3>2 DEF CliKilled, Dies
      <3>3. QED
        BY <1>0, <1>4, <3>1, <3>2 DEF Cli, CliAsks, CliReads, CliCloses
    <2>2. QED
      BY <1>0, <2>1, QuietSteps
  <1>5. CASE Controller
    <2>1. rx' = rx \/ ControllerSends
      BY <1>5 DEF Controller, ControllerSilent
    <2>2. QED
      BY <1>0, <2>1, QuietSteps
  <1>6. QED
    BY <1>1, <1>2, <1>3, <1>4, <1>5 DEF Next, PollThread

\* So it is while the other process waits.
LEMMA CliReadsAlone ==
  ASSUME GInv, [Next]_vars, cli.pc = "read", cli' = cli
  PROVE  AnswersStay
  <1> USE DEF InJob
  <1>0. /\ LinkTypeOK /\ cli \in CliStates
        /\ serial = 0 /\ opened = {"cli"} /\ flock = "cli"
        /\ poll.pc = "read" => poll.uart # 0
        /\ job.pc \notin {"serial", "read"}
        /\ job.pc \in {"drain", "banner"} => uart # 0
    BY FreeAssumption
    DEF GInv, TypeOK, LinkTypeOK, JobPlaces, PortHeld, LocksHeld, Processes
  <1>1. CASE QtThread \/ FinishPoll \/ FinishJob \/ PollTry \/ UNCHANGED vars
    <2>1. UNCHANGED link
      BY <1>1 DEF QtThread, OnConnect, OnDisconnect, OnAsk, OnSend, OnScope, OnScopeOff, OnCapture,
         OnRestart, OnProgram, CloseEvent, PollTick, Run, FinishPoll, FinishJob, PollTry, vars
    <2>2. QED
      BY <1>0, <2>1, QuietSteps DEF link
  <1>2. CASE PollReads \/ Drain \/ AwaitBanner
    <2>1. UNCHANGED link
      BY <1>0, <1>2 DEF PollReads, Drain, Drained, AwaitBanner
    <2>2. QED
      BY <1>0, <2>1, QuietSteps DEF link
  <1>3. CASE ShutSerial
    <2>1. rx' = rx
      BY <1>0, <1>3 DEF ShutSerial, CloseSerial
    <2>2. QED
      BY <1>0, <2>1, QuietSteps
  <1>4. CASE ShutLockFile \/ OpenLockFile
    <2>1. rx' = rx
      BY <1>4 DEF ShutLockFile, OpenLockFile, TakeFlock, ReleaseFlock, link
    <2>2. QED
      BY <1>0, <2>1, QuietSteps
  <1>5. CASE \/ OpenBridge \/ CloseBridge \/ OpenScope \/ SetUpScope \/ CloseScope
             \/ Acquire \/ Release \/ WriteToClosed \/ ArmFails
    <2>1. UNCHANGED link
      BY <1>5 DEF OpenBridge, CloseBridge, OpenScope, SetUpScope, CloseScope, Acquire, Release,
         WriteToClosed, ArmFails
    <2>2. QED
      BY <1>0, <2>1, QuietSteps DEF link
  <1>6. CASE Write \/ Load \/ BootLoaded \/ HoldAgain \/ BootAgain
    <2>1. rx' = rx
      BY <1>6 DEF Write, Load, BootLoaded, HoldAgain, BootAgain, Send, Hold, Boot
    <2>2. QED
      BY <1>0, <2>1, QuietSteps
  <1>7. CASE OpenDevice \/ ReadFrame \/ ReadText \/ ReadTimesOut
    BY <1>0, <1>7 DEF OpenDevice, ReadFrame, ReadText, ReadTimesOut
  <1>8. CASE Cli
    <2>1. CliReads \/ CliKilled
      BY <1>8 DEF Cli, CliStart, CliOpen, CliAsks, CliCloses
    <2>2. ~ CliGoto("close") /\ ~ CliGoto("idle")
      BY <1>0 DEF CliGoto, CliStates
    <2>3. SkipText
      BY <2>1, <2>2 DEF CliReads, CliKilled
    <2>4. QED
      BY <1>0, <2>3, QuietSteps
  <1>9. CASE Controller
    <2>1. rx' = rx \/ ControllerSends
      BY <1>9 DEF Controller, ControllerSilent
    <2>2. QED
      BY <1>0, <2>1, QuietSteps
  <1>10. QED
    BY <1>1, <1>2, <1>3, <1>4, <1>5, <1>6, <1>7, <1>8, <1>9 DEF Next, Worker, PollThread

\* An answer leaves the buffer by the read of the command it answers, or after that
\* command's sender has given up on it.
THEOREM EveryAnswerReachesItsAsker == Spec => AnswersReachTheirAskers
  <1>1. Init => AnswersOwed
    <2>1. SUFFICES ASSUME Init PROVE ToSet(rx) = {} /\ ToSet(due) = {}
      BY DEF AnswersOwed, OnTheWay
    <2>2. rx = <<>> /\ due = <<>> /\ <<>> \in Seq(Frames)
      BY <2>1 DEF Init, LinkInit
    <2>3. QED
      BY <2>2, SetOfSequence
  <1>2. GInv /\ AnswersOwed /\ [Next]_vars => AnswersOwed'
    BY NextOwed
  <1>3. GInv /\ AnswersOwed /\ [Next]_vars =>
          [\A ask \in Asks :
             Answer(ask) \in ToSet(rx) \ ToSet(rx')
             => \/ ask \in abandoned
                \/ job.pc = "read" /\ job.ask = ask /\ job' # job
                \/ cli.pc = "read" /\ cli.ask = ask /\ cli' # cli]_vars
    <2>1. SUFFICES ASSUME GInv, AnswersOwed, [Next]_vars,
                          NEW ask \in Asks, Answer(ask) \in ToSet(rx), Answer(ask) \notin ToSet(rx')
                   PROVE  \/ ask \in abandoned
                          \/ job.pc = "read" /\ job.ask = ask /\ job' # job
                          \/ cli.pc = "read" /\ cli.ask = ask /\ cli' # cli
      OBVIOUS
    <2>2. ask \in abandoned \/ JobWaitsFor(ask) \/ CliWaitsFor(ask)
      BY <2>1 DEF AnswersOwed, OnTheWay
    <2>3. job.pc = "read" => job' # job
      BY <2>1, JobReadsAlone DEF AnswersStay
    <2>4. cli.pc = "read" => cli' # cli
      BY <2>1, CliReadsAlone DEF AnswersStay
    <2>5. QED
      BY <2>2, <2>3, <2>4 DEF JobWaitsFor, CliWaitsFor
  <1>4. QED
    BY <1>1, <1>2, <1>3, SpecGInv, PTL DEF Spec, AnswersReachTheirAskers

-----------------------------------------------------------------------------
(* The rows of a capture.                                                  *)

IsAnswer(frame) == frame[1] = "answer"

\* No frame of the sequence is an answer; at most one is, and then the one to ask.
NoAnswer(frames) == \A k \in 1 .. Len(frames) : ~ IsAnswer(frames[k])
OnlyAnswer(frames, ask) ==
  /\ \A k \in 1 .. Len(frames) : IsAnswer(frames[k]) => frames[k][2] = ask
  /\ \A k, n \in 1 .. Len(frames) : IsAnswer(frames[k]) /\ IsAnswer(frames[n]) => k = n

\* A capture that began with a clean line, and has not failed, is owed nothing but
\* the answer it waits for.
CaptureOwed ==
  job.kind = "capture" /\ cleanStart /\ ~ failures /\ serial = uart =>
    /\ job.pc = "write" => NoAnswer(rx) /\ NoAnswer(due)
    /\ job.pc = "read" => \/ OnlyAnswer(rx, job.ask) /\ NoAnswer(due)
                          \/ NoAnswer(rx) /\ OnlyAnswer(due, job.ask)

\* Taking the first frame away.
LEMMA AnswersOfTail ==
  ASSUME NEW frames \in Seq(Frames), frames # <<>>, NEW ask
  PROVE  /\ NoAnswer(frames) => NoAnswer(Tail(frames)) /\ ~ IsAnswer(Head(frames))
         /\ OnlyAnswer(frames, ask) =>
              /\ OnlyAnswer(Tail(frames), ask)
              /\ IsAnswer(Head(frames)) => Head(frames)[2] = ask /\ NoAnswer(Tail(frames))
  <1>1. /\ Len(frames) \in Nat \ {0} /\ Head(frames) = frames[1]
        /\ Len(Tail(frames)) = Len(frames) - 1
        /\ \A k \in 1 .. Len(Tail(frames)) : Tail(frames)[k] = frames[k + 1]
    BY HeadTailProperties
  <1>2. \A k \in 1 .. Len(Tail(frames)) : k + 1 \in 1 .. Len(frames) /\ k + 1 # 1
    BY <1>1
  <1>3. 1 \in 1 .. Len(frames)
    BY <1>1
  <1>4. QED
    BY <1>1, <1>2, <1>3 DEF NoAnswer, OnlyAnswer

\* Adding one at the end.
LEMMA AnswersOfAppend ==
  ASSUME NEW frames \in Seq(Frames), NEW frame \in Frames, NEW ask
  PROVE  /\ NoAnswer(frames) /\ ~ IsAnswer(frame) => NoAnswer(Append(frames, frame))
         /\ OnlyAnswer(frames, ask) /\ ~ IsAnswer(frame) => OnlyAnswer(Append(frames, frame), ask)
         /\ NoAnswer(frames) /\ (IsAnswer(frame) => frame[2] = ask)
            => OnlyAnswer(Append(frames, frame), ask)
  <1> DEFINE more == Append(frames, frame)
  <1>1. /\ Len(frames) \in Nat /\ Len(more) = Len(frames) + 1
        /\ \A k \in 1 .. Len(frames) : more[k] = frames[k]
        /\ more[Len(frames) + 1] = frame
    BY AppendProperties
  <1>2. \A k \in 1 .. Len(more) : k \in 1 .. Len(frames) \/ k = Len(frames) + 1
    BY <1>1
  <1> HIDE DEF more
  <1>3. NoAnswer(frames) /\ ~ IsAnswer(frame) => NoAnswer(more)
    BY <1>1, <1>2 DEF NoAnswer
  <1>4. OnlyAnswer(frames, ask) /\ ~ IsAnswer(frame) => OnlyAnswer(more, ask)
    BY <1>1, <1>2 DEF OnlyAnswer
  <1>5. NoAnswer(frames) /\ (IsAnswer(frame) => frame[2] = ask) => OnlyAnswer(more, ask)
    BY <1>1, <1>2 DEF NoAnswer, OnlyAnswer
  <1>6. QED
    BY <1>3, <1>4, <1>5 DEF more

\* A line without answers.
LEMMA NoAnswerIs ==
  ASSUME NEW frames \in Seq(Frames), NEW ask
  PROVE  /\ NoAnswer(<<>>) /\ OnlyAnswer(<<>>, ask)
         /\ NoAnswer(frames) => OnlyAnswer(frames, ask)
         /\ (\A a \in Asks : Answer(a) \notin ToSet(frames)) => NoAnswer(frames)
  <1>1. NoAnswer(<<>>) /\ OnlyAnswer(<<>>, ask)
    BY DEF NoAnswer, OnlyAnswer
  <1>2. NoAnswer(frames) => OnlyAnswer(frames, ask)
    BY DEF NoAnswer, OnlyAnswer
  <1>3. ASSUME \A a \in Asks : Answer(a) \notin ToSet(frames), NEW k \in 1 .. Len(frames)
        PROVE  ~ IsAnswer(frames[k])
    <2>1. frames[k] \in Frames /\ frames[k] \in ToSet(frames)
      BY <1>3 DEF ToSet
    <2>2. frames[k] \notin {Answer(a) : a \in Asks}
      BY <1>3, <2>1
    <2>3. QED
      BY <2>1, <2>2 DEF Frames, Banner, IsAnswer
  <1>4. QED
    BY <1>1, <1>2, <1>3 DEF NoAnswer

\* The line of a capture is its own: another step changes it only as the controller does.
LEMMA CaptureLine ==
  ASSUME GInv, CaptureOwed, UNCHANGED <<job, uart, serial, failures, cleanStart>>,
         \/ UNCHANGED <<rx, due>> \/ SkipText
         \/ (ControllerSends /\ opened # {}) \/ ControllerSilent
  PROVE  CaptureOwed'
  <1> USE DEF CaptureOwed
  <1>0. rx \in Seq(Frames) /\ due \in Seq(Frames)
    BY DEF GInv, TypeOK, LinkTypeOK
  <1>1. CASE UNCHANGED <<rx, due>>
    BY <1>1
  <1>2. CASE SkipText
    <2>1. rx # <<>> /\ rx' = Tail(rx) /\ due' = due
      BY <1>2 DEF SkipText
    <2>2. QED
      BY <1>0, <2>1, AnswersOfTail
  <1>3. CASE ControllerSends /\ opened # {}
    <2>1. due # <<>> /\ due' = Tail(due) /\ rx' = Append(rx, Head(due)) /\ Head(due) \in Frames
      BY <1>0, <1>3 DEF ControllerSends
    <2>2. NoAnswer(rx) /\ NoAnswer(due) => NoAnswer(rx') /\ NoAnswer(due')
      BY <1>0, <2>1, AnswersOfTail, AnswersOfAppend
    <2>3. OnlyAnswer(rx, job.ask) /\ NoAnswer(due) => OnlyAnswer(rx', job.ask) /\ NoAnswer(due')
      BY <1>0, <2>1, AnswersOfTail, AnswersOfAppend
    <2>4. ASSUME NoAnswer(rx), OnlyAnswer(due, job.ask)
          PROVE  \/ OnlyAnswer(rx', job.ask) /\ NoAnswer(due')
                 \/ NoAnswer(rx') /\ OnlyAnswer(due', job.ask)
      <3>1. CASE IsAnswer(Head(due))
        BY <1>0, <2>1, <2>4, <3>1, AnswersOfTail, AnswersOfAppend
      <3>2. CASE ~ IsAnswer(Head(due))
        BY <1>0, <2>1, <2>4, <3>2, AnswersOfTail, AnswersOfAppend
      <3>3. QED
        BY <3>1, <3>2
    <2>5. QED
      BY <2>2, <2>3, <2>4
  <1>4. CASE ControllerSilent
    <2>1. due # <<>> /\ due' = Tail(due) /\ rx' = rx
      BY <1>4 DEF ControllerSilent
    <2>2. QED
      BY <1>0, <2>1, AnswersOfTail
  <1>5. QED
    BY <1>1, <1>2, <1>3, <1>4

\* Every step keeps a clean capture clean and aligned.
LEMMA NextCapture ==
  ASSUME GInv, CaptureOwed, AlignedUntilFirstFailure, [Next]_vars
  PROVE  CaptureOwed' /\ AlignedUntilFirstFailure'
  <1> USE DEF InJob
  <1>0. /\ LinkTypeOK /\ job \in JobStates /\ cli \in CliStates
        /\ rx \in Seq(Frames) /\ due \in Seq(Frames) /\ rows \in Seq(Asks \X Asks)
    BY DEF GInv, TypeOK, LinkTypeOK
  <1>1. ASSUME job.pc \in {"write", "read"}, serial = uart
        PROVE  /\ opened = {"gui"} /\ uart # 0 /\ cli.pc \in {"idle", "lockfile"} /\ flock # Free
               /\ poll.pc = "read" => poll.uart # uart
    BY <1>1, FreeAssumption
    DEF GInv, TypeOK, LinkTypeOK, JobPlaces, PortHeld, LocksHeld, CliStates, Processes
  <1>2. ASSUME rows' = <<>> PROVE AlignedUntilFirstFailure'
    BY <1>2 DEF AlignedUntilFirstFailure
  <1>3. ASSUME UNCHANGED <<rows, failures, cleanStart>> PROVE AlignedUntilFirstFailure'
    BY <1>3 DEF AlignedUntilFirstFailure
  <1>4. CASE PollReads
    <2>1. UNCHANGED <<job, uart, serial, rows, failures, cleanStart>>
      BY <1>4 DEF PollReads, capture
    <2>2. job.pc \in {"write", "read"} /\ serial = uart => UNCHANGED <<rx, due>>
      BY <1>1, <1>4 DEF PollReads, link
    <2>3. CASE job.pc \in {"write", "read"} /\ serial = uart
      BY <1>3, <2>1, <2>2, <2>3, CaptureLine
    <2>4. CASE ~ (job.pc \in {"write", "read"} /\ serial = uart)
      BY <1>3, <2>1, <2>4 DEF CaptureOwed
    <2>5. QED
      BY <2>3, <2>4
  <1>5. CASE \/ QtThread \/ FinishJob \/ PollTry \/ FinishPoll
             \/ ShutSerial \/ ShutLockFile \/ OpenLockFile \/ OpenDevice \/ OpenBridge
             \/ CloseBridge \/ OpenScope \/ SetUpScope \/ CloseScope \/ Release \/ WriteToClosed
    <2>1. \/ UNCHANGED <<job, uart, serial, rows, failures, cleanStart>>
          \/ ~ MidJob(job') /\ (UNCHANGED capture \/ rows' = <<>>)
      BY <1>5, OtherSteps DEF PollThread
    <2>2. CASE ~ MidJob(job') /\ (UNCHANGED capture \/ rows' = <<>>)
      BY <1>2, <1>3, <2>2 DEF MidJob, CaptureOwed, capture
    <2>3. CASE UNCHANGED <<job, uart, serial, rows, failures, cleanStart>>
      <3>1. CASE job.pc \in {"write", "read"}
        <4>1. QtThread \/ FinishJob \/ PollTry \/ FinishPoll \/ WriteToClosed
          BY <1>5, <3>1 DEF ShutSerial, ShutLockFile, OpenLockFile, OpenDevice, OpenBridge,
             CloseBridge, OpenScope, SetUpScope, CloseScope, Release
        <4>2. UNCHANGED link
          BY <4>1 DEF QtThread, OnConnect, OnDisconnect, OnAsk, OnSend, OnScope, OnScopeOff,
             OnCapture, OnRestart, OnProgram, CloseEvent, PollTick, Run, FinishPoll, FinishJob,
             PollTry, WriteToClosed
        <4>3. QED
          BY <1>3, <2>3, <4>2, CaptureLine DEF link
      <3>2. CASE job.pc \notin {"write", "read"}
        BY <1>3, <2>3, <3>2 DEF CaptureOwed
      <3>3. QED
        BY <3>1, <3>2
    <2>4. QED
      BY <2>1, <2>2, <2>3
  <1>6. CASE Acquire
    <2>1. /\ job.pc = "acquire" /\ UNCHANGED <<link, uart, serial, rows>>
          /\ job.kind = "capture" =>
               /\ job' = [job EXCEPT !.pc = "write"]
               /\ cleanStart' = \A ask \in Asks : Answer(ask) \notin OnTheWay
          /\ job' = [job EXCEPT !.pc = IF job.kind = "program" THEN "drain" ELSE "write"]
      BY <1>6 DEF Acquire, Goto
    <2>2. job'.kind = job.kind /\ (job.kind = "capture" => job'.pc = "write")
      BY <1>0, <2>1 DEF JobStates
    <2>3. rows = <<>>
      BY <2>1 DEF GInv, RowsCounted
    <2>4. ASSUME job.kind = "capture", cleanStart' PROVE NoAnswer(rx) /\ NoAnswer(due)
      <3>1. \A ask \in Asks : Answer(ask) \notin ToSet(rx) /\ Answer(ask) \notin ToSet(due)
        BY <2>1, <2>4 DEF OnTheWay
      <3>2. QED
        BY <1>0, <3>1, NoAnswerIs
    <2>5. CaptureOwed'
      BY <2>1, <2>2, <2>4 DEF CaptureOwed, link
    <2>6. QED
      BY <1>2, <2>1, <2>3, <2>5
  <1>7. CASE Write
    <2>1. /\ UNCHANGED <<uart, serial, rows, failures, cleanStart>> /\ job.pc = "write"
          /\ serial = uart
      BY <1>7 DEF Write, session, capture
    <2>2. /\ rx' = rx /\ asked' \in Asks
          /\ due' = due \/ due' = Append(due, Answer(asked'))
      <3>1. PICK kept \in BOOLEAN : Send(kept)
        BY <1>7 DEF Write
      <3>2. QED
        BY <1>0, <3>1, SendTypes DEF Send
    <2>3. CASE job.kind = "capture"
      <3>1. job' = [job EXCEPT !.pc = "read", !.ask = asked']
        BY <1>7, <2>3 DEF Write
      <3>2. job'.pc = "read" /\ job'.ask = asked'
        BY <1>0, <3>1 DEF JobStates
      <3>3. ASSUME NoAnswer(due) PROVE OnlyAnswer(due', asked')
        <4>1. Answer(asked') \in Frames /\ Answer(asked')[2] = asked'
          BY <2>2 DEF Frames, Answer
        <4>2. CASE due' = due
          BY <1>0, <3>3, <4>2, NoAnswerIs
        <4>3. CASE due' = Append(due, Answer(asked'))
          BY <1>0, <3>3, <4>1, <4>3, AnswersOfAppend
        <4>4. QED
          BY <2>2, <4>2, <4>3
      <3>4. CaptureOwed'
        BY <2>1, <2>2, <2>3, <3>2, <3>3 DEF CaptureOwed
      <3>5. QED
        BY <1>3, <2>1, <3>4
    <2>4. CASE job.kind # "capture"
      <3>1. job'.kind = job.kind
        BY <1>0, <1>7 DEF Write, JobStates
      <3>2. QED
        BY <1>3, <2>1, <2>4, <3>1 DEF CaptureOwed
    <2>5. QED
      BY <2>3, <2>4
  <1>8. CASE ArmFails \/ ReadFrame \/ ReadTimesOut
    <2>1. NextRow /\ UNCHANGED <<uart, serial, cleanStart>>
      BY <1>8 DEF ArmFails, ReadFrame, ReadTimesOut, RowFails, session
    <2>2. failures' \in BOOLEAN
      BY <1>8 DEF ArmFails, ReadFrame, ReadTimesOut, RowFails, GInv, TypeOK
    <2>3. job'.kind = job.kind /\ job'.pc \in {"write", "release"}
      BY <1>0, <2>1, <2>2, NextRowMoves
    <2>4. CASE RowFails
      <3>1. job.kind = "capture" => failures'
        BY <2>4 DEF RowFails
      <3>2. job.kind # "capture" => rows = <<>> /\ rows' = rows
        BY <2>4 DEF RowFails, GInv, RowsCounted
      <3>3. QED
        BY <1>2, <2>3, <3>1, <3>2 DEF CaptureOwed, AlignedUntilFirstFailure
    <2>5. CASE ReadFrame /\ ~ RowFails
      <3>1. /\ job.pc = "read" /\ UNCHANGED <<failures, cleanStart, due>>
            /\ rx # <<>> /\ Head(rx)[1] = "answer" /\ rx' = Tail(rx)
            /\ rows' = IF job.kind = "capture" THEN Append(rows, <<job.ask, Head(rx)[2]>>) ELSE rows
        BY <2>5 DEF ReadFrame, TakeFrame
      <3>2. serial = uart
        BY <3>1 DEF GInv, JobPlaces
      <3>3. CASE job.kind = "capture" /\ cleanStart /\ ~ failures
        <4>1. IsAnswer(Head(rx))
          BY <3>1 DEF IsAnswer
        <4>2. OnlyAnswer(rx, job.ask) /\ NoAnswer(due)
          BY <1>0, <3>1, <3>2, <3>3, <4>1, AnswersOfTail DEF CaptureOwed
        <4>3. Head(rx)[2] = job.ask /\ NoAnswer(Tail(rx))
          BY <1>0, <3>1, <4>1, <4>2, AnswersOfTail
        <4>4. CaptureOwed'
          BY <2>3, <3>1, <4>2, <4>3 DEF CaptureOwed
        <4>5. AlignedUntilFirstFailure'
          <5> DEFINE row == <<job.ask, job.ask>>
          <5>1. job.ask \in Asks
            BY <3>1, LinkBounds DEF GInv, TypeOK, LinkTypeOK, JobPlaces, Asks
          <5>2. row \in Asks \X Asks /\ row[1] = row[2] /\ rows' = Append(rows, row)
            BY <3>1, <3>3, <4>3, <5>1
          <5> HIDE DEF row
          <5>3. /\ Len(rows) \in Nat /\ DOMAIN rows = 1 .. Len(rows)
                /\ DOMAIN rows' = 1 .. Len(rows) + 1
                /\ \A k \in 1 .. Len(rows) : rows'[k] = rows[k]
                /\ rows'[Len(rows) + 1] = row
            BY <1>0, <5>2, AppendProperties
          <5>4. \A k \in DOMAIN rows : rows[k][1] = rows[k][2]
            BY <3>3 DEF AlignedUntilFirstFailure
          <5>5. \A k \in DOMAIN rows' : rows'[k][1] = rows'[k][2]
            <6>1. ASSUME NEW k \in 1 .. Len(rows) + 1 PROVE rows'[k][1] = rows'[k][2]
              <7>1. CASE k \in 1 .. Len(rows)
                BY <5>3, <5>4, <7>1
              <7>2. CASE k = Len(rows) + 1
                BY <5>2, <5>3, <7>2
              <7>3. QED
                BY <5>3, <6>1, <7>1, <7>2
            <6>2. QED
              BY <5>3, <6>1
          <5>6. QED
            BY <5>5 DEF AlignedUntilFirstFailure
        <4>6. QED
          BY <4>4, <4>5
      <3>4. CASE job.kind = "capture" /\ (~ cleanStart \/ failures)
        BY <2>3, <3>1, <3>4 DEF CaptureOwed, AlignedUntilFirstFailure
      <3>5. CASE job.kind # "capture"
        <4>1. rows' = rows
          BY <3>1, <3>5
        <4>2. QED
          BY <1>3, <2>3, <3>1, <3>5, <4>1 DEF CaptureOwed
      <3>6. QED
        BY <3>3, <3>4, <3>5
    <2>6. QED
      BY <1>8, <2>4, <2>5 DEF ArmFails, ReadTimesOut
  <1>9. CASE ReadText
    <2>1. UNCHANGED <<job, uart, serial, rows, failures, cleanStart>> /\ SkipText
      BY <1>9 DEF ReadText, session, capture
    <2>2. QED
      BY <1>3, <2>1, CaptureLine
  <1>10. CASE Load \/ BootLoaded \/ Drain \/ HoldAgain \/ BootAgain \/ AwaitBanner
    <2>1. /\ UNCHANGED <<rows, failures, cleanStart>>
          /\ job.pc \in {"load", "boot", "drain", "hold", "reboot", "banner"}
      BY <1>10 DEF Load, BootLoaded, Drain, HoldAgain, BootAgain, AwaitBanner, capture
    <2>2. job'.pc \notin {"write", "read"}
      <3>1. CASE Load \/ AwaitBanner
        BY <1>0, <2>1, <3>1 DEF Load, AwaitBanner, Goto, JobStates
      <3>2. CASE BootLoaded \/ Drain \/ HoldAgain \/ BootAgain
        BY <1>0, <3>2 DEF BootLoaded, Drain, HoldAgain, BootAgain, Goto, JobStates
      <3>3. QED
        BY <1>10, <3>1, <3>2
    <2>3. QED
      BY <1>3, <2>1, <2>2 DEF CaptureOwed
  <1>11. CASE Cli
    <2>1. UNCHANGED <<job, uart, serial, rows, failures, cleanStart>>
      BY <1>11
      DEF Cli, CliStart, CliOpen, CliAsks, CliReads, CliCloses, CliKilled, CliOnly, session,
         capture
    <2>2. CASE job.pc \in {"write", "read"} /\ serial = uart
      <3>0. opened = {"gui"} /\ cli.pc \in {"idle", "lockfile"} /\ flock # Free
        BY <1>1, <2>2
      <3>1. UNCHANGED <<rx, due>>
        <4>1. CASE CliStart \/ CliOpen
          BY <3>0, <4>1 DEF CliStart, CliOpen, TakeFlock, link
        <4>2. CASE CliKilled
          BY <3>0, <4>2 DEF CliKilled, Dies
        <4>3. QED
          BY <1>11, <3>0, <4>1, <4>2 DEF Cli, CliAsks, CliReads, CliCloses
      <3>2. QED
        BY <1>3, <2>1, <3>1, CaptureLine
    <2>3. CASE ~ (job.pc \in {"write", "read"} /\ serial = uart)
      BY <1>3, <2>1, <2>3 DEF CaptureOwed
    <2>4. QED
      BY <2>2, <2>3
  <1>12. CASE Controller \/ UNCHANGED vars
    <2>1. /\ UNCHANGED <<job, uart, serial, rows, failures, cleanStart>>
          /\ ControllerSends \/ ControllerSilent \/ UNCHANGED <<rx, due>>
      BY <1>12 DEF Controller, vars, session, capture, link
    <2>2. CASE job.pc \in {"write", "read"} /\ serial = uart
      <3>1. opened # {}
        BY <1>1, <2>2
      <3>2. QED
        BY <1>3, <2>1, <3>1, CaptureLine
    <2>3. CASE ~ (job.pc \in {"write", "read"} /\ serial = uart)
      BY <1>3, <2>1, <2>3 DEF CaptureOwed
    <2>4. QED
      BY <2>2, <2>3
  <1>13. QED
    BY <1>4, <1>5, <1>6, <1>7, <1>8, <1>9, <1>10, <1>11, <1>12 DEF Next, Worker, PollThread

\* A capture that found nothing of earlier commands on its way stores every answer
\* beside the command it answers, at least until its first recorded failure.
THEOREM CaptureIsAligned == Spec => []AlignedUntilFirstFailure
  <1>1. Init => CaptureOwed /\ AlignedUntilFirstFailure
    BY DEF Init, IdleJob, CaptureOwed, AlignedUntilFirstFailure
  <1>2. GInv /\ CaptureOwed /\ AlignedUntilFirstFailure /\ [Next]_vars
        => CaptureOwed' /\ AlignedUntilFirstFailure'
    BY NextCapture
  <1>3. QED
    BY <1>1, <1>2, SpecGInv, PTL DEF Spec

=====
