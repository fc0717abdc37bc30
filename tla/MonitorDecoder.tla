---------------------------- MODULE MonitorDecoder ----------------------------
(***************************************************************************)
(* The monitor of the serial line (Software/Python/proact_host/monitor.py) *)
(* as "proact monitor" and the monitor page of the GUI feed it: whatever   *)
(* bytes are there, ten times a second, also none.  It splits them into    *)
(* lines and shows each line as text in which every byte is to be read     *)
(* off, whatever noise and binary frames there are between.                *)
(*                                                                         *)
(* A byte is one of five: the letter r, newline, carriage return,          *)
(* backslash, and one that is not printable; its two hexadecimal digits    *)
(* are one character here.  The monitor reads any bytes: the frames that   *)
(* the controller sends are left to the other programs.                    *)
(***************************************************************************)
EXTENDS Controller, SequencesExt

CONSTANTS
  MaxFed,               \* bound: bytes fed
  IdleFlush,            \* idle_flush: empty feeds until a partial line is shown
  MaxBuffer             \* bytes without a newline that are kept

ASSUME DecoderAssumption == MaxFed \in Nat /\ IdleFlush \in Nat \ {0} /\ MaxBuffer \in Nat

VARIABLES
  fed,                  \* all bytes so far
  kept,                 \* _buf
  idle,                 \* _idle, up to IdleFlush
  shown                 \* the text of the lines so far

decoderVars == <<fed, kept, idle, shown>>

Bytes == {"r", "newline", "return", "backslash", "A5"}
Characters == {"r", "n", "\\", "x", "A5"}

DecoderTypeOK ==
  /\ fed \in Seq(Bytes) /\ Len(fed) <= MaxFed
  /\ kept \in Seq(Bytes)
  /\ idle \in 0 .. IdleFlush
  /\ shown \in Seq(Seq(Characters))

DecoderInit == fed = <<>> /\ kept = <<>> /\ idle = 0 /\ shown = <<>>

\* safe_text of one byte; a backslash is printable.
BackslashKept(byte) ==   \* (mutant)
  CASE byte = "newline" -> <<"\\", "n">> [] byte = "return" -> <<"\\", "r">>
    [] byte = "A5" -> <<"\\", "x", "A5">> [] byte = "backslash" -> <<"\\">> [] OTHER -> <<byte>>
Shown(byte) ==
  CASE byte = "newline" -> <<"\\", "n">> [] byte = "return" -> <<"\\", "r">>
    [] byte = "backslash" -> <<"\\", "\\">>
    [] byte = "A5" -> <<"\\", "x", "A5">> [] OTHER -> <<byte>>
SafeText(bytes) == FlattenSeq([k \in DOMAIN bytes |-> Shown(bytes[k])])

\* feed, byte by byte: the lines that are complete, and what is left.
CutAt(cut, byte) ==
  IF byte = "newline" THEN [lines |-> Append(cut.lines, cut.rest), rest |-> <<>>]
  ELSE [lines |-> cut.lines, rest |-> Append(cut.rest, byte)]
CutUp(bytes) ==
  LET cut[n \in 0 .. Len(bytes)] ==
        IF n = 0 THEN [lines |-> <<>>, rest |-> <<>>] ELSE CutAt(cut[n - 1], bytes[n])
  IN  cut[Len(bytes)]
LinesOf(bytes) == CutUp(bytes).lines
RestOf(bytes) == CutUp(bytes).rest

Emits(lines) == shown' = shown \o [n \in DOMAIN lines |-> SafeText(lines[n])]

IdleKept == idle   \* (mutant)
IdleReset == 0

Feeds(data) ==
  LET bytes == kept \o data
      rest == RestOf(bytes)
      full == Len(rest) > MaxBuffer
  IN  /\ data # <<>>
      /\ fed' = fed \o data
      /\ Emits(LinesOf(bytes) \o (IF full THEN <<rest>> ELSE <<>>))
      /\ kept' = IF full THEN <<>> ELSE rest
      /\ idle' = IdleReset

FeedsNothing ==
  /\ fed' = fed
  /\ IF kept # <<>> /\ idle + 1 >= IdleFlush
       THEN Emits(<<kept>>) /\ kept' = <<>> /\ idle' = 0
       ELSE /\ idle' = IF idle < IdleFlush THEN idle + 1 ELSE idle
            /\ UNCHANGED <<kept, shown>>

-----------------------------------------------------------------------------
(* cmd_monitor: open, read what is there until the time is over, close.    *)

MonitorConnects ==
  /\ \/ phase = "start" /\ OpenLock("port", "over")
     \/ phase = "port" /\ OpenPort("sendback", "over")
     \/ /\ phase = "sendback"
        /\ EnableSendback /\ phase' = "watch"
        /\ UNCHANGED <<link, says, husky, program, status, missed>>
  /\ UNCHANGED decoderVars

\* read_available: whatever has come, and perhaps nothing.
Watches ==
  /\ phase = "watch"
  /\ \/ \E n \in 1 .. MaxFed - Len(fed) : \E data \in [1 .. n -> Bytes] : Feeds(data)
     \/ FeedsNothing
  /\ UNCHANGED <<link, boardVars, husky, session>>

\* The time is over, or Ctrl-C, which is no error; the last partial line stays kept.
StopsWatching ==
  /\ phase = "watch"
  /\ phase' = "shut" /\ status' = "ok"
  /\ UNCHANGED <<link, boardVars, husky, program, missed, decoderVars>>

Monitoring ==
  \/ MonitorConnects \/ Watches
  \/ (ShutDevice \/ ShutLock("over")) /\ UNCHANGED decoderVars

-----------------------------------------------------------------------------
\* How a reader of the text gets the bytes back: a backslash begins an escape.
ReadOff(character, result) ==
  CASE result.escape = "no" ->
         IF character = "\\" THEN [result EXCEPT !.escape = "yes"]
         ELSE [result EXCEPT !.bytes = Append(@, character)]
    [] result.escape = "hex" -> [escape |-> "no", bytes |-> Append(result.bytes, character)]
    [] OTHER ->
         IF character = "x" THEN [result EXCEPT !.escape = "hex"]
         ELSE [escape |-> "no",
               bytes |-> Append(result.bytes,
                                CASE character = "n" -> "newline" [] character = "r" -> "return"
                                  [] OTHER -> "backslash")]
Unread == [escape |-> "no", bytes |-> <<>>]
ReadUp(text) ==
  LET read[n \in 0 .. Len(text)] == IF n = 0 THEN Unread ELSE ReadOff(text[n], read[n - 1])
  IN  read[Len(text)]
BytesOf(text) == ReadUp(text).bytes

\* No byte is lost, invented or moved by noise, frames or the way the stream is cut:
\* the bytes read off the lines, followed by the ones still kept, are the bytes that
\* came, without the newlines that ended a line (monitor.py:14-17, 47-52).
NothingLost(lines, rest, received) ==
  FlattenSeq([n \in DOMAIN lines |-> BytesOf(lines[n])]) \o rest
    = FlattenSeq([k \in DOMAIN received |->
                    IF received[k] = "newline" THEN <<>> ELSE <<received[k]>>])

\* A partial line is neither hidden nor cut while its bytes come: it is shown with the
\* IdleFlush-th empty feed after its last byte, or when it is too long (monitor.py:49).
MonitorHidesNothing ==
  /\ Len(kept') <= MaxBuffer
  /\ kept # <<>> /\ kept' = <<>> /\ fed' = fed => idle = IdleFlush - 1
  /\ kept' # <<>> => idle' < IdleFlush

\* Who watches the monitor sees everything the controller sent, in time.
MonitorShowsAll == [][NothingLost(shown', kept', fed') /\ MonitorHidesNothing]_decoderVars
===============================================================================
