-------------------------------- MODULE Lines --------------------------------
(***************************************************************************)
(* Lines ended by \r\n, over a connection that cuts them anywhere: sendLine *)
(* and dataReceived of DelimitedProtocol (net/protocols/delimited.js), and *)
(* the frames that RTJPProtocol (rtjp.js) numbers and reads from them.     *)
(***************************************************************************)
EXTENDS Buffer

CONSTANTS
  MaxLines   \* bound: lines sent

ASSUME LinesAssumption == MaxLines \in 0..9

CR == "\r"
LF == "\n"
Delimiter == <<CR, LF>>

(* What a line may hold: a frame of RTJP is its number, anything else is   *)
(* no frame; parts of the delimiter are allowed in a plain line.           *)
PlainLines == {<<>>, <<CR>>, <<LF>>}

VARIABLES rtjp,        \* the protocol is RTJPProtocol, not a plain one
          frameId,     \* this.frameId
          sentLines, lineWire,
          lineBuffer,  \* this.buffer
          reading,     \* dataReceived is in its loop
          lines,       \* what lineReceived was called with
          frames,      \* what frameReceived was called with
          left         \* an exception left dataReceived since the last data

linesVars == <<rtjp, frameId, sentLines, lineWire, lineBuffer, reading, lines,
               frames, left>>

LinesInit ==
  /\ rtjp \in BOOLEAN /\ frameId = 0
  /\ sentLines = <<>> /\ lineWire = <<>> /\ lineBuffer = <<>>
  /\ reading = FALSE /\ lines = <<>> /\ frames = <<>> /\ left = FALSE

SendLine(line) ==
  /\ Len(sentLines) < MaxLines
  /\ sentLines' = Append(sentLines, line)
  /\ lineWire' = lineWire \o line \o Delimiter
  /\ UNCHANGED <<rtjp, lineBuffer, reading, lines, frames, left>>

SendPlain(line) == SendLine(line) /\ UNCHANGED frameId

SendFrame ==
  /\ rtjp /\ frameId' = frameId + 1
  /\ SendLine(<<Digits[frameId' + 1]>>)

(* What is in the buffer when n more characters have come. *)
Buffered(n) == lineBuffer \o SubSeq(lineWire, 1, n)

LineDataReceived(n) ==
  /\ ~reading /\ n \in 1..Len(lineWire)
  /\ lineBuffer' = Buffered(n)
  /\ lineWire' = SubSeq(lineWire, n + 1, Len(lineWire))
  /\ reading' = TRUE /\ left' = FALSE
  /\ UNCHANGED <<rtjp, frameId, sentLines, lines, frames>>

(* indexOf: where the delimiter begins; 0 when there is none. *)
DelimiterAt(s) ==
  LET at == {i \in 1..(Len(s) - 1) : SubSeq(s, i, i + 1) = Delimiter}
  IN  IF at = {} THEN 0 ELSE CHOOSE i \in at : \A j \in at : i <= j

AfterLine(s) == SubSeq(s, DelimiterAt(s) + Len(Delimiter), Len(s))

(* RTJPProtocol's lineReceived: what is no frame is logged and dropped. *)
IsFrame(line) == Len(line) = 1 /\ IsDigit(line[1])

FrameReceived(line) ==
  frames' = IF rtjp /\ IsFrame(line) THEN Append(frames, Digit(line[1])) ELSE frames

FrameUncaught(throws) == ~throws  \* mutated form

GoesOn(throws) == ~throws \/ rtjp

(* One round of the loop.  The line is out of the buffer before the        *)
(* handler is called; an exception of the handler leaves dataReceived with *)
(* the lines behind still in the buffer, but RTJPProtocol catches it.      *)
LineReceived(throws) ==
  LET i == DelimiterAt(lineBuffer)
      line == SubSeq(lineBuffer, 1, i - 1)
  IN  /\ reading /\ i # 0
      /\ lines' = Append(lines, line)
      /\ lineBuffer' = AfterLine(lineBuffer)
      /\ FrameReceived(line)
      /\ reading' = GoesOn(throws) /\ left' = (throws /\ ~rtjp)
      /\ UNCHANGED <<rtjp, frameId, sentLines, lineWire>>

NoMoreLines ==
  /\ reading /\ DelimiterAt(lineBuffer) = 0
  /\ reading' = FALSE
  /\ UNCHANGED <<rtjp, frameId, sentLines, lineWire, lineBuffer, lines, frames, left>>

LinesNext ==
  \/ \E line \in PlainLines : SendPlain(line)
  \/ SendFrame \/ NoMoreLines
  \/ \E n \in 1..Len(lineWire) : LineDataReceived(n)
  \/ \E throws \in BOOLEAN : LineReceived(throws)

LinesSpec == LinesInit /\ [][LinesNext]_linesVars

---------------------------------------------------------------------------
(* Properties *)

(* However the connection cuts them, also inside a delimiter, and whatever *)
(* the handler throws, lines are read as they were sent, none is read      *)
(* twice, and nothing of what was sent is missing.  When all has arrived   *)
(* and no handler threw on the last of it, every line was read, and the    *)
(* frames are those that were sent: none is held back by a line that is no *)
(* frame or by a frame whose handler threw.                                *)
LinesAsSent ==
  LET rest == lineBuffer \o lineWire
      written == FoldLeft(LAMBDA acc, line : acc \o line \o Delimiter, <<>>, sentLines)
      read == FoldLeft(LAMBDA acc, line : acc \o line \o Delimiter, <<>>, lines)
  IN  /\ IsPrefix(lines, sentLines) /\ read \o rest = written
      /\ lineWire = <<>> /\ ~reading /\ ~left =>
           lines = sentLines /\ frames = [n \in 1..frameId |-> n]

=============================================================================
