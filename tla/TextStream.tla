----------------------------- MODULE TextStream -----------------------------
(***************************************************************************)
(* Text over a CSP session, in either direction: what is written, in       *)
(* pieces that end anywhere in a character, the coding of each packet      *)
(* (transports.js, server.js), and the incremental reading of it by the    *)
(* session of the client (client.js) or the connection of the node server  *)
(* (server.js), whose encoding the application may change meanwhile.       *)
(* Packets arrive once and in order: CspLink and NodeLink are about that.  *)
(***************************************************************************)
EXTENDS Codecs

CONSTANTS MaxCharacters,  \* bound: characters of the text
          MaxOnTheWay,    \* bound: packets written and not yet read
          MaxSwitches     \* bound: changes of the reader's encoding

VARIABLES
  writer,      \* who writes: "client" or "node"; the other one reads
  binary,      \* the client's XHR has sendAsBinary
  text,        \* the characters to write
  taken,       \* bytes of the text written so far
  packets,     \* written and not yet read: [encoding, content]
  encoding,    \* the reader's: options.encoding, _encoding
  utf8Buffer,  \* _utf8ReadBuffer, _utf8buffer
  got,         \* the characters given to the reader's application
  arrived,     \* bytes that have reached the reader
  switches,    \* changes of encoding so far
  strayed,     \* the client left utf8 with part of a character in its buffer
  stopped      \* the handler of the client has thrown: it asks for no more

textVars == <<writer, binary, text, taken, packets, encoding, utf8Buffer, got,
              arrived, switches, strayed, stopped>>

Texts == UNION {[1..n -> Characters] : n \in 1..MaxCharacters}
Plain == "plain"
-----------------------------------------------------------------------------
(* The node server leaves alone what it takes for printable: \x32 is '2'.  *)
Printable == {9, 10, 13} \cup 50..126

MustEncode(bytes) ==
  IF writer = "client" THEN ~binary
                       ELSE \E i \in DOMAIN bytes : bytes[i] \notin Printable

Coded(bytes) ==
  IF MustEncode(bytes) THEN [encoding |-> 1, content |-> Base64Encode(bytes)]
                       ELSE [encoding |-> 0, content |-> bytes]

Content(packet) ==
  IF packet.encoding = 1 THEN Base64Decode(packet.content) ELSE packet.content

(* The application writes the next n bytes of its text. *)
WriteText(n) ==
  /\ Len(packets) < MaxOnTheWay
  /\ taken + n =< Len(Encode(text))
  /\ packets' = Append(packets, Coded(SubSeq(Encode(text), taken + 1, taken + n)))
  /\ taken' = taken + n
  /\ UNCHANGED <<writer, binary, text, encoding, utf8Buffer, got, arrived,
                 switches, strayed, stopped>>

(* In a plain string each byte is a character. *)
AsPlain(bytes) == [i \in DOMAIN bytes |-> <<bytes[i]>>]

(* The buffer takes the data before decode throws; the exception leaves    *)
(* the comet handler of the client before it asks for more, and is a 500   *)
(* to one request of the node server.                                      *)
ReadUtf8(data) ==
  LET bytes == utf8Buffer \o data
      chars == Decode(bytes)
  IN  IF chars = NoCharacters
        THEN /\ utf8Buffer' = bytes
             /\ stopped' = (writer = "node")
             /\ UNCHANGED got
        ELSE /\ utf8Buffer' = SubSeq(bytes, Parsed(bytes) + 1, Len(bytes))
             /\ got' = got \o chars
             /\ UNCHANGED stopped

ReadText ==
  /\ packets # <<>> /\ ~stopped
  /\ LET data == Content(Head(packets))
     IN  /\ arrived' = arrived + Len(data)
         /\ IF encoding = Plain
              THEN /\ got' = got \o AsPlain(data)
                   /\ UNCHANGED <<utf8Buffer, stopped>>
              ELSE ReadUtf8(data)
  /\ packets' = Tail(packets)
  /\ UNCHANGED <<writer, binary, text, taken, encoding, switches, strayed>>

(* The client means to hand out what is left, but asks this._buffer, which *)
(* no session has.                                                         *)
ClientLeavesUtf8 == strayed' = (strayed \/ utf8Buffer # <<>>)

(* The connection of the node server asserts that nothing is left. *)
NodeLeavesUtf8 == utf8Buffer = <<>> /\ UNCHANGED strayed

SetEncoding ==
  /\ switches < MaxSwitches
  /\ switches' = switches + 1
  /\ \/ /\ encoding = "utf8" /\ encoding' = Plain
        /\ IF writer = "node" THEN ClientLeavesUtf8 ELSE NodeLeavesUtf8
     \/ /\ encoding = Plain /\ encoding' = "utf8"
        /\ UNCHANGED strayed
  /\ UNCHANGED <<writer, binary, text, taken, packets, utf8Buffer, got, arrived,
                 stopped>>
-----------------------------------------------------------------------------
TextInit ==
  /\ writer \in {"client", "node"}
  /\ binary \in BOOLEAN
  /\ writer = "node" => ~binary
  /\ text \in Texts
  /\ taken = 0 /\ packets = <<>>
  /\ encoding \in {"utf8", Plain}
  /\ utf8Buffer = <<>> /\ got = <<>> /\ arrived = 0 /\ switches = 0
  /\ strayed = FALSE /\ stopped = FALSE

TextNext ==
  \/ \E n \in 1..(4 * MaxCharacters) : WriteText(n)
  \/ ReadText \/ SetEncoding
-----------------------------------------------------------------------------
Written == SubSeq(Encode(text), 1, arrived)

(* However the text is cut, a reader of utf8 is given the characters of it *)
(* one by one as soon as they are complete, whatever packets were coded    *)
(* and which not; and no byte is lost, repeated or moved, with changes of  *)
(* encoding and exceptions in between, unless the client left utf8 in the  *)
(* middle of a character (utf8.js decode, base64.js, setEncoding).         *)
TextAsWritten ==
  /\ ~strayed => Encode(got) \o utf8Buffer = Written
  /\ switches = 0 /\ encoding = "utf8" =>
       /\ ~stopped
       /\ IsPrefix(got, text)
       /\ utf8Buffer # <<>> => Len(utf8Buffer) < Len(text[Len(got) + 1])
=============================================================================
