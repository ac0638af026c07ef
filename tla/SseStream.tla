----------------------------- MODULE SseStream ------------------------------
(***************************************************************************)
(* The parser of server-sent events (ServerSentEventsStream), which cuts   *)
(* the bytes of a connection into messages however the network splits and  *)
(* joins them, and whichever of the three line breaks the server uses.     *)
(*                                                                         *)
(* The name of a field is one symbol, a line break one or two: a split     *)
(* inside a name is no different from one in front of it.                  *)
(* ConsumeOne, LooksBehind and KeepsBuffer are slips of the code next to   *)
(* them.                                                                   *)
(***************************************************************************)
EXTENDS Naturals, SequencesExt

CONSTANTS
  Fields,   \* lines a server sends: [name, space, value], see Render
  MaxLines  \* bound: lines of a stream

Blank == [name |-> "", space |-> FALSE, value |-> <<>>]
ASSUME SseAssumption ==
  /\ MaxLines \in Nat /\ Blank \in Fields
  /\ \A f \in Fields : f.space \/ f.value = <<>> \/ Head(f.value) # " "

VARIABLES
  lines,   \* what the server writes on the connection
  break,   \* the line break it uses
  arrived, \* symbols that have arrived
  buffer,  \* m_buffer
  emitted  \* history: messages emitted, those posted included

vars == <<lines, break, arrived, buffer, emitted>>

-----------------------------------------------------------------------------
(* The server *)

Breaks == {<<"LF">>, <<"CR">>, <<"CR", "LF">>}

(* The symbols of line f: a line without a name and a value is blank, one  *)
(* without a name only is a comment.                                       *)
Render(f) ==
  IF f = Blank THEN <<>>
  ELSE (IF f.name = "" THEN <<>> ELSE <<f.name>>)
       \o <<":">> \o (IF f.space THEN <<" ">> ELSE <<>>) \o f.value

Written(fs, b) == FlattenSeq([i \in DOMAIN fs |-> Render(fs[i]) \o b])

-----------------------------------------------------------------------------
(* The parser.  Positions are 1-based, "end" is one past the last symbol. *)

IsLineBreak(c) == c \in {"LF", "CR"}

FindLineBreak(b, from, end) ==
  Min({end} \cup {i \in from..(end - 1) : IsLineBreak(b[i])})

ConsumeOne(b, from, end) == Min({from + 1, end})
ConsumeLineBreak(b, from, end) ==
  CASE from < end /\ b[from] = "LF" -> from + 1
    [] from < end /\ b[from] = "CR" ->
         IF from + 1 < end /\ b[from + 1] = "LF" THEN from + 2 ELSE from + 1
    [] OTHER -> from

LooksBehind(b) ==
  Min({Len(b) + 1} \cup {i \in 2..Len(b) : IsLineBreak(b[i]) /\ IsLineBreak(b[i - 1])})

(* Where the first message of b ends: at a line break with a second one    *)
(* behind it.                                                              *)
FindMessageEnd(b) ==
  LET end == Len(b) + 1
      from[it \in 1..end] ==
        LET lineBreak == FindLineBreak(b, it, end)
            lookAhead == ConsumeLineBreak(b, lineBreak, end)
        IN  IF lineBreak = end THEN end
            ELSE IF lookAhead < end /\ IsLineBreak(b[lookAhead]) THEN lineBreak
            ELSE from[lookAhead]
  IN  from[1]

NoMessage == [event |-> <<>>, data |-> <<>>, metaData |-> <<>>]
WithMeta(meta, name, value) ==
  [n \in DOMAIN meta \cup {name} |-> IF n = name THEN value ELSE meta[n]]

(* A line of a message, the symbols from..to-1 of b, added to msg. *)
ParseLine(b, from, to, msg) ==
  LET colon == Min({to} \cup {i \in from..(to - 1) : b[i] = ":"})
      value == IF colon = to THEN to
               ELSE IF colon + 1 < to /\ b[colon + 1] = " " THEN colon + 2
               ELSE colon + 1
      name  == b[from]
  IN  CASE colon = from \/ value = to -> msg
        [] OTHER ->
             CASE name = "data"  -> [msg EXCEPT !.data = @ \o SubSeq(b, value, to - 1)]
               [] name = "event" -> [msg EXCEPT !.event = SubSeq(b, value, to - 1)]
               [] OTHER -> [msg EXCEPT !.metaData =
                              WithMeta(@, name, SubSeq(b, value, to - 1))]

(* The message in front of position msgEnd of b, from "it" on. *)
RECURSIVE ParseLines(_, _, _, _)
ParseLines(b, it, msgEnd, msg) ==
  IF it >= msgEnd THEN msg
  ELSE LET lineEnd == FindLineBreak(b, it, msgEnd)
       IN  ParseLines(b, ConsumeLineBreak(b, lineEnd, msgEnd), msgEnd,
                      ParseLine(b, it, lineEnd, msg))

(* The messages processBuffer() posts, and what it leaves in the buffer. *)
RECURSIVE ProcessBuffer(_)
ProcessBuffer(b) ==
  LET end    == Len(b) + 1
      msgEnd == FindMessageEnd(b)
      next   == ConsumeLineBreak(b, ConsumeLineBreak(b, msgEnd, end), end)
      others == ProcessBuffer(SubSeq(b, next, Len(b)))
  IN  IF msgEnd = end THEN [messages |-> <<>>, rest |-> b]
      ELSE [others EXCEPT !.messages = <<ParseLines(b, 1, msgEnd, NoMessage)>> \o @]

-----------------------------------------------------------------------------
(* The connection *)

KeepsBuffer(b) == b
Cleared(b) == <<>>

Init ==
  /\ lines \in BoundedSeq(Fields, MaxLines) /\ break \in Breaks
  /\ arrived = 0 /\ buffer = <<>> /\ emitted = <<>>

(* readyRead(): the next symbols have arrived, as many as there may be. *)
ReadyRead ==
  /\ \E n \in 1..(Len(Written(lines, break)) - arrived) :
       LET read == SubSeq(Written(lines, break), arrived + 1, arrived + n)
           done == ProcessBuffer(buffer \o read)
       IN  /\ arrived' = arrived + n
           /\ buffer' = done.rest
           /\ emitted' = emitted \o done.messages
  /\ UNCHANGED <<lines, break>>

(* read(): the backend has lost the connection, which may have ended in    *)
(* the middle of a line, and reads from a new one.                         *)
Read ==
  /\ arrived > 0
  /\ arrived' = 0 /\ buffer' = Cleared(buffer) /\ emitted' = <<>>
  /\ UNCHANGED <<lines, break>>

Next == ReadyRead \/ Read
Spec == Init /\ [][Next]_vars

-----------------------------------------------------------------------------
(* What the server has sent *)

(* The lines fs as the message they make up.  A field without a value says *)
(* nothing, data adds up, and of other fields the last one counts.         *)
MessageOf(fs) ==
  LET with(name) == SelectSeq(fs, LAMBDA f : f.name = name /\ f.value # <<>>)
      names == {f.name : f \in Range(fs)} \ {"", "data", "event"}
  IN  [event    |-> IF with("event") = <<>> THEN <<>> ELSE Last(with("event")).value,
       data     |-> FlattenSeq([i \in DOMAIN with("data") |-> with("data")[i].value]),
       metaData |-> [n \in {m \in names : with(m) # <<>>} |-> Last(with(n)).value]]

(* The line numbers of the blank lines of which something has arrived. *)
BlankArrived ==
  {i \in DOMAIN lines :
     lines[i] = Blank /\ arrived > Len(Written(SubSeq(lines, 1, i - 1), break))}

(* The messages these lines end. *)
Sent ==
  LET ends  == SetToSortSeq(BlankArrived, <)
      begin(k) == IF k = 1 THEN 1 ELSE ends[k - 1] + 1
  IN  [k \in DOMAIN ends |-> MessageOf(SubSeq(lines, begin(k), ends[k] - 1))]

(* What has been emitted is what has been sent, whatever the line breaks   *)
(* and wherever the network cut the stream: a message as soon as the first *)
(* byte of its blank line is there (processBuffer()), none twice, none cut *)
(* or joined, and nothing of the connection before (read()).  Messages     *)
(* that say nothing, which a server's further blank lines result in, do    *)
(* not count.                                                              *)
MessagesAsSent ==
  LET telling(msgs) == SelectSeq(msgs, LAMBDA m : m # NoMessage)
  IN  telling(emitted) = telling(Sent)

=============================================================================
