---------------------------- MODULE CommandFile -----------------------------
(***************************************************************************)
(* lab6: how the sender of a client makes requests of the lines a user     *)
(* types and of the file READ names.  ChatServer and ChatPosix start from  *)
(* the requests.  A text is a sequence of words, blanks and ends of lines; *)
(* numbers stay words.                                                     *)
(***************************************************************************)
EXTENDS Integers, Sequences, FiniteSets, SequencesExt, FiniteSetsExt

CONSTANTS Typed,        \* lines that are typed
          Contents,     \* of the file
          FileName,
          Blank, EndOfLine,
          MaxTyped      \* bound: lines that are typed

CommandAssumption == MaxTyped \in Nat /\ Blank # EndOfLine

VARIABLES file,             \* what is in the file
          typed,            \* the lines typed up to now
          clientRequest,    \* the request that was sent last
          runClient,
          command,          \* lines of the file that are still to be executed
          sent, pc

vars == <<file, typed, clientRequest, runClient, command, sent, pc>>

Init ==
  /\ file = <<>> /\ typed = <<>>
  /\ clientRequest = [message_type |-> "INIT", buf |-> "", additionalArg |-> ""]
  /\ runClient = TRUE /\ command = <<>> /\ sent = <<>> /\ pc = "start"

Start ==
  /\ pc = "start" /\ file' \in Contents /\ pc' = "sender"
  /\ UNCHANGED <<typed, clientRequest, runClient, command, sent>>

-----------------------------------------------------------------------------
(* Words and lines. *)

EndFrom(string, n, delimer) ==
  Min({k \in n .. Len(string) : string[k] = delimer} \cup {Len(string) + 1})

(* Bug: what no delimiter ends is forgotten. *)
CutsLast(string, delimer) ==
  LET items[n \in 1 .. Len(string) + 1] ==
        LET end == EndFrom(string, n, delimer)
        IN IF end = n \/ end > Len(string) THEN <<>>
           ELSE <<SubSeq(string, n, end - 1)>> \o items[end + 1]
  IN items[1]

(* After an empty item it goes on at the same place until the items are    *)
(* used up: the rest of the string is not in the result.                   *)
explode(string, delimer) ==
  LET items[n \in 1 .. Len(string) + 1] ==
        LET end == EndFrom(string, n, delimer)
        IN IF end = n THEN <<>>
           ELSE <<SubSeq(string, n, end - 1)>>
                  \o (IF end > Len(string) THEN <<>> ELSE items[end + 1])
  IN items[1]

(* A word is one symbol. *)
Symbols(items) == [n \in DOMAIN items |-> items[n][1]]

-----------------------------------------------------------------------------
(* Commands. *)

(* How many words a command can have; STOP any number. *)
Sizes == [c \in {"LIST", "FRIENDS", "ADD", "DEL", "ECHO", "2ALL", "2FRIENDS", "2ONE"} |->
            CASE c = "LIST" -> {1} [] c = "FRIENDS" -> {1, 2} [] c = "2ONE" -> {3} [] OTHER -> {2}]

Recognized(words) ==
  words[1] = "STOP" \/ (words[1] \in DOMAIN Sizes /\ Len(words) \in Sizes[words[1]])

simpleAction(words) ==
  CASE words[1] \in {"STOP", "LIST"} -> words[1]
    [] words[1] = "2ONE" -> words[3]
    [] words = <<"FRIENDS">> -> ""
    [] OTHER -> words[2]

(* The number of 2ONE stays in the requests after it. *)
executeCommand(words) ==
  IF Recognized(words)
    THEN /\ clientRequest' = [message_type |-> words[1], buf |-> simpleAction(words),
                              additionalArg |-> IF words[1] = "2ONE" THEN words[2]
                                                ELSE clientRequest.additionalArg]
         /\ runClient' = (runClient /\ words[1] # "STOP")
         /\ sent' = Append(sent, clientRequest')
    ELSE UNCHANGED <<clientRequest, runClient, sent>>

(* Without a name of a file, or with a wrong one, NULL is read from.       *)
executeFile(words) ==
  /\ IF Len(words) > 1 /\ words[2] = FileName
       THEN command' = explode(file, EndOfLine) /\ pc' = "executeFile"
       ELSE pc' = "crashed" /\ UNCHANGED command
  /\ UNCHANGED <<clientRequest, runClient, sent>>

(* A line of no words is reported and its first word compared all the same. *)
sender(line) ==
  /\ pc = "sender" /\ runClient /\ Len(typed) < MaxTyped
  /\ typed' = Append(typed, line)
  /\ LET words == Symbols(explode(line, Blank))
     IN \/ words = <<>> /\ pc' = "crashed" /\ UNCHANGED <<clientRequest, runClient, command, sent>>
        \/ words # <<>> /\ words[1] = "READ" /\ executeFile(words)
        \/ words # <<>> /\ words[1] # "READ" /\ executeCommand(words) /\ UNCHANGED <<command, pc>>
  /\ UNCHANGED file

(* One line of the file after the other, behind a STOP as well. *)
ExecuteLine ==
  /\ pc = "executeFile" /\ command # <<>>
  /\ command' = Tail(command)
  /\ LET words == Symbols(explode(Head(command), Blank))
     IN IF words = <<>>
          THEN pc' = "crashed" /\ UNCHANGED <<clientRequest, runClient, sent>>
          ELSE executeCommand(words) /\ UNCHANGED pc
  /\ UNCHANGED <<file, typed>>

FileEnds ==
  /\ pc = "executeFile" /\ command = <<>> /\ pc' = "sender"
  /\ UNCHANGED <<file, typed, clientRequest, runClient, command, sent>>

SenderEnds ==
  /\ pc = "sender" /\ ~runClient /\ pc' = "endClient"
  /\ UNCHANGED <<file, typed, clientRequest, runClient, command, sent>>

Next == Start \/ (\E line \in Typed : sender(line)) \/ ExecuteLine \/ FileEnds \/ SenderEnds

Spec == Init /\ [][Next]_vars

-----------------------------------------------------------------------------
(* Properties. *)

(* What is between delimiters, however many there are.                     *)
Pieces(text, delimer) ==
  LET starts == {k \in DOMAIN text : text[k] # delimer /\ (k = 1 \/ text[k - 1] = delimer)}
      Piece(k) == SubSeq(text, k, EndFrom(text, k, delimer) - 1)
      order == SetToSortSeq(starts, <)
  IN [n \in DOMAIN order |-> Piece(order[n])]

Single(text, delimer) ==
  \A k \in DOMAIN text : text[k] = delimer => k > 1 /\ text[k - 1] # delimer

(* A request without the number that only 2ONE has. *)
Asks(type, buf, number) == <<type, buf, IF type = "2ONE" THEN number ELSE "">>

Wanted(line) ==
  LET words == Symbols(Pieces(line, Blank))
  IN IF Recognized(words) THEN <<Asks(words[1], simpleAction(words), words[2])>> ELSE <<>>

WantedOf(line) ==
  IF line[1] = "READ"
    THEN FlattenSeq([n \in DOMAIN Pieces(file, EndOfLine) |-> Wanted(Pieces(file, EndOfLine)[n])])
    ELSE Wanted(line)

Sent == [n \in DOMAIN sent |-> Asks(sent[n].message_type, sent[n].buf, sent[n].additionalArg)]

WellFormed ==
  /\ Single(file, EndOfLine) /\ Single(file, Blank)
  /\ \A n \in DOMAIN typed : Single(typed[n], Blank) /\ typed[n] # <<>>
  /\ \A k \in DOMAIN file \ {1} : file[k] = Blank => file[k - 1] # EndOfLine

(* Where no delimiter is doubled, the requests are those of all the lines  *)
(* in their order, each with its own arguments, those behind a STOP in the *)
(* file included; and the sender crashes only at a line that is empty or   *)
(* begins with a blank, or at a READ of no file.                           *)
SentRight ==
  /\ WellFormed /\ pc \in {"sender", "executeFile", "endClient"} =>
       LET wanted == FlattenSeq([n \in DOMAIN typed |-> WantedOf(typed[n])])
       IN IF pc = "executeFile" THEN IsPrefix(Sent, wanted) ELSE Sent = wanted
  /\ pc = "crashed" =>
       \/ ~WellFormed
       \/ Last(typed)[1] = "READ" /\ ~IsPrefix(<<"READ", Blank, FileName>>, Last(typed))

(* "a text file with one command in each line" (lab6/README.md:18), also   *)
(* when there are empty lines.                                             *)
EveryLineSent ==
  pc = "sender" /\ runClient /\ Single(file, Blank) /\ file # <<>> /\ file[1] # Blank =>
    \A n \in DOMAIN typed : typed[n][1] = "READ" =>
      \A k \in DOMAIN WantedOf(typed[n]) : WantedOf(typed[n])[k] \in Range(Sent)

(* A client that has announced its end says nothing more (stopCMD). *)
NothingAfterStop == \A n \in 1 .. Len(sent) - 1 : sent[n].message_type # "STOP"
=============================================================================
