----------------------------- MODULE ListFile -------------------------------
(***************************************************************************)
(* lab3 zad2 and zad3, lab4 zad2: how the programs read the list of files  *)
(* to watch, each line a path and a number of seconds.  Watchers and       *)
(* FileMonitor start from the result.  A character is a letter of a path,  *)
(* a digit, a blank or the end of a line.                                  *)
(***************************************************************************)
EXTENDS Integers, Sequences, FiniteSets, SequencesExt, FiniteSetsExt

CONSTANTS Contents,     \* of the list
          Digit,        \* what the characters that are digits are worth
          Blank, EndOfLine

ListAssumption == Blank # EndOfLine /\ {Blank, EndOfLine} \cap DOMAIN Digit = {}

VARIABLES fileListContent, howWatchingFile, watchingItems,
          index,    \* how many characters have been read
          pc

vars == <<fileListContent, howWatchingFile, watchingItems, index, pc>>

Init ==
  /\ fileListContent = <<>> /\ howWatchingFile = 0 /\ watchingItems = <<>>
  /\ index = 0 /\ pc = "start"

fileSize == Len(fileListContent)

(* The last line needs no end.  The byte before a list of none is not of   *)
(* the list, and may be the same as an end.                                *)
CountLines ==
  /\ pc = "start" /\ pc' = "parse"
  /\ fileListContent' \in Contents
  /\ LET ends == Cardinality({k \in DOMAIN fileListContent' : fileListContent'[k] = EndOfLine})
     IN CASE fileListContent' = <<>> -> howWatchingFile' \in {0, 1}
          [] fileListContent' # <<>> ->
               howWatchingFile' = IF Last(fileListContent') = EndOfLine THEN ends ELSE ends + 1
  /\ UNCHANGED <<watchingItems, index>>

(* What is between the n-th character and the next of that kind, or the    *)
(* end of the list; nothing behind the end.                                *)
UpTo(n, character) ==
  SubSeq(fileListContent, n,
         Min({k \in n .. fileSize : fileListContent[k] = character} \cup {fileSize + 1}) - 1)

(* Blanks before the digits are passed over, and what is behind them is    *)
(* left.  No number is 0.                                                  *)
strtol(text) ==
  LET first == Min({k \in DOMAIN text : text[k] # Blank} \cup {Len(text) + 1})
      last == Min({k \in first .. Len(text) : text[k] \notin DOMAIN Digit} \cup {Len(text) + 1}) - 1
  IN FoldLeft(LAMBDA value, d : 10 * value + Digit[d], 0, SubSeq(text, first, last))

(* Bug: the next item begins at the end of the line. *)
StopsAtEnd ==
  /\ pc = "parse" /\ Len(watchingItems) < howWatchingFile
  /\ LET path == UpTo(index + 1, Blank)
         seconds == UpTo(index + Len(path) + 2, EndOfLine)
     IN /\ watchingItems' = Append(watchingItems, [pathToFile |-> path, interval |-> strtol(seconds)])
        /\ index' = index + Len(path) + 1 + Len(seconds)
  /\ UNCHANGED <<fileListContent, howWatchingFile, pc>>

(* The path ends at a blank, wherever that is.                             *)
ParseItem ==
  /\ pc = "parse" /\ Len(watchingItems) < howWatchingFile
  /\ LET path == UpTo(index + 1, Blank)
         seconds == UpTo(index + Len(path) + 2, EndOfLine)
     IN /\ watchingItems' = Append(watchingItems, [pathToFile |-> path, interval |-> strtol(seconds)])
        /\ index' = index + Len(path) + 1 + Len(seconds) + 1
  /\ UNCHANGED <<fileListContent, howWatchingFile, pc>>

Parsed ==
  /\ pc = "parse" /\ Len(watchingItems) = howWatchingFile /\ pc' = "watch"
  /\ UNCHANGED <<fileListContent, howWatchingFile, watchingItems, index>>

Next == CountLines \/ ParseItem \/ Parsed

Spec == Init /\ [][Next]_vars

-----------------------------------------------------------------------------
(* Properties. *)

(* The n-th line. *)
Lines ==
  LET starts == {1} \cup {k + 1 : k \in {j \in DOMAIN fileListContent : fileListContent[j] = EndOfLine}}
      order == SetToSortSeq(starts \cap DOMAIN fileListContent, <)
  IN [n \in DOMAIN order |-> UpTo(order[n], EndOfLine)]

IsEntry(line) ==
  \E k \in 2 .. Len(line) - 1 :
    /\ \A j \in DOMAIN line : line[j] = Blank <=> j = k
    /\ \A j \in k + 1 .. Len(line) : line[j] \in DOMAIN Digit

(* There is an item for every line; the items of the first lines, as long  *)
(* as they are well formed, are what the lines say, whatever follows; and  *)
(* an item that reaches into another line needs a line without a blank.    *)
ListRight ==
  pc = "watch" /\ fileListContent # <<>> =>
    /\ Len(watchingItems) = Len(Lines)
    /\ \A n \in DOMAIN Lines :
         (\A k \in 1 .. n : IsEntry(Lines[k])) =>
            \E name, number \in {SubSeq(Lines[n], a, b) : a, b \in DOMAIN Lines[n]} :
              /\ name \o <<Blank>> \o number = Lines[n]
              /\ watchingItems[n] = [pathToFile |-> name, interval |-> strtol(number)]
    /\ \A n \in DOMAIN Lines :
         Contains(watchingItems[n].pathToFile, EndOfLine) =>
           \E k \in DOMAIN Lines : ~Contains(Lines[k], Blank)

(* "in each line the name of a file and a number" (lab3/README.md:12): a   *)
(* line that has none takes away no other.                                 *)
EveryEntryWatched ==
  pc = "watch" =>
    \A n \in DOMAIN Lines : IsEntry(Lines[n]) =>
      \E item \in Range(watchingItems) : IsPrefix(item.pathToFile \o <<Blank>>, Lines[n])
=============================================================================
