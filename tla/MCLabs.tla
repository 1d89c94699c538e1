------------------------------- MODULE MCLabs -------------------------------
(***************************************************************************)
(* The small programs of the repository, for TLC: those of Labs and the    *)
(* others.  A behaviour is one of one program, chosen in Init, and v1, v2, *)
(* ... stand for the variables of a program that is not in Labs, in the    *)
(* order its module declares them.  Those it does not need stay 0.         *)
(***************************************************************************)
EXTENDS Labs, Sequences, SequencesExt

VARIABLES v1, v2, v3, v4, v5, v6, v7, v8, v9, v10, v11, v12, v13, v14, v15, v16

-----------------------------------------------------------------------------
(* Lists for the watchers of lab4: one file that changes, one whose process *)
(* is given many commands, two files of one name, and of two names.        *)
OneWatched == <<"a", "gone">>
OneCommanded == <<"b", "gone">>
TheBasenames == {OneWatched, OneCommanded, <<"a", "a">>, <<"a", "b">>}
TheWrites == [list \in TheBasenames |-> CASE list = OneWatched   -> 2
                                          [] list = OneCommanded -> 0
                                          [] OTHER               -> 1]
TheCommands == [list \in TheBasenames |-> CASE list = OneWatched   -> 1
                                            [] list = OneCommanded -> 3
                                            [] OTHER               -> 0]
TheInterrupts == [list \in TheBasenames |-> IF list \in {OneWatched, OneCommanded} THEN 1 ELSE 0]

(* Lists for those of lab3; an interval of 0 ends a process.               *)
TheLists == {<<<<"a", 1>>, <<"b", 0>>>>, <<<<"a", 1>>, <<"a", 1>>>>, <<<<"a", 1>>, <<"b", 1>>>>}
TheLines == [list \in TheLists |-> IF list[2][2] = 0 THEN 2 ELSE 1]

(* Lines for the interpreter of pipelines: programs that write, copy or    *)
(* read, that are not there, and lines that are not well formed.           *)
PipelineFiles ==
  { <<<<"source", "|", "filter", "|", "filter">>, <<"quit", "|", "source">>>>,
    <<<<"source", "|", "quit", "x", "|", "filter">>, <<"source", "|", "|", "quit">>,
      <<"quit", "", "|", "filter">>, <<"quit", "|", "quit">>>>,
    <<<<"source", "|", "unknown", "|", "filter">>, <<>>, <<"quit">>>>,
    <<<<"unknown", "|", "unknown">>, <<"source", "|", "quit">>>> }

TheImages == {[width |-> 3, height |-> 2, lines |-> <<<<10, 200>>, <<30, 40, 50, 250>>>>]}

TheFilters == {[width |-> 1, lines |-> <<<<10>>>>],
               [width |-> 3, lines |-> <<<<5, 0, 0>>, <<0, 15, 0>>, <<0, 0, -10>>>>],
               [width |-> 2, lines |-> <<<<5, 0, 2>>, <<5>>>>]}

(* With a byte above 127, and with an end that is not a whole record.      *)
RecordFiles == {<<>>, <<98, 1, 97, 2, 200, 3, 97, 4>>, <<3, 2, 1>>, <<97, 9>>}

Phrases == {<<"create_table", "1">>, <<"create_table", "2">>, <<"remove_block", "1">>,
            <<"search_directory", "d", "f", "t">>, <<"search_directory", "d", "f", "/t">>}
Unfinished == {<<"create_table">>, <<"create_table", "remove_block", "1">>,
               <<"remove_block">>, <<"search_directory", "t">>}
Lines == {FlattenSeq(phrases) : phrases \in BoundedSeq(Phrases, 4)}
           \cup {<<"create_table", "2">> \o end : end \in Unfinished} \cup Unfinished
Numbers == [w \in {"create_table", "remove_block", "search_directory", "1", "2", "d", "f", "t",
                   "/t"} |-> CASE w = "1" -> 1 [] w = "2" -> 2 [] OTHER -> 0]

(* Of t and /t, none, or one is there already. *)
There(t, absolute) == [name \in {"t", "/t"} |-> IF name = "t" THEN t ELSE absolute]
TemporaryFiles == {There("none", "none"), There("kept", "none"), There("unreadable", "none"),
                   There("none", "kept")}

Entry(dir, what, target, dot, atime, mtime) ==
  [dir |-> dir, kind |-> what, target |-> target, dot |-> dot, atime |-> atime, mtime |-> mtime]

(* A tree with a name that begins with a dot, and one with links: up the   *)
(* tree, and to nothing.                                                   *)
TheTrees ==
  {[root   |-> Entry("nowhere", "dir", "none", FALSE, 1, 1),
    sub    |-> Entry("root", "dir", "none", FALSE, 1, 2),
    file   |-> Entry("root", "file", "none", FALSE, 2, 1),
    inner  |-> Entry("sub", "dir", "none", FALSE, 1, 1),
    hidden |-> Entry("sub", "file", "none", TRUE, 1, 1),
    deep   |-> Entry("inner", "file", "none", FALSE, 1, 2)],
   [root   |-> Entry("nowhere", "dir", "none", FALSE, 1, 1),
    sub    |-> Entry("root", "dir", "none", FALSE, 1, 1),
    up     |-> Entry("sub", "link", "root", FALSE, 1, 1),
    gone   |-> Entry("root", "link", "elsewhere", FALSE, 1, 1)]}

TheTexts == {<<>>, <<" ", "a", " ", "b", " ", "b", " ", "b">>, <<"a", " ", " ", "a", " ">>,
             <<"b", " ", "b", " ", "a", " ", "b">>}

(* Commands for the chat, some not as they should be.                      *)
ChatLines == {<<>>, <<"STOP">>, <<"FRIENDS">>, <<"ECHO", " ", "x">>, <<"ECHO", " ", " ", "x">>,
              <<"2ONE", " ", "y", " ", "x">>, <<" ", "LIST">>, <<"ADD">>}
ChatFiles == {FlattenSeq([n \in DOMAIN lines |-> lines[n] \o <<"\n">>]) :
                lines \in BoundedSeq(ChatLines, 3)}
             \cup {<<"ECHO", " ", "x", "\n", "STOP", "\n", "LIST">>}
TypedLines == (ChatLines \ {<<"FRIENDS">>, <<"ADD">>})
              \cup {<<"READ", " ", "f">>, <<"READ">>, <<"READ", " ", "g">>}

-----------------------------------------------------------------------------
FifoOf == INSTANCE Fifo WITH
          Slaves <- {1, 2}, replyCount <- 2, MaxPrinted <- 2,
          path <- v1, content <- v2, offset <- v3, master <- v4, slave <- v5,
          sent <- v6, printed <- v7, heard <- v8

Pipes == INSTANCE Pipelines WITH
          Files <- PipelineFiles, MaxProcess <- 9, Capacity <- 1, Output <- 2,
          lines <- v1, pc <- v2, parent <- v3, line <- v4, at <- v5,
          waited <- v6, pipes <- v7, open <- v8, stdin <- v9, stdout <- v10,
          filled <- v11, work <- v12

Image == INSTANCE ImageFilter WITH
          Images <- TheImages, Filters <- TheFilters, ThreadCounts <- {1, 2}, MaxThreads <- 2,
          threadCount <- v1, divisionType <- v2, photo <- v3, filter <- v4,
          resultImage <- v5, done <- v6, joined <- v7, pc <- v8

Sort == INSTANCE RecordSort WITH
          Contents <- RecordFiles, Counts <- {2, 5}, BlockSizes <- {1, 2}, Letters <- {97, 98},
          OffsetRange <- 8,
          command <- v1, type <- v2, how_records <- v3, block_size <- v4,
          file <- v5, destination <- v6, before <- v7, i <- v8,
          index_of_min_block <- v9, min_block <- v10, current_block <- v11,
          buffer <- v12, pc <- v13

Table == INSTANCE BlockTable WITH
          CommandLines <- Lines, Number <- Numbers, Absolute <- [name \in {"/t"} |-> "t"],
          Files <- TemporaryFiles,
          line <- v1, linked <- v2, word <- v3, array_size <- v4,
          commands <- v5, command <- v6, cmd_rm_index <- v7, files <- v8,
          before <- v9, _array_size <- v10, _tmp_file_name <- v11,
          _operation_results <- v12, freed <- v13, lost <- v14, pc <- v15,
          status <- v16

Walk == INSTANCE Walks WITH
          Trees <- TheTrees, Root <- "root", Nowhere <- "nowhere", Dates <- {1, 2}, MaxOpen <- 3,
          lab <- v1, main <- v2, tree <- v3, type <- v4, date <- v5,
          path <- v6, cwd <- v7, frames <- v8, left <- v9, printed <- v10,
          listed <- v11, pc <- v12

Word == INSTANCE Words WITH
          Texts <- TheTexts, Delimer <- " ", Tasks <- 2,
          main <- v1, message <- v2, thread <- v3, text <- v4,
          allWords <- v5, list <- v6, pushed <- v7, loaded <- v8,
          LIST_SIZE <- v9, answer <- v10

Commands == INSTANCE CommandFile WITH
          Typed <- TypedLines, Contents <- ChatFiles, FileName <- "f", Blank <- " ",
          EndOfLine <- "\n", MaxTyped <- 2,
          file <- v1, typed <- v2, clientRequest <- v3, runClient <- v4,
          command <- v5, sent <- v6, pc <- v7

List == INSTANCE ListFile WITH
          Contents <- BoundedSeq({"p", "1", " ", "\n"}, 7), Digit <- [d \in {"1"} |-> 1],
          Blank <- " ", EndOfLine <- "\n",
          fileListContent <- v1, howWatchingFile <- v2, watchingItems <- v3, index <- v4,
          pc <- v5

ASSUME MCAssumption ==
  /\ FifoOf!FifoAssumption
  /\ Pipes!PipelinesAssumption
  /\ Image!FilterAssumption
  /\ Sort!SortAssumption
  /\ Table!TableAssumption
  /\ Walk!WalkAssumption
  /\ Word!WordsAssumption
  /\ Commands!CommandAssumption
  /\ List!ListAssumption

-----------------------------------------------------------------------------
(* The variables from the n-th on. *)
Idle14 == v14 = 0 /\ v15 = 0 /\ v16 = 0
Idle13 == v13 = 0 /\ Idle14
Idle11 == v11 = 0 /\ v12 = 0 /\ Idle13
Idle9 == v9 = 0 /\ v10 = 0 /\ Idle11
Idle8 == v8 = 0 /\ Idle9
Idle6 == v6 = 0 /\ v7 = 0 /\ Idle8
Idle1 == v1 = 0 /\ v2 = 0 /\ v3 = 0 /\ v4 = 0 /\ v5 = 0 /\ Idle6
from14 == <<v14, v15, v16>>
from13 == <<v13, from14>>
from11 == <<v11, v12, from13>>
from9 == <<v9, v10, from11>>
from8 == <<v8, from9>>
from6 == <<v6, v7, from8>>
from1 == <<v1, v2, v3, v4, v5, from6>>

InitOther ==
  \/ lab = "Fifo" /\ FifoOf!Init /\ Idle9
  \/ lab = "Pipelines" /\ Pipes!Init /\ Idle13
  \/ lab = "ImageFilter" /\ Image!Init /\ Idle9
  \/ lab = "RecordSort" /\ Sort!Init /\ Idle14
  \/ lab = "BlockTable" /\ Table!Init
  \/ lab = "Walks" /\ Walk!Init /\ Idle13
  \/ lab = "Words" /\ Word!Init /\ Idle11
  \/ lab = "CommandFile" /\ Commands!Init /\ Idle8
  \/ lab = "ListFile" /\ List!Init /\ Idle6

NextOther ==
  \/ lab = "Fifo" /\ FifoOf!Next /\ UNCHANGED from9
  \/ lab = "Pipelines" /\ Pipes!Next /\ UNCHANGED from13
  \/ lab = "ImageFilter" /\ Image!Next /\ UNCHANGED from9
  \/ lab = "RecordSort" /\ Sort!Next /\ UNCHANGED from14
  \/ lab = "BlockTable" /\ Table!Next
  \/ lab = "Walks" /\ Walk!Next /\ UNCHANGED from13
  \/ lab = "Words" /\ Word!Next /\ UNCHANGED from11
  \/ lab = "CommandFile" /\ Commands!Next /\ UNCHANGED from8
  \/ lab = "ListFile" /\ List!Next /\ UNCHANGED from6

MCInit ==
  \/ Init /\ Idle1
  \/ /\ InitOther
     /\ NoSignals /\ NoCount /\ NoAck /\ NoFiles /\ NoMonitor /\ NoWatch /\ NoDate /\ NoStart

MCNext == \/ Next /\ UNCHANGED from1
          \/ NextOther /\ UNCHANGED labVars

MCSpec == MCInit /\ [][MCNext]_<<labVars, from1>>

-----------------------------------------------------------------------------
(* Properties of the programs that are not in Labs. *)

(* Between processes that come and go, what is written into a pipe that is *)
(* read is read once, and nobody waits for an end that somebody forgot     *)
(* (lab5 zad1 and zad2).                                                   *)
PipesRight == /\ lab = "Pipelines" => Pipes!LineByLine
              /\ lab = "Fifo" => FifoOf!HeardAreKept

(* Threads that share their results compute what one would (lab8 and the   *)
(* count of words of lab10).                                               *)
ThreadsRight == /\ lab = "ImageFilter" => Image!Filtered
                /\ lab = "Words" => Word!WordsRight

(* Files are sorted, copied, searched, walked and read without a loss      *)
(* (lab1, lab2, lab3, the commands of lab6 that are in a file).            *)
FilesRight == /\ lab = "RecordSort" => Sort!SortsRight /\ Sort!CopiesRight
              /\ lab = "BlockTable" => Table!BlocksKept /\ Table!FilesKept
              /\ lab = "Walks" => Walk!WalkRight
              /\ lab = "CommandFile" => Commands!SentRight
              /\ lab = "ListFile" => List!ListRight
=============================================================================
