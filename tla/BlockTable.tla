----------------------------- MODULE BlockTable -----------------------------
(***************************************************************************)
(* lab1: the library that keeps what find has printed in a table of        *)
(* blocks, and the programs that use it: main is linked with it, main_dl   *)
(* loads it from a fixed path.  A block is named after the search that     *)
(* made it.  What find prints is not modelled.                             *)
(***************************************************************************)
EXTENDS Integers, Sequences, SequencesExt

CONSTANTS CommandLines,   \* sequences of words, without the name of the program
          Number,         \* what strtol makes of a word: a function on the words
          Absolute,       \* of each word that begins with a /: the file of that name below
                          \* the directory the program is in
          Files           \* what there can be before of each file a search may name: "none",
                          \* "kept", "unreadable"

TableAssumption ==
  /\ \A line \in CommandLines : \A n \in DOMAIN line : line[n] \in DOMAIN Number
  /\ \A word \in DOMAIN Number : Number[word] \in Int
  /\ \A there \in Files : \A name \in DOMAIN there : there[name] \in {"none", "kept", "unreadable"}

VARIABLES line, linked,
          word,                     \* the argument of main that comes next
          array_size, commands,     \* what main has read
          command,                  \* the command that is next
          cmd_rm_index,
          files, before,            \* what there is of each file, and was before; "written"
                                    \* stands for what find has written, or written to
          _array_size, _tmp_file_name, _operation_results,
          freed, lost,              \* history: blocks freed, and how often; blocks never freed
          pc, status

arguments == <<line, linked, before>>
parsed == <<array_size, commands>>
table == <<_array_size, _tmp_file_name, _operation_results, freed, lost>>
vars == <<arguments, word, parsed, command, cmd_rm_index, files, table, pc, status>>

Init ==
  /\ line = <<>> /\ linked = TRUE /\ word = 1
  /\ array_size = -1 /\ commands = <<>> /\ command = 1 /\ cmd_rm_index = 0
  /\ files = <<>> /\ before = <<>>
  /\ _array_size = 0 /\ _tmp_file_name = "none" /\ _operation_results = <<>>
  /\ freed = <<>> /\ lost = {}
  /\ pc = "start" /\ status = -1

Exit(code) == pc' = "done" /\ status' = code

(* main_dl finds its library, or not. *)
Start ==
  /\ pc = "start"
  /\ line' \in CommandLines /\ files' \in Files /\ before' = files'
  /\ \/ linked' = TRUE /\ pc' = "parse" /\ UNCHANGED status
     \/ linked' = FALSE /\ pc' = "parse" /\ UNCHANGED status
     \/ linked' = FALSE /\ Exit(100)
  /\ UNCHANGED <<word, parsed, command, cmd_rm_index, table>>

-----------------------------------------------------------------------------
(* main reads its arguments.  The word behind the size is looked at in the *)
(* same turn; other words are passed over.                                 *)
Invalid == pc' = "wrong" /\ UNCHANGED <<word, parsed>>

Behind(n) == Len(line) - n

Command(n) ==
  CASE line[n] = "remove_block" ->
         IF Behind(n) >= 1
           THEN commands' = Append(commands, [op |-> "remove", tmp |-> "none"]) /\ word' = n + 2
                /\ UNCHANGED pc
           ELSE pc' = "wrong" /\ UNCHANGED <<word, commands>>
    [] line[n] = "search_directory" ->
         IF Behind(n) >= 3
           THEN commands' = Append(commands, [op |-> "search", tmp |-> line[n + 3]])
                /\ word' = n + 4 /\ UNCHANGED pc
           ELSE pc' = "wrong" /\ UNCHANGED <<word, commands>>
    [] OTHER -> word' = n + 1 /\ UNCHANGED <<pc, commands>>

Parse ==
  /\ pc = "parse"
  /\ IF word > Len(line)
       THEN /\ pc' = IF array_size <= 0 \/ array_size > 65535 THEN "wrong" ELSE "init"
            /\ UNCHANGED <<word, parsed>>
       ELSE IF line[word] = "create_table"
              THEN IF array_size = -1 /\ Behind(word) >= 1
                     THEN array_size' = Number[line[word + 1]] /\ Command(word + 1)
                     ELSE Invalid
              ELSE UNCHANGED array_size /\ Command(word)
  /\ UNCHANGED <<arguments, command, cmd_rm_index, files, table, status>>

Wrong ==
  /\ pc = "wrong" /\ Exit(1)
  /\ UNCHANGED <<arguments, word, parsed, command, cmd_rm_index, files, table>>

init ==
  /\ pc = "init" /\ pc' = "next"
  /\ _array_size' = array_size
  /\ UNCHANGED <<arguments, word, parsed, command, cmd_rm_index, files, _tmp_file_name,
                 _operation_results, freed, lost, status>>

-----------------------------------------------------------------------------
(* A search. *)

(* fopen for reading. *)
check_file_exists(name) == files[name] \in {"kept", "written"}

Searching == pc = "next" /\ command <= Len(commands) /\ commands[command].op = "search"

(* Bug: the file is not looked for. *)
TakesAnyName ==
  /\ Searching
  /\ _tmp_file_name' = commands[command].tmp /\ pc' = "find" /\ UNCHANGED status
  /\ UNCHANGED <<arguments, word, parsed, command, cmd_rm_index, files, _array_size,
                 _operation_results, freed, lost>>

set_tmp_file_name ==
  /\ Searching
  /\ IF check_file_exists(commands[command].tmp)
       THEN Exit(101) /\ UNCHANGED _tmp_file_name
       ELSE _tmp_file_name' = commands[command].tmp /\ pc' = "find" /\ UNCHANGED status
  /\ UNCHANGED <<arguments, word, parsed, command, cmd_rm_index, files, _array_size,
                 _operation_results, freed, lost>>

(* Where the output goes: to ./ and the name. *)
Output == IF _tmp_file_name \in DOMAIN Absolute THEN Absolute[_tmp_file_name] ELSE _tmp_file_name

(* The shell opens the file to append to it, and find runs.  main goes on  *)
(* whether that fails or not.                                              *)
find ==
  /\ pc = "find" /\ pc' = "load"
  /\ \/ files' = [files EXCEPT ![Output] = IF @ = "unreadable" THEN @ ELSE "written"]
     \/ UNCHANGED files
  /\ UNCHANGED <<arguments, word, parsed, command, cmd_rm_index, table, status>>

(* The file is removed, in the table and outside of it.                    *)
load_content_from_tmp_file ==
  /\ pc = "load"
  /\ files' = [files EXCEPT ![_tmp_file_name] = "none"]
  /\ IF Len(_operation_results) >= _array_size \/ ~check_file_exists(_tmp_file_name)
       THEN Exit(103) /\ UNCHANGED <<_operation_results, command>>
       ELSE /\ _operation_results' = Append(_operation_results, command)
            /\ command' = command + 1 /\ pc' = "next" /\ UNCHANGED status
  /\ UNCHANGED <<arguments, word, parsed, cmd_rm_index, _array_size, _tmp_file_name, freed, lost>>

-----------------------------------------------------------------------------
(* The end of a block, and of the table. *)

Free(blocks) == freed' = freed \o blocks

Removing == pc = "next" /\ command <= Len(commands) /\ commands[command].op = "remove"

Removed ==
  /\ command' = command + 1 /\ cmd_rm_index' = cmd_rm_index + 1
  /\ UNCHANGED <<arguments, word, parsed, files, _array_size, _tmp_file_name, lost, pc, status>>

(* Bug: the blocks behind it stay where they are. *)
LeavesAHole ==
  /\ Removing
  /\ IF cmd_rm_index >= Len(_operation_results)
       THEN UNCHANGED <<_operation_results, freed>>
       ELSE /\ Free(<<_operation_results[cmd_rm_index + 1]>>)
            /\ _operation_results' = Front(_operation_results)
  /\ Removed

(* The index is the number of the removal, not the argument. *)
remove_operation_item ==
  /\ Removing
  /\ IF cmd_rm_index >= Len(_operation_results)
       THEN UNCHANGED <<_operation_results, freed>>
       ELSE /\ Free(<<_operation_results[cmd_rm_index + 1]>>)
            /\ _operation_results' = RemoveAt(_operation_results, cmd_rm_index + 1)
  /\ Removed

(* After the report.  The last block is not freed. *)
clear ==
  /\ pc = "next" /\ command > Len(commands)
  /\ IF _operation_results = <<>>
       THEN UNCHANGED <<freed, lost>>
       ELSE Free(Front(_operation_results)) /\ lost' = {Last(_operation_results)}
  /\ _operation_results' = <<>>
  /\ Exit(0)
  /\ UNCHANGED <<arguments, word, parsed, command, cmd_rm_index, files, _array_size,
                 _tmp_file_name>>

Killed ==
  /\ pc \notin {"start", "done", "killed"} /\ pc' = "killed"
  /\ UNCHANGED <<arguments, word, parsed, command, cmd_rm_index, files, table, status>>

Next == \/ Start \/ Parse \/ Wrong \/ init
        \/ set_tmp_file_name \/ find \/ load_content_from_tmp_file \/ remove_operation_item
        \/ clear \/ Killed

Spec == Init /\ [][Next]_vars

-----------------------------------------------------------------------------
(* Properties. *)

(* Every search that is done has one block: it is in the table, freed      *)
(* once, or the one that clear forgets; the table is in the order of the   *)
(* searches, with no block twice, and not larger than was asked for.       *)
BlocksKept ==
  /\ Len(_operation_results) <= _array_size
  /\ \A n, k \in DOMAIN _operation_results :
       n < k => _operation_results[n] < _operation_results[k]
  /\ \A n, k \in DOMAIN freed : n # k => freed[n] # freed[k]
  /\ Range(freed) \cap (Range(_operation_results) \cup lost) = {}
  /\ {n \in 1 .. command - 1 : commands[n].op = "search"}
       = Range(freed) \cup Range(_operation_results) \cup lost

(* The files that a search may harm: a file of the user that cannot be     *)
(* read counts as not there, and is removed; and the output of a search    *)
(* with an absolute name goes to a file in the directory of the program,   *)
(* which is neither looked for nor removed.                                *)
Exposed == {name \in DOMAIN files : before[name] = "unreadable"}
             \cup {Absolute[name] : name \in DOMAIN Absolute \cap {_tmp_file_name}}

(* Whatever is searched for, no other file of the user is touched, and     *)
(* when the program has ended, however, no other temporary file is left.   *)
FilesKept ==
  \A name \in DOMAIN files \ Exposed :
    /\ before[name] = "kept" => files[name] = "kept"
    /\ pc = "done" => files[name] = before[name]

-----------------------------------------------------------------------------
(* What does not hold. *)

(* No file of the user is touched at all, and none is left. *)
AllFilesKept ==
  \A name \in DOMAIN files : /\ before[name] # "none" => files[name] = before[name]
                             /\ pc = "done" => files[name] = before[name]

(* "remove the block with the index from the table" (lab1/README.md:35).   *)
RemovesAsAsked ==
  [][\A n \in 1 .. Len(_operation_results) :
       Removing /\ _operation_results' # _operation_results =>
         \E k \in DOMAIN line : line[k] = "remove_block" /\ Number[line[k + 1]] = cmd_rm_index]_vars
=============================================================================
