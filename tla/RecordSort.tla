----------------------------- MODULE RecordSort -----------------------------
(***************************************************************************)
(* lab2 zad1: a file of records of block_size bytes is generated, sorted   *)
(* in place by selection, or copied, with system calls (sys) or library    *)
(* functions (lib).  A file is the sequence of its bytes.  A byte is 0 ..  *)
(* 255; a char of the program has a sign.  Offsets are of unsigned int.    *)
(* The program can be killed between two writes.                           *)
(***************************************************************************)
EXTENDS Integers, Sequences, SequencesExt

CONSTANTS Contents,     \* the files there are before
          Counts,       \* what the user gives as how_records
          BlockSizes,   \* what the user gives as block_size
          Letters,      \* the bytes that generate_alphabet writes: 97 .. 121 in the code
          OffsetRange   \* 2^32 in the code

SortAssumption ==
  /\ Counts \subseteq Nat \ {0} /\ BlockSizes \subseteq Nat \ {0}
  /\ OffsetRange \in Nat \ {0} /\ Letters \subseteq 97 .. 121
  /\ \A file \in Contents : \A n \in DOMAIN file : file[n] \in 0 .. 255

VARIABLES command, type, how_records, block_size,
          file,           \* the file that is generated or sorted, or copied from
          destination,    \* the file it is copied to
          before,         \* history: the file as it was
          i, index_of_min_block, min_block, current_block, buffer,
          pc

arguments == <<command, type, how_records, block_size, before>>
vars == <<arguments, file, destination, i, index_of_min_block, min_block, current_block, buffer, pc>>

Init ==
  /\ command = "none" /\ type = "none" /\ how_records = 0 /\ block_size = 0
  /\ file = <<>> /\ destination = <<>> /\ before = <<>>
  /\ i = 0 /\ index_of_min_block = 0 /\ min_block = <<>> /\ current_block = <<>> /\ buffer = <<>>
  /\ pc = "start"

-----------------------------------------------------------------------------
(* Bytes and blocks. *)

(* A char that is compared with an int. *)
Signed(byte) == IF byte > 127 THEN byte - 256 ELSE byte

Smaller(a, b) == IF a < b THEN a ELSE b

(* The block at an offset, or what there is of it. *)
Read(bytes, offset) ==
  SubSeq(bytes, offset + 1, Smaller(offset + block_size, Len(bytes)))

(* A short read leaves the rest of the buffer as it was. *)
Into(old, read) == [n \in DOMAIN old |-> IF n \in DOMAIN read THEN read[n] ELSE old[n]]

(* What is behind the end of the file is filled with 0. *)
Written(bytes, offset, block) ==
  [n \in 1 .. (IF Len(bytes) < offset + Len(block) THEN offset + Len(block) ELSE Len(bytes)) |->
     IF n \in offset + 1 .. offset + Len(block) THEN block[n - offset]
     ELSE IF n \in DOMAIN bytes THEN bytes[n] ELSE 0]

Offset(n) == (n * block_size) % OffsetRange

Zeros == [n \in 1 .. block_size |-> 0]

-----------------------------------------------------------------------------
(* main: the command, and files that are there already. *)
main ==
  /\ pc = "start"
  /\ command' \in {"generate", "sort", "copy"} /\ type' \in {"sys", "lib"}
  /\ how_records' \in Counts /\ block_size' \in BlockSizes
  /\ file' \in Contents /\ before' = file'
  /\ destination' \in IF command' = "copy" THEN Contents ELSE {<<>>}
  /\ pc' = command'
  /\ buffer' = Zeros' /\ min_block' = Zeros' /\ current_block' = Zeros'
  /\ UNCHANGED <<i, index_of_min_block>>

(* The file is not made empty before: what is behind the records stays.    *)
generate_alphabet ==
  /\ pc = "generate"
  /\ IF i = how_records
       THEN pc' = "done" /\ UNCHANGED <<file, i>>
       ELSE /\ \E letter \in Letters :
                 file' = Written(file, i * block_size, [n \in 1 .. block_size |-> letter])
            /\ i' = i + 1 /\ UNCHANGED pc
  /\ UNCHANGED <<arguments, destination, index_of_min_block, min_block, current_block, buffer>>

-----------------------------------------------------------------------------
(* sort. *)

(* The blocks from the i-th on, read one after another. *)
BlocksFrom(offset) ==
  [n \in 1 .. (IF Len(file) <= offset THEN 0
               ELSE (Len(file) - offset + block_size - 1) \div block_size) |->
     Read(file, offset + (n - 1) * block_size)]

(* Bug: the comparison is turned round. *)
LastMin(blocks) ==
  LET keys == [n \in DOMAIN blocks |-> Signed(blocks[n][1])]
      least == {n \in DOMAIN blocks : \A k \in DOMAIN blocks : keys[n] >= keys[k]}
  IN IF blocks = <<>> THEN 0 ELSE (CHOOSE n \in least : \A k \in least : n <= k) - 1

(* The first of the blocks whose first byte is the least.                  *)
FirstMin(blocks) ==
  LET keys == [n \in DOMAIN blocks |-> Signed(blocks[n][1])]
      least == {n \in DOMAIN blocks : \A k \in DOMAIN blocks : keys[n] <= keys[k]}
  IN IF blocks = <<>> THEN 0 ELSE (CHOOSE n \in least : \A k \in least : n <= k) - 1

(* One turn up to the first write. *)
Select ==
  /\ pc = "sort" /\ i < how_records
  /\ index_of_min_block' = FirstMin(BlocksFrom(Offset(i)))
  /\ IF index_of_min_block' = 0
       THEN i' = i + 1 /\ UNCHANGED <<pc, min_block, current_block>>
       ELSE /\ pc' = "writemin"
            /\ min_block' = Into(min_block, Read(file, Offset(i + index_of_min_block')))
            /\ current_block' = Into(current_block, Read(file, Offset(i)))
            /\ UNCHANGED i
  /\ UNCHANGED <<arguments, file, destination, buffer>>

WriteMin ==
  /\ pc = "writemin" /\ pc' = "writecurrent"
  /\ file' = Written(file, Offset(i), min_block)
  /\ UNCHANGED <<arguments, destination, i, index_of_min_block, min_block, current_block, buffer>>

WriteCurrent ==
  /\ pc = "writecurrent" /\ pc' = "sort"
  /\ file' = Written(file, Offset(i + index_of_min_block), current_block)
  /\ i' = i + 1
  /\ UNCHANGED <<arguments, destination, index_of_min_block, min_block, current_block, buffer>>

Sorted ==
  /\ pc = "sort" /\ i = how_records /\ pc' = "done"
  /\ UNCHANGED <<arguments, file, destination, i, index_of_min_block, min_block, current_block,
                 buffer>>

-----------------------------------------------------------------------------
(* copy.  sys copies blocks up to the end of the file, and does not make   *)
(* the other file empty before; lib copies how_records blocks.             *)
CopyBlock ==
  LET read == Read(file, i * block_size)
  IN /\ buffer' = Into(buffer, read)
     /\ destination' = Written(IF type = "lib" /\ i = 0 THEN <<>> ELSE destination,
                               i * block_size, buffer')
     /\ i' = i + 1
     /\ UNCHANGED pc

copy ==
  /\ pc = "copy"
  /\ IF (type = "sys" /\ i * block_size < Len(file)) \/ (type = "lib" /\ i < how_records)
       THEN CopyBlock
       ELSE pc' = "done" /\ UNCHANGED <<buffer, destination, i>>
  /\ UNCHANGED <<arguments, file, index_of_min_block, min_block, current_block>>

Killed ==
  /\ pc \notin {"start", "done", "killed"} /\ pc' = "killed"
  /\ UNCHANGED <<arguments, file, destination, i, index_of_min_block, min_block, current_block,
                 buffer>>

Next == \/ main \/ generate_alphabet \/ Select \/ WriteMin \/ WriteCurrent \/ Sorted \/ copy
        \/ Killed

Spec == Init /\ [][Next]_vars

-----------------------------------------------------------------------------
(* Properties. *)

Whole(bytes) == Len(bytes) % block_size = 0 /\ Len(bytes) <= OffsetRange

Records(bytes) == [n \in 1 .. Len(bytes) \div block_size |-> Read(bytes, (n - 1) * block_size)]
Key(bytes, n) == Signed(Records(bytes)[n][1])
Occurrences(bytes, record) == Len(SelectSeq(Records(bytes), LAMBDA r : r = record))

(* A sorted file has the records it had, the first how_records of them in  *)
(* order and none behind them that is less; a record is missing only when  *)
(* the program is killed between its two writes.                           *)
SortsRight ==
  command = "sort" /\ Whole(before) =>
    /\ pc \in {"sort", "done"} =>
         \A n \in DOMAIN Records(before) :
           Occurrences(file, Records(before)[n]) = Occurrences(before, Records(before)[n])
    /\ pc = "done" =>
         \A n, k \in DOMAIN Records(file) : n < k /\ n <= how_records =>
           Key(file, n) <= Key(file, k)

(* The copy begins with the records of the file.  With lib it ends there   *)
(* too, if the file has as many as are asked for.                          *)
CopiesRight ==
  command = "copy" /\ pc = "done" /\ Whole(before) =>
    LET asked == how_records * block_size
    IN IF type = "sys" THEN IsPrefix(file, destination)
       ELSE asked <= Len(file) => destination = SubSeq(file, 1, asked)

(* "the value of the first byte of the record (as a number without a       *)
(* sign)" (lab2/README.md:13).                                             *)
Unsigned ==
  command = "sort" /\ Whole(before) /\ pc = "done" =>
    \A n, k \in DOMAIN Records(file) : n < k /\ n <= how_records =>
      Records(file)[n][1] <= Records(file)[k][1]

(* "copies file 1 to file 2" (lab2/README.md:14). *)
CopiesExactly == command = "copy" /\ pc = "done" => destination = file
=============================================================================
