-------------------------------- MODULE Fifo --------------------------------
(***************************************************************************)
(* lab5 zad2: slaves write lines to a FIFO, the master prints them.  A     *)
(* line is the number of the slave and of the line; it is written in one   *)
(* piece, when the slave closes the file.  What is in the FIFO is lost     *)
(* when nobody has it open any more.  A slave that comes before the master *)
(* makes a plain file.                                                     *)
(***************************************************************************)
EXTENDS Integers, Sequences, FiniteSets

CONSTANTS Slaves, replyCount,     \* replyCount: the lines of each slave
          MaxPrinted              \* bound: times a line is printed

FifoAssumption == IsFiniteSet(Slaves) /\ replyCount \in Nat /\ MaxPrinted \in Nat

Line == Slaves \X (1 .. replyCount)

VARIABLES path,        \* what is at the path: "none", "fifo" or "file"
          content, offset,   \* what is in it, and how much of a file the master has read
          master, slave, sent,
          printed,     \* how often each line was printed
          heard        \* history: the lines written while the master was reading

vars == <<path, content, offset, master, slave, sent, printed, heard>>

Init ==
  /\ path = "none" /\ content = <<>> /\ offset = 0
  /\ master = "new" /\ slave = [s \in Slaves |-> "sleep"] /\ sent = [s \in Slaves |-> 0]
  /\ printed = [l \in Line |-> 0] /\ heard = {}

Opened == {s \in Slaves : slave[s] \in {"open", "written"}}

-----------------------------------------------------------------------------
(* The slave. *)

(* fopen "w+" waits for nobody; a plain file is made empty. *)
SlaveOpens(s) ==
  /\ slave[s] = "sleep" /\ sent[s] < replyCount
  /\ slave' = [slave EXCEPT ![s] = "open"]
  /\ path' = IF path = "none" THEN "file" ELSE path
  /\ content' = IF path = "fifo" THEN content ELSE <<>>
  /\ UNCHANGED <<offset, master, sent, printed, heard>>

SlaveWrites(s) ==
  /\ slave[s] = "open" /\ slave' = [slave EXCEPT ![s] = "written"]
  /\ sent' = [sent EXCEPT ![s] = @ + 1]
  /\ content' = IF path = "fifo" THEN Append(content, <<s, sent'[s]>>) ELSE <<<<s, sent'[s]>>>>
  /\ heard' = IF master = "read" THEN heard \cup {<<s, sent'[s]>>} ELSE heard
  /\ UNCHANGED <<path, offset, master, printed>>

SlaveCloses(s) ==
  /\ slave[s] = "written" /\ slave' = [slave EXCEPT ![s] = "sleep"]
  /\ content' = IF path = "fifo" /\ Opened = {s} /\ master # "read" THEN <<>> ELSE content
  /\ UNCHANGED <<path, offset, master, sent, printed, heard>>

-----------------------------------------------------------------------------
(* The master. *)

mkfifo ==
  /\ master = "new" /\ master' = "open"
  /\ path' = IF path = "none" THEN "fifo" ELSE path
  /\ UNCHANGED <<content, offset, slave, sent, printed, heard>>

(* fopen "r" waits until somebody has the FIFO open to write. *)
MasterOpens ==
  /\ master = "open" /\ (path = "fifo" => Opened # {})
  /\ master' = "read" /\ offset' = 0
  /\ UNCHANGED <<path, content, slave, sent, printed, heard>>

Reads(line) ==
  /\ printed[line] < MaxPrinted
  /\ printed' = [printed EXCEPT ![line] = @ + 1]

(* Bug: one line is read each time the FIFO is opened. *)
ReadsOne ==
  /\ master = "read" /\ Len(content) > offset
  /\ Reads(content[offset + 1])
  /\ master' = "sleep"
  /\ IF path = "fifo" THEN content' = IF Opened = {} THEN <<>> ELSE Tail(content)
                      ELSE UNCHANGED content
  /\ UNCHANGED <<path, offset, slave, sent, heard>>

(* fread of a line. *)
MasterReads ==
  /\ master = "read" /\ Len(content) > offset
  /\ Reads(content[offset + 1])
  /\ IF path = "fifo" THEN content' = Tail(content) /\ UNCHANGED offset
                      ELSE offset' = offset + 1 /\ UNCHANGED content
  /\ UNCHANGED <<path, master, slave, sent, heard>>

(* The end of the file: of a FIFO, nobody has it open to write.  The       *)
(* master closes it and sleeps.                                            *)
MasterEnds ==
  /\ master = "read" /\ Len(content) <= offset /\ (path = "fifo" => Opened = {})
  /\ master' = "sleep"
  /\ UNCHANGED <<path, content, offset, slave, sent, printed, heard>>

MasterSlept ==
  /\ master = "sleep" /\ master' = "open"
  /\ UNCHANGED <<path, content, offset, slave, sent, printed, heard>>

Master == mkfifo \/ MasterOpens \/ MasterReads \/ MasterEnds \/ MasterSlept

Next == Master \/ \E s \in Slaves : SlaveOpens(s) \/ SlaveWrites(s) \/ SlaveCloses(s)

Spec == Init /\ [][Next]_vars

-----------------------------------------------------------------------------
(* Properties. *)

InPipe == {content[n] : n \in DOMAIN content}

(* No line comes twice through a FIFO, and a line that is written while    *)
(* the master reads it is printed or still in it: whatever slaves come and *)
(* go, the master goes on until the last has closed it.  A line written    *)
(* while the master sleeps can be lost.                                    *)
HeardAreKept ==
  path = "fifo" =>
    /\ \A l \in Line : printed[l] <= 1
    /\ \A l \in heard : printed[l] = 1 \/ l \in InPipe

(* "reads the lines from the FIFO and prints them" (lab5/README.md:20).    *)
AllKept ==
  \A l \in Line : l[2] <= sent[l[1]] => printed[l] = 1 \/ (printed[l] = 0 /\ l \in InPipe)
=============================================================================
