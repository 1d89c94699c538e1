------------------------------- MODULE Words --------------------------------
(***************************************************************************)
(* lab10: how a client of the cluster counts the words of the tasks it     *)
(* gets.  A task is counted in a thread of its own, which reads the        *)
(* message where main has it; main goes on as soon as the thread runs, and *)
(* frees the text.  A text is a sequence of characters.                    *)
(***************************************************************************)
EXTENDS Integers, Sequences, FiniteSets, FiniteSetsExt, SequencesExt, Functions

CONSTANTS Texts, Delimer,
          Tasks            \* the tasks the client gets, 1, 2, ...

WordsAssumption == Tasks \in Nat /\ <<>> \in Texts

Thread == 1 .. Tasks

VARIABLES main,        \* "receive", "wait" for the thread, or "clean"
          message,     \* what main has read: the task, its text, and whether that is freed
          thread, text, allWords, list, pushed,
          loaded,      \* what a thread that adds 1 to LIST_SIZE has read of it
          LIST_SIZE, answer

vars == <<main, message, thread, text, allWords, list, pushed, loaded, LIST_SIZE, answer>>

NoAnswer == [allWord |-> -1, uniqWordsCount |-> -1]

Init ==
  /\ main = "receive" /\ message = [task |-> 0, text |-> <<>>, freed |-> TRUE]
  /\ thread = [t \in Thread |-> "none"]
  /\ text = [t \in Thread |-> <<>>] /\ allWords = text /\ list = text
  /\ pushed = [t \in Thread |-> 0] /\ loaded = pushed
  /\ LIST_SIZE = 0 /\ answer = [t \in Thread |-> NoAnswer]

-----------------------------------------------------------------------------
(* The words of a text. *)

(* Where the first character from the n-th on is that is a delimiter, or   *)
(* is none.                                                                *)
FirstFrom(string, n, delimiter) ==
  Min({k \in n .. Len(string) : (string[k] = Delimer) = delimiter} \cup {Len(string) + 1})

(* A delimiter after another one makes no word.                            *)
explode(string) ==
  LET words[n \in 1 .. Len(string) + 1] ==
        LET indexStart == FirstFrom(string, n, FALSE)
            indexGlob == FirstFrom(string, indexStart, TRUE)
        IN IF indexStart > Len(string) THEN <<>>
           ELSE <<SubSeq(string, indexStart, indexGlob - 1)>> \o words[indexGlob]
  IN words[1]

(* Bug: a word that is not the first of the list is not looked for. *)
LooksAtFirst(word, nodes) ==
  IF Len(nodes) > 1 /\ nodes[1].word = word
    THEN [nodes EXCEPT ![1].count = @ + 1]
    ELSE Append(nodes, [word |-> word, count |-> 1])

(* The last node is not compared with the word.                            *)
pushUniq(word, nodes) ==
  LET found == {n \in 1 .. Len(nodes) - 1 : nodes[n].word = word}
  IN IF found # {} THEN [nodes EXCEPT ![Min(found)].count = @ + 1]
     ELSE Append(nodes, [word |-> word, count |-> 1])

-----------------------------------------------------------------------------
(* main. *)

getMessage ==
  /\ main = "receive" /\ message.task < Tasks
  /\ \E string \in Texts : message' = [task |-> message.task + 1, text |-> string, freed |-> FALSE]
  /\ main' = "wait" /\ thread' = [thread EXCEPT ![message'.task] = "new"]
  /\ UNCHANGED <<text, allWords, list, pushed, loaded, LIST_SIZE, answer>>

cleanServerMessage ==
  /\ main = "clean" /\ main' = "receive"
  /\ message' = [message EXCEPT !.freed = TRUE]
  /\ UNCHANGED <<thread, text, allWords, list, pushed, loaded, LIST_SIZE, answer>>

-----------------------------------------------------------------------------
(* The thread. *)

(* create = 1: main waits no longer. *)
Created(t) ==
  /\ thread[t] = "new" /\ thread' = [thread EXCEPT ![t] = "explode"]
  /\ main' = "clean"
  /\ UNCHANGED <<message, text, allWords, list, pushed, loaded, LIST_SIZE, answer>>

(* The text of the message main has now; of one that is freed, anything.   *)
Explode(t) ==
  /\ thread[t] = "explode" /\ thread' = [thread EXCEPT ![t] = "push"]
  /\ \E string \in IF message.freed THEN Texts ELSE {message.text} :
       /\ text' = [text EXCEPT ![t] = string]
       /\ allWords' = [allWords EXCEPT ![t] = explode(string)]
  /\ UNCHANGED <<main, message, list, pushed, loaded, LIST_SIZE, answer>>

Push(t) ==
  /\ thread[t] = "push" /\ pushed[t] < Len(allWords[t])
  /\ pushed' = [pushed EXCEPT ![t] = @ + 1]
  /\ list' = [list EXCEPT ![t] = pushUniq(allWords[t][pushed'[t]], @)]
  /\ IF Len(list'[t]) > Len(list[t])
       THEN /\ thread' = [thread EXCEPT ![t] = "size"]
            /\ loaded' = [loaded EXCEPT ![t] = LIST_SIZE]
       ELSE UNCHANGED <<thread, loaded>>
  /\ UNCHANGED <<main, message, text, allWords, LIST_SIZE, answer>>

(* All threads add to one LIST_SIZE, without a lock. *)
Size(t) ==
  /\ thread[t] = "size" /\ thread' = [thread EXCEPT ![t] = "push"]
  /\ LIST_SIZE' = loaded[t] + 1
  /\ UNCHANGED <<main, message, text, allWords, list, pushed, loaded, answer>>

(* An empty list is answered by nothing. *)
Answer(t) ==
  /\ thread[t] = "push" /\ pushed[t] = Len(allWords[t])
  /\ thread' = [thread EXCEPT ![t] = "done"]
  /\ answer' = IF list[t] = <<>> THEN answer
               ELSE [answer EXCEPT ![t] = [allWord |-> Len(allWords[t]),
                                           uniqWordsCount |-> LIST_SIZE]]
  /\ UNCHANGED <<main, message, text, allWords, list, pushed, loaded, LIST_SIZE>>

threadWork(t) == Created(t) \/ Explode(t) \/ Push(t) \/ Size(t) \/ Answer(t)

Next == getMessage \/ cleanServerMessage \/ \E t \in Thread : threadWork(t)

Spec == Init /\ [][Next]_vars

-----------------------------------------------------------------------------
(* Properties. *)

(* The words of a text by their places: where a word begins and ends.      *)
IsWord(string, n, k) ==
  /\ \A place \in n .. k : string[place] # Delimer
  /\ n > 1 => string[n - 1] = Delimer
  /\ k < Len(string) => string[k + 1] = Delimer

Places(string) == {p \in (DOMAIN string) \X (DOMAIN string) : p[1] <= p[2] /\ IsWord(string, p[1], p[2])}

Spelled(string) ==
  LET inOrder == SetToSortSeq(Places(string), LAMBDA p, q : p[1] < q[1])
  IN [n \in DOMAIN inOrder |-> SubSeq(string, inOrder[n][1], inOrder[n][2])]

(* A thread counts every word of the text it has read: the list holds the  *)
(* words pushed so far, with counts that add up.  A word has two nodes at  *)
(* the most, and only one next to the other.                               *)
WordsRight ==
  \A t \in Thread : thread[t] \notin {"none", "new", "explode"} =>
    LET nodes == list[t]
        done == SubSeq(allWords[t], 1, pushed[t])
    IN /\ allWords[t] = Spelled(text[t])
       /\ Range([n \in DOMAIN nodes |-> nodes[n].word]) = Range(done)
       /\ \A word \in Range(done) :
            MapThenSumSet(LAMBDA n : nodes[n].count, {n \in DOMAIN nodes : nodes[n].word = word})
              = Cardinality({n \in DOMAIN done : done[n] = word})
       /\ \A n, k \in DOMAIN nodes : n < k /\ nodes[n].word = nodes[k].word => k = n + 1

(* "counting all the words and the particular words" (lab10/README.md:10). *)
CountsRight ==
  \A t \in Thread : answer[t] # NoAnswer =>
    answer[t].uniqWordsCount = Cardinality(Range(allWords[t]))

(* The task that came is the one that is counted (lab10/README.md:14). *)
OwnText == [][\A t \in Thread : Explode(t) => text'[t] = message.text /\ message.task = t]_vars
=============================================================================
