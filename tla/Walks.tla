------------------------------- MODULE Walks --------------------------------
(***************************************************************************)
(* lab2 zad2 and lab3 zad1: programs that walk a tree of files and print   *)
(* those whose date compares with a given one; those of lab3 also run      *)
(* ls -l for every directory.  main1 uses readdir, main2 uses nftw, which  *)
(* is a function of the C library.  What is printed of a file, and dates   *)
(* as texts, are not modelled; /bin/ls is there.                           *)
(***************************************************************************)
EXTENDS Integers, Sequences, FiniteSets, SequencesExt

CONSTANTS Trees,      \* functions on the entries of a tree, to records of
                      \* [dir, kind, target, dot, atime, mtime]
          Root,       \* the directory that is walked; an entry of every tree
          Nowhere,    \* the directory Root is in
          Dates,
          MaxOpen     \* how many directories can be open at once

WalkAssumption ==
  /\ MaxOpen \in Nat \ {0} /\ Dates \subseteq Nat
  /\ \A tree \in Trees :
       /\ Root \in DOMAIN tree /\ tree[Root].dir = Nowhere /\ tree[Root].kind = "dir"
       /\ Nowhere \notin DOMAIN tree
       /\ \A e \in DOMAIN tree :
            /\ tree[e].dir \in {Nowhere} \cup DOMAIN tree
            /\ tree[e].kind = "link" <=> tree[e].target # "none"

VARIABLES lab, main, tree, type, date,
          path,        \* the argument: "absolute", a "name" where the program starts, or "."
          cwd,
          frames,      \* main1: the calls of search, the last one running
          left,        \* main2: what nftw has still to report
          printed,     \* how often each entry was printed
          listed,      \* how often ls was run for each directory
          pc

arguments == <<lab, main, tree, type, date, path>>
vars == <<arguments, cwd, frames, left, printed, listed, pc>>

Init ==
  /\ lab = 2 /\ main = 1 /\ tree = <<>> /\ type = "none" /\ date = 0 /\ path = "absolute"
  /\ cwd = Nowhere /\ frames = <<>> /\ left = {}
  /\ printed = <<>> /\ listed = <<>> /\ pc = "start"

-----------------------------------------------------------------------------
(* Files. *)

(* What stat and realpath give: the file behind a link.                    *)
Resolved(e) == IF tree[e].kind = "link" THEN tree[e].target ELSE e

IsDirectory(e) == Resolved(e) \in DOMAIN tree /\ tree[Resolved(e)].kind = "dir"

In(dir) == {e \in DOMAIN tree : tree[e].dir = dir}

(* lab2 compares the date of the last access, lab3 that of the last change. *)
Time(e) == IF lab = 2 THEN tree[Resolved(e)].atime ELSE tree[Resolved(e)].mtime

Matches(e) ==
  CASE type = "<" -> date > Time(e)
    [] type = "=" -> date = Time(e)
    [] type = ">" -> date < Time(e)

Once(counts, e) == [counts EXCEPT ![e] = @ + 1]

-----------------------------------------------------------------------------
(* main1.  A call has the path it was given: the directory, and whether    *)
(* the path is relative.                                                   *)

Call(dir) == [dir |-> dir, relative |-> FALSE, left |-> In(dir)]

(* opendir fails when too many are open. *)
Opened(calls, dir) == IF Len(calls) < MaxOpen THEN Append(calls, Call(dir)) ELSE calls

(* lab3 makes an absolute path of the argument. *)
Start ==
  /\ pc = "start"
  /\ lab' \in {2, 3} /\ main' \in {1, 2} /\ tree' \in Trees /\ type' \in {"<", "=", ">"}
  /\ date' \in Dates /\ path' \in {"absolute", "name", "."}
  /\ printed' = [e \in DOMAIN tree' |-> 0] /\ listed' = printed'
  /\ IF main' = 1
       THEN /\ frames' = <<[dir |-> Root, relative |-> path' # "absolute" /\ lab' = 2,
                            left |-> {e \in DOMAIN tree' : tree'[e].dir = Root}]>>
            /\ cwd' = Root /\ UNCHANGED left
       ELSE left' = {Root} /\ UNCHANGED <<cwd, frames>>
  /\ pc' = "walk"

Running == frames[Len(frames)]

(* The names that lab2 passes over begin with a dot. *)
Skipped(e) == lab = 2 /\ tree[e].dot

Looks(e) ==
  /\ pc = "walk" /\ main = 1 /\ frames # <<>>
  /\ e \in Running.left

(* With the wrong working directory the name is that of another file, or   *)
(* of none: what is printed then is not modelled.                          *)
Astray(e) ==
  /\ Looks(e) /\ cwd # Running.dir /\ ~Skipped(e)
  /\ pc' = "astray"
  /\ UNCHANGED <<arguments, cwd, frames, left, printed, listed>>

(* realpath of a link to nothing: lab3 passes over it; in lab2 nothing is  *)
(* known of the file, and the time of another one is compared.             *)
Dangling(e) == Resolved(e) \notin DOMAIN tree

Pops(e) == [frames EXCEPT ![Len(frames)].left = @ \ {e}]

Passes(e) ==
  /\ Looks(e) /\ (Skipped(e) \/ (cwd = Running.dir /\ Dangling(e)))
  /\ frames' = Pops(e)
  /\ \/ UNCHANGED printed
     \/ lab = 2 /\ ~Skipped(e) /\ printed' = Once(printed, e)
  /\ UNCHANGED <<arguments, cwd, left, listed, pc>>

(* lab2 does not go into a directory that does not match.  lab3 waits for  *)
(* ls before it goes on.                                                   *)
Visits(e) ==
  /\ Looks(e) /\ ~Skipped(e) /\ cwd = Running.dir /\ ~Dangling(e)
  /\ printed' = IF Matches(e) THEN Once(printed, e) ELSE printed
  /\ IF IsDirectory(e) /\ (lab = 3 \/ Matches(e))
       THEN /\ frames' = Opened(Pops(e), Resolved(e))
            /\ cwd' = IF Len(frames') > Len(frames) THEN Resolved(e) ELSE cwd
            /\ listed' = IF lab = 3 THEN Once(listed, e) ELSE listed
       ELSE frames' = Pops(e) /\ UNCHANGED <<cwd, listed>>
  /\ UNCHANGED <<arguments, left, pc>>

(* Bug: the working directory stays where the call has left it. *)
StaysThere ==
  /\ pc = "walk" /\ main = 1 /\ frames # <<>> /\ Running.left = {}
  /\ frames' = Front(frames)
  /\ pc' = IF frames' = <<>> THEN "done" ELSE pc
  /\ UNCHANGED <<arguments, cwd, left, printed, listed>>

(* Back in the call before, chdir to its path: a name is not found from    *)
(* here, and . is here.                                                    *)
Returns ==
  /\ pc = "walk" /\ main = 1 /\ frames # <<>> /\ Running.left = {}
  /\ frames' = Front(frames)
  /\ cwd' = IF frames' = <<>> \/ Last(frames').relative THEN cwd ELSE Last(frames').dir
  /\ pc' = IF frames' = <<>> THEN "done" ELSE pc
  /\ UNCHANGED <<arguments, left, printed, listed>>

-----------------------------------------------------------------------------
(* main2.  nftw reports a directory before what is in it, and follows no   *)
(* link.                                                                   *)
nftw(e) ==
  /\ pc = "walk" /\ main = 2 /\ e \in left
  /\ left' = (left \ {e}) \cup IF tree[e].kind = "dir" THEN In(e) ELSE {}
  /\ UNCHANGED <<arguments, cwd, frames, pc>>

(* print_info passes over the argument if that is a dot.  It looks at the  *)
(* file behind a link, and at that of another entry if there is none.      *)
Here(e) == e = Root /\ path = "."

Compares(e) ==
  \/ printed' = IF ~Here(e) /\ (Dangling(e) \/ Matches(e)) THEN Once(printed, e) ELSE printed
  \/ Dangling(e) /\ UNCHANGED printed

print_info2(e) == lab = 2 /\ nftw(e) /\ Compares(e) /\ UNCHANGED listed

(* In lab3 the program waits for ls. *)
print_info3(e) ==
  /\ lab = 3 /\ nftw(e) /\ Compares(e)
  /\ \/ listed' = IF ~Here(e) /\ (Dangling(e) \/ IsDirectory(e)) THEN Once(listed, e) ELSE listed
     \/ Dangling(e) /\ UNCHANGED listed

Walked2 ==
  /\ lab = 2 /\ pc = "walk" /\ main = 2 /\ left = {} /\ pc' = "done"
  /\ UNCHANGED <<arguments, cwd, frames, left, printed, listed>>

Walked3 ==
  /\ lab = 3 /\ pc = "walk" /\ main = 2 /\ left = {} /\ pc' = "done"
  /\ UNCHANGED <<arguments, cwd, frames, left, printed, listed>>

Next == \/ Start \/ Returns \/ Walked2 \/ Walked3
        \/ \E e \in DOMAIN tree : \/ Astray(e) \/ Passes(e) \/ Visits(e)
                                \/ print_info2(e) \/ print_info3(e)

Spec == Init /\ [][Next]_vars

-----------------------------------------------------------------------------
(* Properties. *)

Plain == \A e \in DOMAIN tree : tree[e].kind # "link"

(* Whether the walk of lab2 comes to an entry. *)
Reached(e) ==
  lab = 3 \/ main = 2 \/
  LET open[f \in DOMAIN tree] == /\ ~tree[f].dot /\ (f = e \/ Matches(f))
                                 /\ tree[f].dir = Root \/ open[tree[f].dir]
  IN e # Root /\ open[e]

(* Every name is looked up in the directory it is from, if the path is     *)
(* absolute.  In a tree without links every entry that matches is printed  *)
(* once; main1 of lab2 prints only what is in directories that match too.  *)
(* lab3 runs ls once for every directory below the one that is given.      *)
WalkRight ==
  /\ pc = "astray" => lab = 2 /\ path # "absolute"
  /\ pc = "done" /\ Plain =>
       \A e \in DOMAIN tree \ {Root} :
         /\ printed[e] = IF Matches(e) /\ Reached(e) THEN 1 ELSE 0
         /\ listed[e] = IF lab = 3 /\ tree[e].kind = "dir" THEN 1 ELSE 0

(* "The path given as the argument can be relative or absolute"            *)
(* (lab2/README.md:38).                                                    *)
FindsItsWay == pc # "astray"

(* "The program should not follow symbolic links to directories"           *)
(* (lab2/README.md:38).                                                    *)
NoLinksFollowed == \A n \in 1 .. Len(frames) - 1 : \E e \in In(frames[n].dir) : e = frames[n + 1].dir

(* Both programs of a lab print the files with a date "earlier, later or   *)
(* equal" (lab2/README.md:31).                                             *)
AllPrinted ==
  pc = "done" /\ Plain => \A e \in DOMAIN tree \ {Root} : Matches(e) => printed[e] = 1
=============================================================================
