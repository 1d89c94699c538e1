----------------------------- MODULE ImageFilter ----------------------------
(***************************************************************************)
(* lab8 zad1: an image is filtered by threads, each of which computes a    *)
(* block of columns or every threadCount-th column.                        *)
(*                                                                         *)
(* A file is the sequence of its lines behind the header, a line the       *)
(* sequence of its numbers; the numbers of a filter are tenths.  A matrix  *)
(* is an array of width * height numbers by rows.  calloc takes the size   *)
(* of a pointer for each of them, so that there is room for twice as many. *)
(***************************************************************************)
EXTENDS Integers, FiniteSets, Sequences, SequencesExt

CONSTANTS Images,        \* [width, height, lines]
          Filters,       \* [width, lines]
          ThreadCounts,  \* what the user asks for
          MaxThreads     \* bound: threads

FilterAssumption ==
  /\ MaxThreads \in Nat \ {0} /\ ThreadCounts \subseteq 1 .. MaxThreads
  /\ \A image \in Images : image.width \in Nat \ {0} /\ image.height \in Nat \ {0}
  /\ \A filter \in Filters : filter.width \in Nat \ {0}

Division == {"block", "interleaved"}
Order == 1 .. MaxThreads
Tenths == 10

VARIABLES threadCount, divisionType,
          photo, filter, resultImage,   \* [width, height, data]
          done,                         \* pixels each thread has computed
          joined,                       \* threads that main has joined
          pc

vars == <<threadCount, divisionType, photo, filter, resultImage, done, joined, pc>>

NoMatrix == [width |-> 0, height |-> 0, data |-> [n \in {} |-> 0]]

Init ==
  /\ threadCount = 0 /\ divisionType = "none"
  /\ photo = NoMatrix /\ filter = NoMatrix /\ resultImage = NoMatrix
  /\ done = [k \in Order |-> 0] /\ joined = 0 /\ pc = "start"

-----------------------------------------------------------------------------
(* Loading. *)

(* initIntMatrix, initFloatMatrix. *)
Matrix(width, height) ==
  [width |-> width, height |-> height, data |-> [n \in 0 .. 2 * width * height - 1 |-> 0]]

(* A place in a matrix that is being filled. *)
Place(matrix) == [matrix |-> matrix, widthIndex |-> 0, heightIndex |-> 0]

Wrapped(place) ==
  IF place.widthIndex >= place.matrix.width
    THEN [place EXCEPT !.widthIndex = 0, !.heightIndex = @ + 1] ELSE place

Stored(number, place) ==
  [place EXCEPT !.matrix.data[place.heightIndex * place.matrix.width + place.widthIndex] = number,
                !.widthIndex = @ + 1]

(* The row ends where the numbers of it do, in whatever lines they are. *)
loadImage(image) ==
  LET number(place, n) == Stored(n, Wrapped(place))
      line(place, l) == FoldLeft(number, place, l)
  IN FoldLeft(line, Place(Matrix(image.width, image.height)), image.lines).matrix

(* The row can end only where a line does. *)
loadFilter(file) ==
  LET number(place, n) == Stored(n, place)
      line(place, l) == FoldLeft(number, Wrapped(place), l)
  IN FoldLeft(line, Place(Matrix(file.width, file.width)), file.lines).matrix

Sum10(matrix) ==
  FoldLeft(LAMBDA sum, n : sum + matrix.data[n - 1], 0,
           [n \in 1 .. matrix.width * matrix.height |-> n])

(* The numbers of the filter must give 1, up to 0.1. *)
ChecksumFits(matrix) == Sum10(matrix) \in Tenths - 1 .. Tenths + 1

-----------------------------------------------------------------------------
(* The threads. *)

Larger(a, b) == IF a > b THEN a ELSE b

(* round: the nearest number, away from 0 between two. *)
Rounded(tenths) == IF tenths >= 0 THEN (2 * tenths + Tenths) \div (2 * Tenths)
                   ELSE -((Tenths - 2 * tenths) \div (2 * Tenths))

(* c / 2 is a division of integers.  No index is held below the height or  *)
(* the width: behind a row comes the next, and behind the last the room    *)
(* that is never filled.                                                   *)
Source(x, y, i, j) ==
  LET half == filter.width \div 2
  IN Larger(0, y - half + i - 1) * photo.width + Larger(0, x - half + j - 1)

filterForPixel(x, y) ==
  LET c == filter.width
      term(n) == LET i == (n - 1) \div c
                     j == (n - 1) % c
                 IN photo.data[Source(x, y, i, j)] * filter.data[i * c + j]
  IN Rounded(FoldLeft(LAMBDA sum, n : sum + term(n), 0, [n \in 1 .. c * c |-> n]))

Clamped(n) == IF n < 0 THEN 0 ELSE IF n > 255 THEN 255 ELSE n

(* resultImage.width / threadCount is a division of integers, so that ceil *)
(* has nothing to do.                                                      *)
ColumnsOf(width) == width \div threadCount

(* Bug: a block ends with the first column of the next. *)
BlockAndOne(k) ==
  ((k - 1) * ColumnsOf(resultImage.width)) .. (k * ColumnsOf(resultImage.width))

Block(k) ==
  ((k - 1) * ColumnsOf(resultImage.width)) .. (k * ColumnsOf(resultImage.width) - 1)

Interleaved(k) == {x \in 0 .. resultImage.width - 1 : x % threadCount = k - 1}

(* The columns of a thread, the n-th of them, and how many pixels it has.  *)
Columns(k) == IF divisionType = "block" THEN Block(k) ELSE Interleaved(k)
Column(k, n) == CHOOSE x \in Columns(k) : Cardinality({z \in Columns(k) : z < x}) = n
Pixels(k) == Cardinality(Columns(k)) * resultImage.height

(* A block goes by rows, the other way by columns. *)
PixelX(k, n) == Column(k, IF divisionType = "block" THEN n % Cardinality(Columns(k))
                          ELSE n \div resultImage.height)
PixelY(k, n) == IF divisionType = "block" THEN n \div Cardinality(Columns(k))
                ELSE n % resultImage.height

Compute(k) ==
  /\ pc = "threads" /\ k <= threadCount /\ done[k] < Pixels(k)
  /\ LET x == PixelX(k, done[k])
         y == PixelY(k, done[k])
     IN resultImage' = [resultImage EXCEPT !.data[y * resultImage.width + x] =
                          Clamped(filterForPixel(x, y))]
  /\ done' = [done EXCEPT ![k] = @ + 1]
  /\ UNCHANGED <<threadCount, divisionType, photo, filter, joined, pc>>

-----------------------------------------------------------------------------
(* main. *)

main ==
  /\ pc = "start"
  /\ threadCount' \in ThreadCounts /\ divisionType' \in Division
  /\ \E image \in Images, file \in Filters :
       /\ photo' = loadImage(image) /\ filter' = loadFilter(file)
       /\ resultImage' = IF ChecksumFits(filter') THEN Matrix(image.width, image.height)
                         ELSE NoMatrix
  /\ pc' = IF ChecksumFits(filter') THEN "threads" ELSE "refused"
  /\ UNCHANGED <<done, joined>>

(* The threads are joined in the order they were made in. *)
Join ==
  /\ pc = "threads" /\ joined < threadCount /\ done[joined + 1] = Pixels(joined + 1)
  /\ joined' = joined + 1
  /\ pc' = IF joined' = threadCount THEN "saved" ELSE pc
  /\ UNCHANGED <<threadCount, divisionType, photo, filter, resultImage, done>>

Next == main \/ Join \/ \E k \in Order : Compute(k)

Spec == Init /\ [][Next]_vars

-----------------------------------------------------------------------------
(* Properties. *)

Covered == IF divisionType = "block" THEN threadCount * ColumnsOf(photo.width) ELSE photo.width

(* The image that is saved does not depend on the order of the threads:    *)
(* each pixel is what filterForPixel gives.  In blocks it is so for the    *)
(* columns of whole blocks only, for the width is divided without a rest;  *)
(* the others stay black.                                                  *)
Filtered ==
  pc = "saved" =>
    \A x \in 0 .. photo.width - 1, y \in 0 .. photo.height - 1 :
      resultImage.data[y * photo.width + x] =
        IF x < Covered THEN Clamped(filterForPixel(x, y)) ELSE 0

(* "k-th thread computes the columns from (k-1)*ceil(N/m) to k*ceil(N/m)-1" *)
(* (lab8/README.md:29), so that every column is computed.                   *)
AllColumns ==
  pc = "saved" => UNION {Columns(k) : k \in 1 .. threadCount} = 0 .. photo.width - 1

(* A place in the image, read within the image. *)
ReadsInside ==
  pc = "threads" =>
    \A x \in 0 .. photo.width - 1, y \in 0 .. photo.height - 1,
       i \in 0 .. filter.width - 1, j \in 0 .. filter.width - 1 :
         Source(x, y, i, j) < photo.width * photo.height
=============================================================================
