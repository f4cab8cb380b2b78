------------------------------- MODULE Image -------------------------------
(***************************************************************************)
(* The lines and pictures of image.c, in a program that makes lines out of *)
(* lines and puts them into an image.  A pixel has a color of two bits, in *)
(* the vectors msb and lsb, and is opaque if it is in the third.           *)
(*                                                                         *)
(* Memory may run out at any allocation of a call, and a function of       *)
(* image.c that gives up frees what it has.  The allocations of a call are *)
(* numbered by the vector they are for; those that fail are in fails.      *)
(*                                                                         *)
(* A vector is the set of pixels at one (module BitVector has the words)   *)
(* or Null.  All lines have one width, a multiple of the word.  Null       *)
(* pointers for the outputs are left out: the compiler knows them.         *)
(***************************************************************************)
EXTENDS Integers, FiniteSets

CONSTANTS
    Width, WordBits, Height,
    Palettes,       \* sequences of four colors
    Lines,          \* names of the program's lines
    Start,          \* the colors of those it has painted at first
    Null,
    Calls,          \* bound: calls
    Shortages(_)    \* bound: which sets of a call's allocations may fail

VARIABLES
    asked,          \* the last call: its name, and the arguments that tell what it makes
    lines,          \* the program's lines
    image,          \* the rows of the image, Null when there is none
    err,            \* what the last call returned
    short,          \* whether an allocation of it failed
    lost,           \* vectors nobody points to any more
    calls
vars == <<asked, lines, image, err, short, lost, calls>>

Pixels == 0 .. Width - 1
Parts == {"lsb", "msb", "opacity"}
Empty == [x \in Parts |-> Null]
Complete(l) == \A x \in Parts : l[x] # Null
DEFAULT_PALETTE == <<0, 1, 2, 3>>

ASSUME ImageAssumption ==
    /\ Width \in Nat \ {0} /\ WordBits \in Nat \ {0} /\ Width % WordBits = 0
    /\ Height \in Nat \ {0} /\ Calls \in Nat
    /\ Palettes \subseteq [1 .. 4 -> 0 .. 3]
    /\ DOMAIN Start \subseteq Lines
    /\ \A l \in DOMAIN Start : Start[l] \in [Pixels -> 0 .. 3]
\* Null is no vector and no image; nor is it a picture or a screen of module Picture.
ASSUME NullAssumption ==
    /\ \A v \in SUBSET Pixels : v # Null
    /\ Null \notin [1 .. Height -> [Parts -> SUBSET Pixels]]
    /\ Null \notin [color : [Pixels -> 0 .. 3], opaque : SUBSET Pixels]
    /\ Null \notin [1 .. Height -> [Pixels -> 0 .. 3]]

-----------------------------------------------------------------------------
(* bit_vector.c.  A combination overwrites its first argument; when it is
   refused because the second is NULL, the first is lost to the caller that
   assigns the result to it. *)

not(v) == IF v = Null THEN Null ELSE Pixels \ v
and(v1, v2) == IF Null \in {v1, v2} THEN Null ELSE v1 \cap v2
or(v1, v2) == IF Null \in {v1, v2} THEN Null ELSE v1 \cup v2
Dropped(v1, v2) == v1 # Null /\ v2 = Null

-----------------------------------------------------------------------------
(* image.c *)

Outcome(code, line, n) == [err |-> code, line |-> line, lost |-> n]
valid(line, n) ==
    IF Complete(line) THEN Outcome("ERR_NONE", line, n) ELSE Outcome("ERR_MEM", Empty, n)
\* The n-th copy of a part.
Copy(iml, x, n, fails) == IF <<x, n>> \in fails THEN Null ELSE iml[x]
do_image_line(part(_), fails) == [x \in Parts |-> IF <<x, 0>> \in fails THEN Null ELSE part(x)]

image_line_create(fails) == valid(do_image_line(LAMBDA x : {}, fails), 0)
\* Mutant: what is shifted out at one end comes back in at the other.
RollingShift(iml, shift, fails) ==
    valid(do_image_line(LAMBDA x : {p \in Pixels : (p - shift) % Width \in iml[x]}, fails), 0)
image_line_shift(iml, shift, fails) ==
    valid(do_image_line(LAMBDA x : {p \in Pixels : p - shift \in iml[x]}, fails), 0)
image_line_extract_wrap_ext(iml, index, fails) ==
    valid(do_image_line(LAMBDA x : {p \in Pixels : (p + index) % Width \in iml[x]}, fails), 0)

image_line_set_word(line, index, msb, lsb) ==
    LET word == WordBits * index .. WordBits * (index + 1) - 1
        set(v, bits) == (v \ word) \cup bits
    IN  [lsb |-> set(line.lsb, lsb), msb |-> set(line.msb, msb),
         opacity |-> set(line.opacity, msb \cup lsb)]

\* The pixels of color i.
mask(iml, i, fails) ==
    CASE i = 0 -> and(not(Copy(iml, "msb", 1, fails)), not(Copy(iml, "lsb", 1, fails)))
      [] i = 1 -> and(not(Copy(iml, "msb", 2, fails)), iml.lsb)
      [] i = 2 -> and(not(Copy(iml, "lsb", 3, fails)), iml.msb)
      [] i = 3 -> and(Copy(iml, "lsb", 4, fails), iml.msb)
\* One round of the loop.  Colors that become 0 need no mask.
MapColor(done, iml, map, i, fails) ==
    LET color == map[i + 1]
        chosen == mask(iml, i, fails)
        lsb == IF color % 2 = 1 THEN or(done.line.lsb, chosen) ELSE done.line.lsb
        msb == IF color > 1 THEN or(done.line.msb, chosen) ELSE done.line.msb
        fresh == [done.line EXCEPT !.lsb = lsb, !.msb = msb]
    IN  CASE done.err # "ERR_NONE" \/ color = 0 -> done
          [] done.err = "ERR_NONE" /\ color # 0 /\ chosen = Null -> Outcome("ERR_MEM", Empty, 0)
          [] OTHER ->
                IF (color % 2 = 1 /\ lsb = Null) \/ (color > 1 /\ msb = Null)
                THEN Outcome("ERR_MEM", Empty, 1)
                ELSE Outcome("ERR_NONE", fresh, 0)
\* The vectors of the output are not looked at unless a color needs them.
image_line_map_colors(iml, map, fails) ==
    IF map = DEFAULT_PALETTE
    THEN Outcome("ERR_NONE", do_image_line(LAMBDA x : iml[x], fails), 0)
    ELSE LET black == do_image_line(LAMBDA x : IF x = "opacity" THEN iml[x] ELSE {}, fails)
             round(done, i) == MapColor(done, iml, map, i, fails)
         IN  round(round(round(round(Outcome("ERR_NONE", black, 0), 0), 1), 2), 3)

\* Mutant: the halves that have been merged into the output are not freed.
BelowNotFreed(iml1, iml2, p_opacity, fails) ==
    LET above(x) == and(Copy(iml2, x, 2, fails), p_opacity)
        below(x) == and(Copy(iml1, x, 3, fails), not(p_opacity))
        merged(x) == IF x = "opacity" THEN or(Copy(iml1, x, 4, fails), p_opacity) ELSE or(below(x), above(x))
    IN  Outcome("ERR_NONE", [x \in Parts |-> merged(x)], 2)
image_line_below_with_opacity(iml1, iml2, p_opacity, fails) ==
    LET notopacity == not(IF <<"opacity", 1>> \in fails THEN Null ELSE p_opacity)
        above(x) == and(Copy(iml2, x, 2, fails), p_opacity)
        below(x) == and(Copy(iml1, x, 3, fails), notopacity)
        halves == {"msb", "lsb"}
        merged(x) == IF x = "opacity" THEN or(Copy(iml1, x, 4, fails), p_opacity) ELSE or(below(x), above(x))
    IN  IF notopacity = Null \/ \E x \in halves : Null \in {above(x), below(x)}
        THEN Outcome("ERR_MEM", Empty, Cardinality({x \in halves : Dropped(Copy(iml1, x, 3, fails), notopacity)}))
        ELSE Outcome("ERR_NONE", [x \in Parts |-> merged(x)], 0)

\* bit_vector_join makes two masks and loses the first if it has no second.
image_line_join(iml1, iml2, start, fails) ==
    LET first == 0 .. start - 1
        mask1(x) == IF <<x, 1>> \in fails THEN Null ELSE first
        mask2(x) == IF <<x, 2>> \in fails THEN Null ELSE Pixels \ first
        joined(x) == or(and(mask1(x), iml1[x]), and(mask2(x), iml2[x]))
    IN  IF start = 0 THEN valid(do_image_line(LAMBDA x : iml2[x], fails), 0)
        ELSE valid([x \in Parts |-> joined(x)], Cardinality({x \in Parts : Dropped(mask1(x), mask2(x))}))

image_get_pixel(line, x) ==
    (IF x \in line.msb THEN 2 ELSE 0) + (IF x \in line.lsb THEN 1 ELSE 0)

-----------------------------------------------------------------------------
(* The program *)

Painted(color) ==
    [lsb |-> {p \in Pixels : color[p] % 2 = 1}, msb |-> {p \in Pixels : color[p] > 1},
     opacity |-> {p \in Pixels : color[p] # 0}]
Plain == Parts \X {0}
Called(what, code, fails, n) ==
    /\ asked' = what /\ calls' = calls + 1
    /\ err' = code /\ short' = (fails # {}) /\ lost' = lost + n
\* A call that makes the line out, of lines that must have all their parts.
Makes(out, what, needs, fails, outcome) ==
    LET done == IF \A l \in needs : Complete(lines[l]) THEN outcome
                ELSE Outcome("ERR_BAD_PARAMETER", Empty, 0)
    IN  /\ lines[out] = Empty
        /\ lines' = [lines EXCEPT ![out] = done.line]
        /\ Called(what, done.err, fails, done.lost)
        /\ UNCHANGED image

CreateLine(out) ==
    \E fails \in Shortages(Plain) : Makes(out, <<"create">>, {}, fails, image_line_create(fails))
ShiftLine(out, l) ==
    \E fails \in Shortages(Plain), shift \in -Width .. Width :
        Makes(out, <<"shift", l, shift>>, {l}, fails, image_line_shift(lines[l], shift, fails))
ExtractLine(out, l) ==
    \E fails \in Shortages(Plain), index \in -Width .. Width :
        Makes(out, <<"extract", l, index>>, {l}, fails, image_line_extract_wrap_ext(lines[l], index, fails))
MapLine(out, l) ==
    \E map \in Palettes :
    \E fails \in Shortages(Plain \cup IF map = DEFAULT_PALETTE THEN {} ELSE {"lsb", "msb"} \X (1 .. 4)) :
        Makes(out, <<"map", l, map>>, {l}, fails, image_line_map_colors(lines[l], map, fails))
LayLine(out, l, k, mask_of) ==
    \E fails \in Shortages(({"opacity"} \X {1, 4}) \cup ({"lsb", "msb"} \X {2, 3})) :
        Makes(out, <<"lay", l, k, mask_of>>, {l, k, mask_of}, fails,
              image_line_below_with_opacity(lines[l], lines[k], lines[mask_of].opacity, fails))
JoinLines(out, l, k) ==
    \E start \in Pixels :
    \E fails \in Shortages(Parts \X IF start = 0 THEN {0} ELSE {1, 2}) :
        Makes(out, <<"join", l, k, start>>, {l, k}, fails, image_line_join(lines[l], lines[k], start, fails))

SetWord(l) ==
    \E index \in 0 .. (Width \div WordBits) - 1 :
    LET word == WordBits * index .. WordBits * (index + 1) - 1 IN
    \E msb \in SUBSET word, lsb \in SUBSET word :
        /\ Complete(lines[l])
        /\ lines' = [lines EXCEPT ![l] = image_line_set_word(@, index, msb, lsb)]
        /\ Called(<<"set_word", l, [p \in word |-> image_get_pixel([lsb |-> lsb, msb |-> msb], p)]>>,
                  "ERR_NONE", {}, 0)
        /\ UNCHANGED image
image_line_free(l) ==
    lines' = [lines EXCEPT ![l] = Empty] /\ Called(<<"free", l>>, "ERR_NONE", {}, 0) /\ UNCHANGED image

\* The rows are made from the first on; all are freed when one fails.
image_create ==
    /\ image = Null
    /\ \E fails \in Shortages({<<"content", 0>>} \cup (Parts \X (1 .. Height))) :
        /\ image' = IF fails # {} THEN Null ELSE [y \in 1 .. Height |-> image_line_create({}).line]
        /\ Called(<<"image_create">>, IF fails # {} THEN "ERR_MEM" ELSE "ERR_NONE", fails, 0)
    /\ UNCHANGED lines
image_set_line(y, l) ==
    /\ image # Null
    /\ LET done(code) == Called(<<"set_line", l, y>>, code, {}, 0)
       IN  IF Complete(lines[l]) THEN image' = [image EXCEPT ![y] = lines[l]] /\ done("ERR_NONE")
           ELSE UNCHANGED image /\ done("ERR_BAD_PARAMETER")
    /\ UNCHANGED lines
\* The vectors are the image's from now on, and no longer the program's.
image_own_line_content(y, l) ==
    /\ image # Null
    /\ LET done(code) == Called(<<"own_line", l, y>>, code, {}, 0)
       IN  IF Complete(lines[l])
           THEN /\ image' = [image EXCEPT ![y] = lines[l]] /\ lines' = [lines EXCEPT ![l] = Empty]
                /\ done("ERR_NONE")
           ELSE UNCHANGED <<lines, image>> /\ done("ERR_BAD_PARAMETER")
image_free == image' = Null /\ Called(<<"image_free">>, "ERR_NONE", {}, 0) /\ UNCHANGED lines

\* The program has painted some lines with image_line_set_word.
ImageInit ==
    /\ lines = [l \in Lines |-> IF l \in DOMAIN Start THEN Painted(Start[l]) ELSE Empty]
    /\ asked = <<"none">> /\ image = Null /\ err = "ERR_NONE" /\ short = FALSE /\ lost = 0 /\ calls = 0

ImageNext ==
    /\ calls < Calls
    /\ \/ \E out \in Lines :
            \/ CreateLine(out)
            \/ \E l \in Lines : ShiftLine(out, l) \/ ExtractLine(out, l) \/ MapLine(out, l)
            \/ \E l \in Lines, k \in Lines : JoinLines(out, l, k) \/ \E j \in {l, k} : LayLine(out, l, k, j)
       \/ \E l \in Lines : SetWord(l) \/ image_line_free(l)
       \/ \E y \in 1 .. Height, l \in Lines : image_set_line(y, l) \/ image_own_line_content(y, l)
       \/ image_create \/ image_free
ImageSpec == ImageInit /\ [][ImageNext]_vars

-----------------------------------------------------------------------------
(* A line as the promise of image.h has it: nothing, unless all of it is there. *)
Shown(line) ==
    IF Complete(line)
    THEN [color |-> [p \in Pixels |-> image_get_pixel(line, p)], opaque |-> line.opacity]
    ELSE Null
Shows == INSTANCE Picture WITH
    shown <- [l \in Lines |-> Shown(lines[l])],
    screen <- IF image = Null THEN Null ELSE [y \in 1 .. Height |-> Shown(image[y]).color]

(* Masks, copies and merges of three vectors make of every line exactly the
   picture that the call promises with its arguments, whichever allocations
   fail on the way: a line that has all its parts is never half done. *)
ImplementsPicture == Shows!Spec

(* What is lost is never lost silently, and only a shortage of memory makes a
   call fail with ERR_MEM.  A call may well lose vectors: with the copy of the
   opacity missing, image_line_below_with_opacity loses both lower halves. *)
LossIsReported ==
    [][(lost' > lost => err' = "ERR_MEM") /\ (err' = "ERR_MEM" => short')]_vars
=============================================================================
