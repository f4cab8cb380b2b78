------------------------------ MODULE Picture ------------------------------
(***************************************************************************)
(* What image.h promises: lines of pixels that have a color and may be     *)
(* opaque, made out of one another, and a screen made of such lines.  How  *)
(* a color is split into vectors of bits does not show, and a line that    *)
(* could not be made is not there.  A call is asked for by its name and    *)
(* arguments; it makes what they say, or is refused and changes nothing.  *)
(***************************************************************************)
EXTENDS Integers

CONSTANTS Width, Height, Lines, Palettes, Null
VARIABLES shown,    \* the picture of each line, Null if there is none
          screen,   \* the colors of the rows, Null if there is no screen
          asked     \* the last call, chosen by the program
vars == <<shown, screen>>

Pixels == 0 .. Width - 1
There == {l \in Lines : shown[l] # Null}
Picture(color(_), opaque) == [color |-> [p \in Pixels |-> color(p)], opaque |-> opaque]

Blank == Picture(LAMBDA p : 0, {})
Shifted(a, k) ==
    Picture(LAMBDA p : IF p - k \in Pixels THEN a.color[p - k] ELSE 0,
            {p \in Pixels : p - k \in a.opaque})
Rolled(a, k) ==
    Picture(LAMBDA p : a.color[(p + k) % Width], {p \in Pixels : (p + k) % Width \in a.opaque})
Recolored(a, palette) == Picture(LAMBDA p : palette[a.color[p] + 1], a.opaque)
\* b lies on a, and is seen through where mask says it is not opaque.
Stacked(a, b, mask) ==
    Picture(LAMBDA p : IF p \in mask THEN b.color[p] ELSE a.color[p], a.opaque \cup mask)
Joined(a, b, start) ==
    Picture(LAMBDA p : IF p < start THEN a.color[p] ELSE b.color[p],
            {p \in Pixels : p \in IF p < start THEN a.opaque ELSE b.opaque})

\* What colors has a color for is painted over, and opaque unless that is 0.
Painted(a, colors) ==
    Picture(LAMBDA p : IF p \in DOMAIN colors THEN colors[p] ELSE a.color[p],
            {p \in Pixels : IF p \in DOMAIN colors THEN colors[p] # 0 ELSE p \in a.opaque})

\* The call is one that makes a, of pictures that are there.
Made(a) ==
    \/ asked' = <<"create">> /\ a = Blank
    \/ \E l \in There :
        \/ \E k \in -Width .. Width :
            \/ asked' = <<"shift", l, k>> /\ a = Shifted(shown[l], k)
            \/ asked' = <<"extract", l, k>> /\ a = Rolled(shown[l], k)
        \/ \E palette \in Palettes :
            asked' = <<"map", l, palette>> /\ a = Recolored(shown[l], palette)
        \/ \E k \in There :
            \/ \E j \in {l, k} :
                asked' = <<"lay", l, k, j>> /\ a = Stacked(shown[l], shown[k], shown[j].opaque)
            \/ \E start \in Pixels :
                asked' = <<"join", l, k, start>> /\ a = Joined(shown[l], shown[k], start)

Becomes(l, a) == shown' = [shown EXCEPT ![l] = a] /\ UNCHANGED screen
Make(l) == shown[l] = Null /\ Made(shown'[l]) /\ Becomes(l, shown'[l])
Paint(l) ==
    /\ asked'[1] = "set_word" /\ asked'[2] = l /\ l \in There
    /\ Becomes(l, Painted(shown[l], asked'[3]))
Drop(l) == asked' = <<"free", l>> /\ Becomes(l, Null)

Open ==
    /\ asked' = <<"image_create">> /\ screen = Null
    /\ screen' = [y \in 1 .. Height |-> Blank.color] /\ UNCHANGED shown
\* The line stays, or goes into the screen.
Put(l, y) ==
    /\ screen # Null /\ l \in There
    /\ screen' = [screen EXCEPT ![y] = shown[l].color]
    /\ \/ asked' = <<"set_line", l, y>> /\ UNCHANGED shown
       \/ asked' = <<"own_line", l, y>> /\ shown' = [shown EXCEPT ![l] = Null]
Close == asked' = <<"image_free">> /\ screen' = Null /\ UNCHANGED shown

Init == shown \in [Lines -> {Null} \cup [color : [Pixels -> 0 .. 3], opaque : SUBSET Pixels]]
        /\ screen = Null
Next ==
    \/ \E l \in Lines : Make(l) \/ Paint(l) \/ Drop(l) \/ \E y \in 1 .. Height : Put(l, y)
    \/ Open \/ Close
Spec == Init /\ [][Next]_vars
=============================================================================
