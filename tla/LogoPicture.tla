------------------------------ MODULE LogoPicture ------------------------------
(***************************************************************************)
(* What the picture of module BootLogo ought to be: the file, expanded.    *)
(***************************************************************************)
EXTENDS BootLogo

(* A pixel shows a colour if every channel is less than one step away from *)
(* the same part of its full scale.                                        *)
Near(x, top, y) == LET d == top * y - 255 * x IN -top < d /\ d < top
Shows(pixel, colour) ==
  IF screen.depth = 16 THEN pixel = colour
  ELSE /\ Near(Red(colour), 31, pixel.red) /\ Near(Green(colour), 63, pixel.green)
       /\ Near(Blue(colour), 31, pixel.blue)

(* The first k runs, expanded one after the other: end[j] is the pixel the *)
(* run j ends with.                                                        *)
AreShown(k, end) ==
  /\ end[0] = 0 /\ Len(painted) = end[k]
  /\ \A j \in 1 .. k :
       /\ end[j] = end[j - 1] + runs[j].n
       /\ \A m \in end[j - 1] + 1 .. end[j] : Shows(painted[m], runs[j].colour)

(* What is shown before the file is unlinked is the file: its runs one     *)
(* after the other, up to the first that has no room, in its colours.      *)
(* This is said of screens of 16 and 32 bits a pixel; at 24 the words of   *)
(* lines 161 and 162 are not the pixels, and nothing is promised.          *)
PictureIsFile ==
  screen.depth \in {16, 32} /\ (pc \in {"show", "fb_close", "unlink"} \/ ~linked) =>
    \E k \in 0 .. Len(runs) : \E end \in [0 .. k -> 0 .. fb_pixels] :
      /\ AreShown(k, end)
      /\ k = Len(runs) \/ end[k] + runs[k + 1].n > fb_pixels
================================================================================
