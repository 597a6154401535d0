------------------------------- MODULE BootLogo -------------------------------
(***************************************************************************)
(* load_565rle_image: init shows its logo by expanding a run-length        *)
(* encoded file into the framebuffer, and unlinks the file.  If any step   *)
(* fails, what was taken is given back and the console is text again, for  *)
(* init to write its name there.                                           *)
(*                                                                         *)
(* The kernel is outside: every call may fail, and mmap of nothing does.   *)
(* The framebuffer is mapped at bits = 0 and counted in halfwords.         *)
(***************************************************************************)
EXTENDS Integers, Sequences

CONSTANTS
  Run,      \* runs of the file: [n |-> its length, colour |-> 16 bits]
  MaxRuns,  \* bound of the model: runs of a file
  Screen    \* [width, height, depth], depth in bits per pixel

ASSUME LogoAssumption ==
  /\ Run \subseteq [n : Nat, colour : Nat]
  /\ MaxRuns \in Nat
  /\ Screen \subseteq [width : Nat, height : Nat, depth : {16, 24, 32}]

VARIABLES
  runs, tail,   \* the file: its runs, and 0 to 3 bytes behind them
  screen,       \* what FBIOGET_VSCREENINFO says
  pc, result,   \* where load_565rle_image is, what it has returned
  console,      \* "text" or "graphics"
  stuck,        \* history: has vt_set_mode(0) failed?
  fds, maps,    \* open files and mappings: "data" the file, "fb" the buffer
  linked,       \* is the file still there?
  max, ptr, count, bits,  \* the code's; ptr counts runs
  painted       \* the words written, in their order: pixels, but at depth 24

input == <<runs, tail, screen>>
loop  == <<max, ptr, count, bits, painted>>
taken == <<fds, maps>>
vars  == <<input, pc, result, console, stuck, taken, linked, loop>>

TypeOK ==
  /\ runs \in Seq(Run) /\ tail \in 0 .. 3 /\ screen \in Screen
  /\ pc \in {"start", "open", "fstat", "mmap", "fb_open", "fb_mmap", "fb_fail", "while",
             "show", "fb_close", "unlink", "unmap_data", "close_file", "restore_text", "done", "crashed"}
  /\ result \in {0, -1}
  /\ console \in {"text", "graphics"}
  /\ stuck \in BOOLEAN /\ linked \in BOOLEAN
  /\ fds \in SUBSET {"data", "fb"} /\ maps \in SUBSET {"data", "fb"}
  /\ max \in Nat /\ ptr \in Nat /\ count \in Nat /\ bits \in Nat

Init ==
  /\ runs \in UNION {[1 .. m -> Run] : m \in 0 .. MaxRuns} /\ tail \in 0 .. 3 /\ screen \in Screen
  /\ pc = "start" /\ result = 0
  /\ console = "text" /\ stuck = FALSE /\ linked = TRUE
  /\ fds = {} /\ maps = {}
  /\ max = 0 /\ ptr = 0 /\ count = 0 /\ bits = 0 /\ painted = <<>>

st_size == 4 * Len(runs) + tail
fb_pixels == screen.width * screen.height
fb_size == fb_pixels * (screen.depth \div 8)

-----------------------------------------------------------------------------
(* vt_set_mode *)

SetGraphics ==
  /\ pc = "start"
  /\ \/ pc' = "open" /\ console' = "graphics" /\ UNCHANGED result
     \/ pc' = "done" /\ result' = -1 /\ UNCHANGED console
  /\ UNCHANGED <<input, stuck, taken, linked, loop>>

RestoreText ==
  /\ pc = "restore_text"
  /\ \/ console' = "text" /\ UNCHANGED stuck
     \/ stuck' = TRUE /\ UNCHANGED console
  /\ pc' = "done" /\ result' = -1
  /\ UNCHANGED <<input, taken, linked, loop>>

-----------------------------------------------------------------------------
(* The file: open, fstat, mmap. *)

Open ==
  /\ pc = "open"
  /\ \/ pc' = "fstat" /\ fds' = fds \cup {"data"}
     \/ pc' = "restore_text" /\ UNCHANGED fds
  /\ UNCHANGED <<input, result, console, stuck, maps, linked, loop>>

Fstat ==
  /\ pc = "fstat"
  /\ pc' \in {"mmap", "close_file"}
  /\ UNCHANGED <<input, result, console, stuck, taken, linked, loop>>

Mmap ==
  /\ pc = "mmap"
  /\ \/ st_size > 0 /\ pc' = "fb_open" /\ maps' = maps \cup {"data"}
     \/ pc' = "close_file" /\ UNCHANGED maps
  /\ UNCHANGED <<input, result, console, stuck, fds, linked, loop>>

-----------------------------------------------------------------------------
(* fb_open *)

FbOpen ==
  /\ pc = "fb_open"
  /\ \/ pc' \in {"fb_mmap", "fb_fail"} /\ fds' = fds \cup {"fb"}
     \/ pc' = "unmap_data" /\ UNCHANGED fds
  /\ UNCHANGED <<input, result, console, stuck, maps, linked, loop>>

(* What follows it in load_565rle_image is the beginning of the loop. *)
FbMmap ==
  /\ pc = "fb_mmap"
  /\ \/ /\ fb_size > 0 /\ pc' = "while" /\ maps' = maps \cup {"fb"}
        /\ max' = fb_pixels /\ ptr' = 0 /\ count' = st_size /\ bits' = 0
        /\ UNCHANGED painted
     \/ pc' = "fb_fail" /\ UNCHANGED <<maps, loop>>
  /\ UNCHANGED <<input, result, console, stuck, fds, linked>>

FbFail ==
  /\ pc = "fb_fail"
  /\ fds' = fds \ {"fb"} /\ pc' = "unmap_data"
  /\ UNCHANGED <<input, result, console, stuck, maps, linked, loop>>

-----------------------------------------------------------------------------
(* The loop.  The 565 colour is written as it is, or with 8 bits a channel; *)
(* whatever is not 16 bits deep is taken for 32.                            *)

(* The condition of the loop, and a mutant. *)
HasByte == count > 0
HasRun == count > 3
This == runs[ptr + 1]

(* Channels of 5 and 6 bits made 8; the mutant takes the wrong bits again. *)
Repeated5(x) == x * 8 + (x % 8)
Scaled5(x) == x * 8 + x \div 4
Scaled6(x) == x * 4 + x \div 16

Red(colour) == (colour \div 2048) % 32
Green(colour) == (colour \div 32) % 64
Blue(colour) == colour % 32
Pixel(colour) ==
  IF screen.depth = 16 THEN colour
  ELSE [alpha |-> 255, red |-> Scaled5(Red(colour)), green |-> Scaled6(Green(colour)),
        blue |-> Scaled5(Blue(colour))]

(* A run is written as so many words, of as many bytes as a pixel has at   *)
(* the depths of 16 and 32.  At 24 it has fewer: the words lie across the  *)
(* pixels, and beyond the end of the mapping init may or may not survive.  *)
Paint ==
  /\ painted' = painted \o [k \in 1 .. This.n |-> Pixel(This.colour)]
  /\ bits' = bits + IF screen.depth = 16 THEN This.n ELSE 2 * This.n
  /\ max' = max - This.n /\ ptr' = ptr + 1 /\ count' = count - 4
  /\ pc' = pc \/ (2 * bits' > fb_size /\ pc' = "crashed")
  /\ UNCHANGED <<input, result, console, stuck, taken, linked>>

(* Two mutants: the run may be longer than what is left, or may be empty. *)
DrawUnchecked == pc = "while" /\ HasRun /\ Paint
DrawEmptyAgain == pc = "while" /\ HasRun /\ This.n <= max /\ This.n > 0 /\ Paint

Draw == pc = "while" /\ HasRun /\ This.n <= max /\ Paint

EndLoop ==
  /\ pc = "while" /\ (HasRun => This.n > max)
  /\ pc' = "show"
  /\ UNCHANGED <<input, result, console, stuck, taken, linked, loop>>

-----------------------------------------------------------------------------
(* The end, after success and after a failure. *)

(* fb_update's two pans may fail, which nobody looks at. *)
Show ==
  /\ pc = "show"
  /\ maps' = maps \ {"data"} /\ pc' = "fb_close"
  /\ UNCHANGED <<input, result, console, stuck, fds, linked, loop>>

FbClose ==
  /\ pc = "fb_close"
  /\ maps' = maps \ {"fb"} /\ fds' = fds \ {"fb"} /\ pc' = "unlink"
  /\ UNCHANGED <<input, result, console, stuck, linked, loop>>

Unlink ==
  /\ pc = "unlink"
  /\ fds' = fds \ {"data"} /\ linked' \in BOOLEAN /\ result' = 0 /\ pc' = "done"
  /\ UNCHANGED <<input, console, stuck, maps, loop>>

(* A mutant: the mapping of the file is forgotten. *)
UnmapNothing ==
  /\ pc = "unmap_data" /\ pc' = "close_file"
  /\ UNCHANGED <<input, result, console, stuck, taken, linked, loop>>

UnmapData ==
  /\ pc = "unmap_data" /\ pc' = "close_file"
  /\ maps' = maps \ {"data"}
  /\ UNCHANGED <<input, result, console, stuck, fds, linked, loop>>

(* A mutant: the return of -1 comes before the console. *)
CloseAndReturn ==
  /\ pc = "close_file" /\ pc' = "done" /\ result' = -1
  /\ fds' = fds \ {"data"}
  /\ UNCHANGED <<input, console, stuck, maps, linked, loop>>

CloseFile ==
  /\ pc = "close_file" /\ pc' = "restore_text"
  /\ fds' = fds \ {"data"}
  /\ UNCHANGED <<input, result, console, stuck, maps, linked, loop>>

Next ==
  \/ SetGraphics \/ RestoreText \/ Open \/ Fstat \/ Mmap \/ FbOpen \/ FbMmap \/ FbFail
  \/ Draw \/ EndLoop \/ Show \/ FbClose \/ Unlink \/ UnmapData \/ CloseFile

(* init runs on: none of these calls waits for anybody. *)
Spec == Init /\ [][Next]_vars /\ WF_vars(Next)

-----------------------------------------------------------------------------
(* No run of the file leads the loop out of the mapping of the file, and,  *)
(* at the depths the code is written for, of the framebuffer: the guards   *)
(* count > 3 and n > max are enough for any file, cut anywhere.            *)
InsideMaps ==
  /\ pc = "while" /\ HasRun => ptr < Len(runs)
  /\ screen.depth \in {16, 32} => pc # "crashed" /\ (pc = "while" => 2 * bits <= fb_size)

(* Whatever failed, nothing stays open or mapped in init, which lives on. *)
NothingTaken == pc = "done" => fds = {} /\ maps = {}

(* init writes its name if load_565rle_image fails, and it can be read:    *)
(* the console is text again whichever step failed, unless that fails too. *)
TextIfFailed ==
  pc = "done" => console = IF result = 0 \/ stuck THEN "graphics" ELSE "text"

(* Both: each failure gives back exactly what was taken before it.         *)
FailureUndone == NothingTaken /\ TextIfFailed

(* init gets on with the boot, also with a file of empty runs, unless its  *)
(* words of 32 bits lead it out of a screen of 24.                         *)
Returns == <>(pc = "done" \/ (screen.depth = 24 /\ pc = "crashed"))
=============================================================================
