---------------------------- MODULE BootLogo_proofs ----------------------------
(***************************************************************************)
(* Proofs about modules BootLogo and LogoPicture, for any runs, any number *)
(* of them and any screen.                                                 *)
(***************************************************************************)
EXTENDS LogoPicture, SequenceTheorems, TLAPS

(* What is open and mapped, and the console, follow from where the code is. *)
OpenAt ==
  CASE pc \in {"start", "open", "restore_text", "done"} -> {}
    [] pc \in {"fb_mmap", "fb_fail", "while", "show", "fb_close", "crashed"} -> {"data", "fb"}
    [] OTHER -> {"data"}
MappedAt ==
  CASE pc \in {"fb_open", "fb_mmap", "fb_fail", "unmap_data"} -> {"data"}
    [] pc \in {"while", "show", "crashed"} -> {"data", "fb"}
    [] pc = "fb_close" -> {"fb"}
    [] OTHER -> {}

TakenOK == fds = OpenAt /\ maps = MappedAt
ConsoleOK ==
  /\ pc # "done" => console = (IF pc = "start" THEN "text" ELSE "graphics") /\ ~stuck
  /\ TextIfFailed

(* The four counters move together; init dies on no screen but of 24 bits. *)
LoopOK ==
  /\ pc = "while" =>
       /\ 4 * ptr + count = st_size
       /\ max <= fb_pixels
       /\ bits = IF screen.depth = 16 THEN fb_pixels - max ELSE 2 * (fb_pixels - max)
  /\ pc = "crashed" => screen.depth \notin {16, 32}

(* From the loop on, the runs before ptr are what is painted, and the loop *)
(* ends where there is no run, or no room for it.                          *)
Over == pc \in {"show", "fb_close", "unlink"} \/ ~linked
Pixels == {Pixel(colour) : colour \in Nat}
Drawn ==
  /\ ptr <= Len(runs) /\ max <= fb_pixels
  /\ painted \in Seq(Pixels)
  /\ \E end \in [0 .. ptr -> 0 .. fb_pixels] :
       /\ AreShown(ptr, end) /\ end[ptr] = fb_pixels - max
       /\ \A j \in 0 .. ptr : end[j] <= end[ptr]
PictureOK ==
  /\ painted = <<>> \/ pc \in {"while", "done", "crashed"} \/ Over
  /\ ~linked => pc = "done"
  /\ pc = "while" \/ Over => Drawn
  /\ Over => ptr = Len(runs) \/ This.n > max

(* The inductive invariant. *)
Inv == TypeOK /\ TakenOK /\ ConsoleOK /\ LoopOK

-----------------------------------------------------------------------------
(* What the inputs are, and the products of a screen. *)
LEMMA InputFacts ==
  ASSUME TypeOK
  PROVE  /\ st_size \in Nat /\ fb_pixels \in Nat
         /\ screen.depth \in {16, 24, 32}
         /\ \A k \in 1 .. Len(runs) : runs[k].n \in Nat
<1>1. screen.width \in Nat /\ screen.height \in Nat /\ screen.depth \in {16, 24, 32}
  <2> DEFINE S == [width : Nat, height : Nat, depth : {16, 24, 32}]
  <2>1. Screen \subseteq S
    BY LogoAssumption DEF LogoAssumption
  <2>2. \A s \in S : s.width \in Nat /\ s.height \in Nat /\ s.depth \in {16, 24, 32}
    OBVIOUS
  <2>3. screen \in Screen
    BY DEF TypeOK
  <2> HIDE DEF S
  <2> QED BY <2>1, <2>2, <2>3, Zenon
<1>2. fb_pixels \in Nat
  BY <1>1 DEF fb_pixels
<1>3. st_size \in Nat
  BY DEF TypeOK, st_size
<1>4. ASSUME NEW k \in 1 .. Len(runs) PROVE runs[k].n \in Nat
  <2>1. runs[k] \in Run
    BY DEF TypeOK
  <2> DEFINE S == [n : Nat, colour : Nat]
  <2>2. Run \subseteq S
    BY LogoAssumption DEF LogoAssumption
  <2>3. \A s \in S : s.n \in Nat
    OBVIOUS
  <2> HIDE DEF S
  <2> QED BY <2>1, <2>2, <2>3, Zenon
<1> QED BY <1>1, <1>2, <1>3, <1>4

(* The bytes of a framebuffer at the depths the code is written for. *)
LEMMA SizeFacts ==
  ASSUME TypeOK, screen.depth \in {16, 32}
  PROVE  fb_size = IF screen.depth = 16 THEN 2 * fb_pixels ELSE 4 * fb_pixels
<1>1. 16 \div 8 = 2 /\ 32 \div 8 = 4 /\ fb_pixels \in Nat
  BY InputFacts
<1>2. CASE screen.depth = 16
  <2>1. fb_size = fb_pixels * 2
    BY <1>1, <1>2 DEF fb_size
  <2> QED BY <1>1, <1>2, <2>1
<1>3. CASE screen.depth = 32
  <2>1. fb_size = fb_pixels * 4
    BY <1>1, <1>3 DEF fb_size
  <2> QED BY <1>1, <1>3, <2>1
<1> QED BY <1>2, <1>3

(* The invariant holds at first. *)
THEOREM InitInv == Init => Inv
<1> SUFFICES ASSUME Init PROVE Inv
  OBVIOUS
<1>1. runs \in Seq(Run)
  <2>1. PICK m \in 0 .. MaxRuns : runs \in [1 .. m -> Run]
    BY DEF Init
  <2>2. m \in Nat
    BY <2>1, LogoAssumption DEF LogoAssumption
  <2> QED BY <2>1, <2>2
<1>2. TypeOK
  BY <1>1 DEF Init, TypeOK
<1>3. TakenOK /\ ConsoleOK /\ LoopOK
  BY DEF Init, TakenOK, OpenAt, MappedAt, ConsoleOK, TextIfFailed, LoopOK
<1> QED BY <1>2, <1>3 DEF Inv

(* SetGraphics keeps the invariant. *)
LEMMA SetGraphicsInv ==
  ASSUME Inv, SetGraphics
  PROVE  Inv'
<1> USE DEF SetGraphics, input, loop, taken
<1>1. TypeOK'
  BY InputFacts DEF Inv, TypeOK
<1>2. TakenOK'
  BY DEF Inv, TakenOK, OpenAt, MappedAt
<1>3. ConsoleOK'
  BY DEF Inv, ConsoleOK, TextIfFailed
<1>4. LoopOK'
  BY DEF Inv, LoopOK, st_size, fb_pixels
<1> QED BY <1>1, <1>2, <1>3, <1>4 DEF Inv

(* RestoreText keeps the invariant. *)
LEMMA RestoreTextInv ==
  ASSUME Inv, RestoreText
  PROVE  Inv'
<1> USE DEF RestoreText, input, loop, taken
<1>1. TypeOK'
  BY InputFacts DEF Inv, TypeOK
<1>2. TakenOK'
  BY DEF Inv, TakenOK, OpenAt, MappedAt
<1>3. ConsoleOK'
  BY DEF Inv, ConsoleOK, TextIfFailed
<1>4. LoopOK'
  BY DEF Inv, LoopOK, st_size, fb_pixels
<1> QED BY <1>1, <1>2, <1>3, <1>4 DEF Inv

(* Open keeps the invariant. *)
LEMMA OpenInv ==
  ASSUME Inv, Open
  PROVE  Inv'
<1> USE DEF Open, input, loop, taken
<1>1. TypeOK'
  BY InputFacts DEF Inv, TypeOK
<1>2. TakenOK'
  BY DEF Inv, TakenOK, OpenAt, MappedAt
<1>3. ConsoleOK'
  BY DEF Inv, ConsoleOK, TextIfFailed
<1>4. LoopOK'
  BY DEF Inv, LoopOK, st_size, fb_pixels
<1> QED BY <1>1, <1>2, <1>3, <1>4 DEF Inv

(* Fstat keeps the invariant. *)
LEMMA FstatInv ==
  ASSUME Inv, Fstat
  PROVE  Inv'
<1> USE DEF Fstat, input, loop, taken
<1>1. TypeOK'
  BY InputFacts DEF Inv, TypeOK
<1>2. TakenOK'
  BY DEF Inv, TakenOK, OpenAt, MappedAt
<1>3. ConsoleOK'
  BY DEF Inv, ConsoleOK, TextIfFailed
<1>4. LoopOK'
  BY DEF Inv, LoopOK, st_size, fb_pixels
<1> QED BY <1>1, <1>2, <1>3, <1>4 DEF Inv

(* Mmap keeps the invariant. *)
LEMMA MmapInv ==
  ASSUME Inv, Mmap
  PROVE  Inv'
<1> USE DEF Mmap, input, loop, taken
<1>1. TypeOK'
  BY InputFacts DEF Inv, TypeOK
<1>2. TakenOK'
  BY DEF Inv, TakenOK, OpenAt, MappedAt
<1>3. ConsoleOK'
  BY DEF Inv, ConsoleOK, TextIfFailed
<1>4. LoopOK'
  BY DEF Inv, LoopOK, st_size, fb_pixels
<1> QED BY <1>1, <1>2, <1>3, <1>4 DEF Inv

(* FbOpen keeps the invariant. *)
LEMMA FbOpenInv ==
  ASSUME Inv, FbOpen
  PROVE  Inv'
<1> USE DEF FbOpen, input, loop, taken
<1>1. TypeOK'
  BY InputFacts DEF Inv, TypeOK
<1>2. TakenOK'
  BY DEF Inv, TakenOK, OpenAt, MappedAt
<1>3. ConsoleOK'
  BY DEF Inv, ConsoleOK, TextIfFailed
<1>4. LoopOK'
  BY DEF Inv, LoopOK, st_size, fb_pixels
<1> QED BY <1>1, <1>2, <1>3, <1>4 DEF Inv

(* FbMmap keeps the invariant. *)
LEMMA FbMmapInv ==
  ASSUME Inv, FbMmap
  PROVE  Inv'
<1> USE DEF FbMmap, input, loop, taken
<1>0. st_size' = st_size /\ fb_pixels' = fb_pixels /\ st_size \in Nat /\ fb_pixels \in Nat
  BY InputFacts DEF Inv, st_size, fb_pixels
<1>1. TypeOK'
  <2>1. max' \in Nat /\ ptr' \in Nat /\ count' \in Nat /\ bits' \in Nat
    <3>1. CASE pc' = "while"
      BY <1>0, <3>1
    <3>2. CASE pc' = "fb_fail"
      BY <3>2 DEF Inv, TypeOK
    <3> QED BY <3>1, <3>2
  <2>2. maps' \in SUBSET {"data", "fb"} /\ pc' \in {"while", "fb_fail"}
    BY DEF Inv, TypeOK
  <2> QED BY <2>1, <2>2 DEF Inv, TypeOK
<1>2. TakenOK'
  BY DEF Inv, TakenOK, OpenAt, MappedAt
<1>3. ConsoleOK'
  BY DEF Inv, ConsoleOK, TextIfFailed
<1>4. LoopOK'
  BY <1>0 DEF Inv, LoopOK
<1> QED BY <1>1, <1>2, <1>3, <1>4 DEF Inv

(* FbFail keeps the invariant. *)
LEMMA FbFailInv ==
  ASSUME Inv, FbFail
  PROVE  Inv'
<1> USE DEF FbFail, input, loop, taken
<1>1. TypeOK'
  BY InputFacts DEF Inv, TypeOK
<1>2. TakenOK'
  BY DEF Inv, TakenOK, OpenAt, MappedAt
<1>3. ConsoleOK'
  BY DEF Inv, ConsoleOK, TextIfFailed
<1>4. LoopOK'
  BY DEF Inv, LoopOK, st_size, fb_pixels
<1> QED BY <1>1, <1>2, <1>3, <1>4 DEF Inv

(* A round of the loop finds the run it reads. *)
LEMMA RoundFacts ==
  ASSUME Inv, pc = "while", HasRun
  PROVE  ptr < Len(runs) /\ count >= 4
<1>1. /\ ptr \in Nat /\ count \in Nat /\ tail \in 0 .. 3 /\ Len(runs) \in Nat
  BY DEF Inv, TypeOK
<1>2. 4 * ptr + count = 4 * Len(runs) + tail
  BY DEF Inv, LoopOK, st_size
<1>3. count > 3
  BY DEF HasRun
<1> QED BY <1>1, <1>2, <1>3

(* Draw keeps the invariant. *)
LEMMA DrawInv ==
  ASSUME Inv, Draw
  PROVE  Inv'
<1> USE DEF Draw, Paint, input, loop, taken
<1>0. st_size' = st_size /\ fb_pixels' = fb_pixels /\ fb_pixels \in Nat
  BY InputFacts DEF Inv, st_size, fb_pixels
<1>a. ptr < Len(runs) /\ count >= 4
  BY RoundFacts
<1>b. This.n \in Nat
  BY <1>a, InputFacts DEF Inv, TypeOK, This
<1>c. bits' \in Nat
  BY <1>b DEF Inv, TypeOK
<1>1. TypeOK'
  <2>1. max' \in Nat /\ ptr' \in Nat /\ count' \in Nat
    BY <1>a, <1>b DEF Inv, TypeOK
  <2> QED BY <1>c, <2>1 DEF Inv, TypeOK
<1>2. TakenOK'
  BY DEF Inv, TakenOK, OpenAt, MappedAt
<1>3. ConsoleOK'
  BY DEF Inv, ConsoleOK, TextIfFailed
<1>4. LoopOK'
  <2>1. screen.depth' = screen.depth
    OBVIOUS
  <2>2. /\ 4 * ptr' + count' = st_size' /\ max' <= fb_pixels'
        /\ bits' = IF screen.depth' = 16 THEN fb_pixels' - max' ELSE 2 * (fb_pixels' - max')
    <3>1. CASE screen.depth = 16
      BY <1>0, <1>a, <1>b, <2>1, <3>1 DEF Inv, TypeOK, LoopOK
    <3>2. CASE screen.depth # 16
      <4>1. /\ bits = 2 * (fb_pixels - max) /\ bits' = bits + 2 * This.n
            /\ max' = max - This.n /\ max \in Nat /\ bits \in Nat
            /\ max <= fb_pixels /\ 4 * ptr' + count' = st_size'
        BY <1>0, <1>a, <1>b, <3>2 DEF Inv, TypeOK, LoopOK
      <4> HIDE DEF Draw, Paint
      <4>2. bits' = 2 * (fb_pixels' - max') /\ max' <= fb_pixels'
        BY <1>0, <1>b, <4>1
      <4> QED BY <2>1, <3>2, <4>1, <4>2
    <3> QED BY <3>1, <3>2
  <2>3. ASSUME screen.depth \in {16, 32} PROVE pc' # "crashed"
    <3>0. pc = "while" /\ (pc' = pc \/ 2 * bits' > fb_size)
      OBVIOUS
    <3> HIDE DEF Draw, Paint
    <3>1. fb_size = IF screen.depth = 16 THEN 2 * fb_pixels ELSE 4 * fb_pixels
      BY <2>3, SizeFacts DEF Inv
    <3>2. max' \in Nat
      BY <1>1 DEF TypeOK
    <3>3. ASSUME NEW f \in Nat, NEW m \in Nat, NEW b \in Nat,
                 m <= f, b = IF screen.depth = 16 THEN f - m ELSE 2 * (f - m)
          PROVE  ~(2 * b > IF screen.depth = 16 THEN 2 * f ELSE 4 * f)
      BY <3>3
    <3>4. ~(2 * bits' > fb_size)
      BY <1>0, <1>c, <2>1, <2>2, <3>1, <3>2, <3>3
    <3> QED BY <3>0, <3>4
  <2> QED BY <2>1, <2>2, <2>3 DEF LoopOK
<1> QED BY <1>1, <1>2, <1>3, <1>4 DEF Inv

(* EndLoop keeps the invariant. *)
LEMMA EndLoopInv ==
  ASSUME Inv, EndLoop
  PROVE  Inv'
<1> USE DEF EndLoop, input, loop, taken
<1>1. TypeOK'
  BY InputFacts DEF Inv, TypeOK
<1>2. TakenOK'
  BY DEF Inv, TakenOK, OpenAt, MappedAt
<1>3. ConsoleOK'
  BY DEF Inv, ConsoleOK, TextIfFailed
<1>4. LoopOK'
  BY DEF Inv, LoopOK, st_size, fb_pixels
<1> QED BY <1>1, <1>2, <1>3, <1>4 DEF Inv

(* Show keeps the invariant. *)
LEMMA ShowInv ==
  ASSUME Inv, Show
  PROVE  Inv'
<1> USE DEF Show, input, loop, taken
<1>1. TypeOK'
  BY InputFacts DEF Inv, TypeOK
<1>2. TakenOK'
  BY DEF Inv, TakenOK, OpenAt, MappedAt
<1>3. ConsoleOK'
  BY DEF Inv, ConsoleOK, TextIfFailed
<1>4. LoopOK'
  BY DEF Inv, LoopOK, st_size, fb_pixels
<1> QED BY <1>1, <1>2, <1>3, <1>4 DEF Inv

(* FbClose keeps the invariant. *)
LEMMA FbCloseInv ==
  ASSUME Inv, FbClose
  PROVE  Inv'
<1> USE DEF FbClose, input, loop, taken
<1>1. TypeOK'
  BY InputFacts DEF Inv, TypeOK
<1>2. TakenOK'
  BY DEF Inv, TakenOK, OpenAt, MappedAt
<1>3. ConsoleOK'
  BY DEF Inv, ConsoleOK, TextIfFailed
<1>4. LoopOK'
  BY DEF Inv, LoopOK, st_size, fb_pixels
<1> QED BY <1>1, <1>2, <1>3, <1>4 DEF Inv

(* Unlink keeps the invariant. *)
LEMMA UnlinkInv ==
  ASSUME Inv, Unlink
  PROVE  Inv'
<1> USE DEF Unlink, input, loop, taken
<1>1. TypeOK'
  BY InputFacts DEF Inv, TypeOK
<1>2. TakenOK'
  BY DEF Inv, TakenOK, OpenAt, MappedAt
<1>3. ConsoleOK'
  BY DEF Inv, ConsoleOK, TextIfFailed
<1>4. LoopOK'
  BY DEF Inv, LoopOK, st_size, fb_pixels
<1> QED BY <1>1, <1>2, <1>3, <1>4 DEF Inv

(* UnmapData keeps the invariant. *)
LEMMA UnmapDataInv ==
  ASSUME Inv, UnmapData
  PROVE  Inv'
<1> USE DEF UnmapData, input, loop, taken
<1>1. TypeOK'
  BY InputFacts DEF Inv, TypeOK
<1>2. TakenOK'
  BY DEF Inv, TakenOK, OpenAt, MappedAt
<1>3. ConsoleOK'
  BY DEF Inv, ConsoleOK, TextIfFailed
<1>4. LoopOK'
  BY DEF Inv, LoopOK, st_size, fb_pixels
<1> QED BY <1>1, <1>2, <1>3, <1>4 DEF Inv

(* CloseFile keeps the invariant. *)
LEMMA CloseFileInv ==
  ASSUME Inv, CloseFile
  PROVE  Inv'
<1> USE DEF CloseFile, input, loop, taken
<1>1. TypeOK'
  BY InputFacts DEF Inv, TypeOK
<1>2. TakenOK'
  BY DEF Inv, TakenOK, OpenAt, MappedAt
<1>3. ConsoleOK'
  BY DEF Inv, ConsoleOK, TextIfFailed
<1>4. LoopOK'
  BY DEF Inv, LoopOK, st_size, fb_pixels
<1> QED BY <1>1, <1>2, <1>3, <1>4 DEF Inv

(* Every step keeps the invariant. *)
THEOREM NextInv == Inv /\ [Next]_vars => Inv'
<1> SUFFICES ASSUME Inv, [Next]_vars PROVE Inv'
  OBVIOUS
<1>1. CASE Next
  BY <1>1, SetGraphicsInv, RestoreTextInv, OpenInv, FstatInv, MmapInv, FbOpenInv, FbMmapInv,
     FbFailInv, DrawInv, EndLoopInv, ShowInv, FbCloseInv, UnlinkInv, UnmapDataInv, CloseFileInv
  DEF Next
<1>2. CASE UNCHANGED vars
  BY <1>2 DEF Inv, vars, input, loop, taken, TypeOK, TakenOK, OpenAt, MappedAt, ConsoleOK,
     TextIfFailed, LoopOK, st_size, fb_pixels
<1> QED BY <1>1, <1>2

-----------------------------------------------------------------------------
(* The inductive invariant holds always. *)
LEMMA Invariance == Spec => []Inv
BY InitInv, NextInv, PTL DEF Spec

(* Every variable keeps its type; max never goes below 0. *)
THEOREM TypeCorrect == Spec => []TypeOK
<1>1. Inv => TypeOK
  BY DEF Inv
<1> QED BY <1>1, Invariance, PTL

(* Whatever the file holds, the loop reads inside its mapping and writes   *)
(* inside the framebuffer's, at the depths of 16 and 32.                   *)
THEOREM AccessesInside == Spec => []InsideMaps
<1>1. Inv => InsideMaps
  <2> SUFFICES ASSUME Inv PROVE InsideMaps
    OBVIOUS
  <2>1. pc = "while" /\ HasRun => ptr < Len(runs)
    BY RoundFacts
  <2>3. ASSUME screen.depth \in {16, 32}, pc = "while" PROVE 2 * bits <= fb_size
    <3>1. /\ fb_size = IF screen.depth = 16 THEN 2 * fb_pixels ELSE 4 * fb_pixels
          /\ fb_pixels \in Nat /\ max \in Nat
      BY <2>3, SizeFacts, InputFacts DEF Inv, TypeOK
    <3> QED BY <2>3, <3>1 DEF Inv, LoopOK
  <2>4. screen.depth \in {16, 32} => pc # "crashed"
    BY DEF Inv, LoopOK
  <2> QED BY <2>1, <2>3, <2>4 DEF InsideMaps
<1> QED BY <1>1, Invariance, PTL

(* Every failure path closes and unmaps what was opened and mapped before, *)
(* and leaves a text console, unless setting it fails as well.             *)
THEOREM FailuresUndone == Spec => []FailureUndone
<1>1. Inv => NothingTaken
  BY DEF Inv, TakenOK, OpenAt, MappedAt, NothingTaken
<1>2. Inv => TextIfFailed
  BY DEF Inv, ConsoleOK
<1>3. Inv => FailureUndone
  BY <1>1, <1>2 DEF FailureUndone
<1> QED BY <1>3, Invariance, PTL

-----------------------------------------------------------------------------
(* A pixel shows the colour it was made of: repeating the high bits of a   *)
(* channel in its low bits stays within one step.                          *)
LEMMA PixelShows ==
  ASSUME TypeOK, NEW colour \in Nat
  PROVE  Shows(Pixel(colour), colour)
<1>1. CASE screen.depth = 16
  BY <1>1 DEF Shows, Pixel
<1>2. CASE screen.depth # 16
  <2>1. ASSUME NEW x \in 0 .. 31 PROVE Near(x, 31, Scaled5(x))
    BY DEF Near, Scaled5
  <2>2. ASSUME NEW x \in 0 .. 63 PROVE Near(x, 63, Scaled6(x))
    BY DEF Near, Scaled6
  <2>3. Red(colour) \in 0 .. 31 /\ Green(colour) \in 0 .. 63 /\ Blue(colour) \in 0 .. 31
    BY DEF Red, Green, Blue
  <2> QED BY <1>2, <2>1, <2>2, <2>3 DEF Shows, Pixel
<1> QED BY <1>1, <1>2

(* A run that has been read has a colour. *)
LEMMA ColourFacts ==
  ASSUME TypeOK
  PROVE  \A k \in 1 .. Len(runs) : runs[k].colour \in Nat
<1> SUFFICES ASSUME NEW k \in 1 .. Len(runs) PROVE runs[k].colour \in Nat
  OBVIOUS
<1>1. runs[k] \in Run
  BY DEF TypeOK
<1> DEFINE S == [n : Nat, colour : Nat]
<1>2. Run \subseteq S
  BY LogoAssumption DEF LogoAssumption
<1>3. \A s \in S : s.colour \in Nat
  OBVIOUS
<1> HIDE DEF S
<1> QED BY <1>1, <1>2, <1>3, Zenon

(* One round of the loop paints one run behind those before it. *)
LEMMA DrawPicture ==
  ASSUME Inv, PictureOK, Draw
  PROVE  Drawn'
<1> DEFINE run == runs[ptr + 1]
           pixel == Pixel(run.colour)
           added == [k \in 1 .. run.n |-> pixel]
<1>1. /\ fb_pixels \in Nat /\ UNCHANGED <<fb_pixels, runs, screen>>
      /\ ptr \in Nat /\ max \in Nat /\ ptr' = ptr + 1 /\ max' = max - run.n
      /\ run.n <= max /\ painted' = painted \o added
  BY InputFacts DEF Inv, TypeOK, Draw, Paint, input, This, fb_pixels
<1>2. ptr + 1 \in 1 .. Len(runs) /\ Len(runs) \in Nat
  <2>1. ptr < Len(runs)
    BY RoundFacts DEF Draw
  <2>2. Len(runs) \in Nat /\ ptr \in Nat
    BY DEF Inv, TypeOK
  <2> QED BY <2>1, <2>2
<1>3. run.n \in Nat /\ run.colour \in Nat
  BY <1>2, InputFacts, ColourFacts DEF Inv
<1>4. Shows(pixel, run.colour) /\ pixel \in Pixels
  BY <1>3, PixelShows DEF Inv, Pixels
<1>5. /\ max <= fb_pixels /\ painted \in Seq(Pixels)
  BY DEF PictureOK, Draw, Drawn
<1>6. PICK end \in [0 .. ptr -> 0 .. fb_pixels] :
        /\ AreShown(ptr, end) /\ end[ptr] = fb_pixels - max
        /\ \A j \in 0 .. ptr : end[j] <= end[ptr]
  BY DEF PictureOK, Draw, Drawn
<1> HIDE DEF run, pixel
<1>7. added \in Seq(Pixels) /\ Len(added) = run.n /\ \A k \in 1 .. run.n : added[k] = pixel
  <2>1. added \in [1 .. run.n -> Pixels]
    BY <1>4
  <2> QED BY <1>3, <2>1, SeqDef, LenProperties
<1> HIDE DEF added
<1>8. /\ painted' \in Seq(Pixels) /\ Len(painted') = Len(painted) + run.n
      /\ \A m \in 1 .. Len(painted) : painted'[m] = painted[m]
      /\ \A m \in Len(painted) + 1 .. Len(painted) + run.n : painted'[m] = pixel
  <2>1. /\ painted \o added \in Seq(Pixels)
        /\ Len(painted \o added) = Len(painted) + run.n
        /\ \A m \in 1 .. Len(painted) + run.n :
             (painted \o added)[m] = IF m <= Len(painted) THEN painted[m] ELSE added[m - Len(painted)]
    <3>1. /\ painted \o added \in Seq(Pixels)
          /\ Len(painted \o added) = Len(painted) + Len(added)
          /\ \A m \in 1 .. Len(painted) + Len(added) :
               (painted \o added)[m] = IF m <= Len(painted) THEN painted[m] ELSE added[m - Len(painted)]
      BY <1>5, <1>7, ConcatProperties, Zenon
    <3> QED BY <1>7, <3>1, Zenon
  <2>2. Len(painted) \in Nat
    BY <1>5, LenProperties
  <2>3. ASSUME NEW m \in Len(painted) + 1 .. Len(painted) + run.n
        PROVE  painted'[m] = pixel
    <3>1. m - Len(painted) \in 1 .. run.n /\ m \in 1 .. Len(painted) + run.n /\ ~ (m <= Len(painted))
      BY <1>3, <2>2
    <3> QED BY <1>1, <1>7, <2>1, <3>1
  <2>4. ASSUME NEW m \in 1 .. Len(painted)
        PROVE  painted'[m] = painted[m]
    <3>1. m \in 1 .. Len(painted) + run.n /\ m <= Len(painted)
      BY <1>3, <2>2
    <3> QED BY <1>1, <2>1, <3>1
  <2> QED BY <1>1, <2>1, <2>3, <2>4
<1>n. fb_pixels \in Nat /\ max \in Nat /\ ptr \in Nat /\ run.n \in Nat /\ run.n <= max /\ max <= fb_pixels
  BY <1>1, <1>3, <1>5, Zenon
<1>9. /\ Len(painted) = fb_pixels - max /\ end[0] = 0
      /\ \A j \in 1 .. ptr :
           /\ end[j] = end[j - 1] + runs[j].n
           /\ \A m \in end[j - 1] + 1 .. end[j] : Shows(painted[m], runs[j].colour)
  BY <1>6 DEF AreShown
<1>10. PICK end2 \in [0 .. ptr + 1 -> 0 .. fb_pixels] :
         /\ end2[0] = 0 /\ end2[ptr + 1] = fb_pixels - max + run.n
         /\ \A j \in 0 .. ptr : end2[j] = end[j]
  <2> DEFINE e == [j \in 0 .. ptr + 1 |-> IF j <= ptr THEN end[j] ELSE fb_pixels - max + run.n]
  <2>1. /\ \A j \in 0 .. ptr : e[j] = end[j]
        /\ e[ptr + 1] = fb_pixels - max + run.n
    BY <1>n
  <2>2. fb_pixels - max + run.n \in 0 .. fb_pixels
    BY <1>n
  <2>3. e \in [0 .. ptr + 1 -> 0 .. fb_pixels]
    BY <1>1, <1>6, <2>2
  <2>4. e[0] = 0
    BY <1>1, <1>9, <2>1
  <2> HIDE DEF e
  <2> QED BY <2>1, <2>3, <2>4
<1>11. \A j \in 0 .. ptr + 1 : end2[j] \in Nat
  BY <1>1, <1>10
<1>12. ASSUME NEW j \in 1 .. ptr + 1
       PROVE  /\ end2[j] = end2[j - 1] + runs[j].n
              /\ \A m \in end2[j - 1] + 1 .. end2[j] : Shows(painted'[m], runs[j].colour)
  <2>1. CASE j = ptr + 1
    <3>1. /\ end2[j - 1] = Len(painted) /\ end2[j] = Len(painted) + run.n
          /\ run = runs[j]
      BY <1>1, <1>6, <1>9, <1>10, <2>1 DEF run
    <3> QED BY <1>4, <1>8, <3>1
  <2>2. CASE j # ptr + 1
    <3>1. j \in 1 .. ptr /\ j \in 0 .. ptr /\ j - 1 \in 0 .. ptr
      BY <1>1, <2>2
    <3>2. end2[j] = end[j] /\ end2[j - 1] = end[j - 1] /\ end2[j] \in Nat /\ end2[j - 1] \in Nat
      BY <1>10, <1>11, <3>1
    <3>3. ASSUME NEW m \in end2[j - 1] + 1 .. end2[j]
          PROVE  m \in 1 .. Len(painted)
      <4>1. end[j] <= Len(painted) /\ Len(painted) \in Int
        BY <1>1, <1>6, <1>9, <3>1
      <4> QED BY <3>2, <4>1
    <3> QED BY <1>8, <1>9, <3>1, <3>2, <3>3
  <2> QED BY <2>1, <2>2
<1>13. ASSUME NEW j \in 1 .. ptr + 1, NEW m \in end2[j - 1] + 1 .. end2[j]
       PROVE  Shows(painted[m], runs[j].colour)'
  <2>1. Shows(painted'[m], runs[j].colour)
    BY <1>12
  <2> QED BY <1>1, <2>1 DEF Shows
<1>14. AreShown(ptr, end2)'
  <2>1. end2[0] = 0 /\ Len(painted') = end2[ptr + 1]
    BY <1>8, <1>9, <1>10
  <2>2. ASSUME NEW j \in 1 .. ptr'
        PROVE  /\ end2[j] = end2[j - 1] + runs'[j].n
               /\ \A m \in end2[j - 1] + 1 .. end2[j] : Shows(painted[m], runs[j].colour)'
    BY <1>1, <1>12, <1>13
  <2>3. Len(painted') = end2[ptr']
    BY <1>1, <2>1
  <2> QED BY <2>1, <2>2, <2>3 DEF AreShown, Shows
<1>15. ASSUME NEW j \in 0 .. ptr + 1
       PROVE  end2[j] <= end2[ptr + 1]
  <2>1. CASE j = ptr + 1
    BY <1>1, <1>11, <2>1
  <2>2. CASE j # ptr + 1
    <3>1. j \in 0 .. ptr /\ ptr \in 0 .. ptr
      BY <1>1, <2>2
    <3>2. end2[j] = end[j] /\ end[j] \in 0 .. fb_pixels /\ end[j] <= fb_pixels - max
      BY <1>6, <1>10, <3>1
    <3>3. end2[ptr + 1] = fb_pixels - max + run.n
      BY <1>10
    <3>4. fb_pixels - max <= fb_pixels - max + run.n
      BY <1>n
    <3> QED BY <1>n, <3>2, <3>3, <3>4
  <2> QED BY <2>1, <2>2
<1>16. ptr' <= Len(runs') /\ max' <= fb_pixels'
  <2>1. ptr + 1 <= Len(runs)
    BY <1>2
  <2>2. max - run.n <= fb_pixels
    BY <1>n
  <2> QED BY <1>1, <2>1, <2>2, Zenon
<1>17. painted' \in Seq(Pixels')
  <2>1. screen' = screen
    BY <1>1, Zenon
  <2>2. Pixels' = Pixels
    BY <2>1 DEF Pixels, Pixel
  <2> QED BY <1>8, <2>2, Zenon
<1>18. end2 \in [0 .. ptr' -> 0 .. fb_pixels'] /\ end2[ptr'] = fb_pixels' - max'
  BY <1>1, <1>3, <1>5, <1>10
<1>19. \A j \in 0 .. ptr' : end2[j] <= end2[ptr']
  BY <1>1, <1>15
<1> QED BY <1>14, <1>16, <1>17, <1>18, <1>19 DEF Drawn

(* Nothing is drawn at first. *)
LEMMA PictureInit == Init => PictureOK
BY DEF Init, PictureOK, Over

(* Only the loop draws, and it draws what it has read. *)
LEMMA PictureNext == Inv /\ PictureOK /\ [Next]_vars => PictureOK'
<1> SUFFICES ASSUME Inv, PictureOK, [Next]_vars PROVE PictureOK'
  OBVIOUS
<1>1. /\ fb_pixels \in Nat /\ st_size \in Nat
      /\ runs \in Seq(Run) /\ Len(runs) \in Nat /\ linked \in BOOLEAN
  BY InputFacts DEF Inv, TypeOK
<1>2. CASE Draw
  <2>1. Drawn' /\ pc' \in {"while", "crashed"} /\ linked' = linked /\ linked
    BY <1>2, DrawPicture DEF PictureOK, Draw, Paint
  <2> QED BY <2>1 DEF PictureOK, Over
<1>3. CASE FbMmap
  <2>1. CASE pc' = "while"
    <3>1. /\ ptr' = 0 /\ max' = fb_pixels' /\ painted' = <<>> /\ linked'
          /\ fb_pixels' \in Nat /\ Len(runs') \in Nat
      BY <1>1, <1>3, <2>1 DEF FbMmap, PictureOK, input, fb_pixels, Over
    <3> DEFINE end == [j \in 0 .. 0 |-> 0]
    <3>2. /\ end \in [0 .. ptr' -> 0 .. fb_pixels'] /\ end[0] = 0
          /\ \A j \in 0 .. ptr' : end[j] <= end[ptr']
      BY <3>1
    <3> HIDE DEF end
    <3>3. AreShown(ptr, end)'
      BY <3>1, <3>2, EmptySeq DEF AreShown
    <3>4. painted' \in Seq(Pixels')
      BY <3>1, EmptySeq
    <3>5. Drawn'
      BY <3>1, <3>2, <3>3, <3>4 DEF Drawn
    <3> QED BY <2>1, <3>1, <3>5 DEF PictureOK, Over
  <2>2. CASE pc' # "while"
    BY <1>3, <2>2 DEF FbMmap, PictureOK, loop, Over
  <2> QED BY <2>1, <2>2
<1>4. ASSUME UNCHANGED <<input, loop>>, Drawn PROVE Drawn'
  <2>1. fb_pixels' = fb_pixels /\ Pixels' = Pixels
    BY <1>4 DEF input, fb_pixels, Pixels, Pixel
  <2> QED BY <1>4, <2>1 DEF Drawn, AreShown, Shows, input, loop
<1>5. CASE EndLoop
  <2>1. UNCHANGED <<input, loop>> /\ pc = "while" /\ pc' = "show" /\ linked' = linked /\ linked
    BY <1>5 DEF EndLoop, PictureOK
  <2>2. Drawn /\ Drawn'
    BY <1>4, <2>1 DEF PictureOK
  <2>3. ptr = Len(runs) \/ This.n > max
    <3>1. CASE HasRun
      BY <1>5, <3>1 DEF EndLoop
    <3>2. CASE ~HasRun
      BY <1>1, <2>1, <2>2, <3>2 DEF Inv, TypeOK, LoopOK, HasRun, st_size, Drawn
    <3> QED BY <3>1, <3>2
  <2> QED BY <2>1, <2>2, <2>3 DEF PictureOK, Over, This, input, loop
<1>6. ASSUME UNCHANGED <<input, loop>>, pc # "while", pc' # "while", Over' => Over,
             painted = <<>> \/ pc' = "done" \/ Over',
             ~linked' => pc' = "done"
      PROVE  PictureOK'
  BY <1>4, <1>6 DEF PictureOK, This, input, loop
<1>7. CASE UNCHANGED vars
  BY <1>4, <1>7 DEF PictureOK, Over, This, vars, input, loop
<1>8. CASE SetGraphics
  BY <1>6, <1>8 DEF SetGraphics, PictureOK, Over
<1>9. CASE RestoreText
  BY <1>6, <1>9 DEF RestoreText, PictureOK, Over
<1>10. CASE Open
  BY <1>6, <1>10 DEF Open, PictureOK, Over
<1>11. CASE Fstat
  BY <1>6, <1>11 DEF Fstat, PictureOK, Over
<1>12. CASE Mmap
  BY <1>6, <1>12 DEF Mmap, PictureOK, Over
<1>13. CASE FbOpen
  BY <1>6, <1>13 DEF FbOpen, PictureOK, Over
<1>14. CASE FbFail
  BY <1>6, <1>14 DEF FbFail, PictureOK, Over
<1>15. CASE Show
  BY <1>6, <1>15 DEF Show, PictureOK, Over
<1>16. CASE FbClose
  BY <1>6, <1>16 DEF FbClose, PictureOK, Over
<1>17. CASE Unlink
  BY <1>6, <1>17 DEF Unlink, PictureOK, Over
<1>18. CASE UnmapData
  BY <1>6, <1>18 DEF UnmapData, PictureOK, Over
<1>19. CASE CloseFile
  BY <1>6, <1>19 DEF CloseFile, PictureOK, Over
<1> QED
  BY <1>2, <1>3, <1>5, <1>7, <1>8, <1>9, <1>10, <1>11, <1>12, <1>13, <1>14, <1>15, <1>16, <1>17,
     <1>18, <1>19 DEF Next

(* The picture on a screen of 16 or 32 bits a pixel is the file's runs,    *)
(* one after the other, up to the first that has no room, each channel     *)
(* within one step.                                                        *)
THEOREM ShowsTheFile == Spec => []PictureIsFile
<1>1. Inv /\ PictureOK => PictureIsFile
  <2> SUFFICES ASSUME Inv, PictureOK, Over PROVE PictureIsFile
    BY DEF PictureIsFile, Over
  <2>1. PICK end \in [0 .. ptr -> 0 .. fb_pixels] :
          AreShown(ptr, end) /\ end[ptr] = fb_pixels - max
    BY DEF PictureOK, Drawn
  <2>2. ptr \in 0 .. Len(runs) /\ max \in Nat /\ max <= fb_pixels /\ fb_pixels \in Nat
    BY InputFacts DEF Inv, TypeOK, PictureOK, Drawn
  <2>3. ptr = Len(runs) \/ end[ptr] + runs[ptr + 1].n > fb_pixels
    <3>1. CASE ptr = Len(runs)
      BY <3>1
    <3>2. CASE ptr # Len(runs)
      <4>1. This.n > max /\ This = runs[ptr + 1] /\ This.n \in Nat
        <5>1. ptr + 1 \in 1 .. Len(runs)
          BY <2>2, <3>2 DEF Inv, TypeOK
        <5> QED BY <3>2, <5>1, InputFacts DEF PictureOK, This, Inv
      <4> QED BY <2>1, <2>2, <4>1
    <3> QED BY <3>1, <3>2
  <2> QED BY <2>1, <2>2, <2>3 DEF PictureIsFile
<1>2. Spec => []PictureOK
  BY PictureInit, PictureNext, Invariance, PTL DEF Spec
<1> QED BY <1>1, <1>2, Invariance, PTL
=============================================================================
