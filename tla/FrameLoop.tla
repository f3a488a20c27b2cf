----------------------------- MODULE FrameLoop ------------------------------
(***************************************************************************)
(* The execution loop (WinX68k_Exec in winx68k.cpp): one call runs the     *)
(* guest for one frame, in slices of the CPU, and steps the devices at the *)
(* begin and the end of every scan line.                                   *)
(*                                                                         *)
(* A turn of the loop is three steps: its head (the begin of a line), the  *)
(* slice of the CPU, in which the guest may write registers of the CRTC    *)
(* and the MFP, and its tail (the end of a line and of the frame).         *)
(***************************************************************************)
EXTENDS Integers

CONSTANTS
  Clocks,        \* the clocks of a frame: VSYNC_NORM, VSYNC_HIGH
  CLOCK_SLICE,
  Totals,        \* the values of VLINE_TOTAL, R04 of the CRTC
  Lines          \* the line numbers the guest writes to R06, R07 and R09

ASSUME FrameLoopAssumption ==
  /\ Clocks \subseteq Nat \ {0}
  /\ CLOCK_SLICE \in Nat \ {0}
  /\ Totals \subseteq Nat \ {0}
  /\ Lines \subseteq Nat

VARIABLES
  phase,                       \* "idle", or the next step of the turn
  VLINE_TOTAL, CRTC_VSTART, CRTC_VEND, CRTC_IntLine,
  dispEdge, rasterEdge,        \* MFP_AER bits 4 and 6
  vline,
  ICount, clk_total, clk_count, clk_next, hsync,
  KeyIntCnt, MouseIntCnt,
  steady,                      \* history: no register written in this frame
  calls                        \* history: interrupts and calls in this frame

registers == <<VLINE_TOTAL, CRTC_VSTART, CRTC_VEND, CRTC_IntLine, dispEdge, rasterEdge>>
clock == <<ICount, clk_total, clk_count, clk_next>>
vars == <<phase, registers, vline, clock, hsync, KeyIntCnt, MouseIntCnt, steady, calls>>

NoCalls == [hsync |-> 0, disp |-> 0, raster |-> 0, key |-> 0, mouse |-> 0]

Init ==
  /\ phase = "idle"
  /\ VLINE_TOTAL \in Totals
  /\ CRTC_VSTART = 0 /\ CRTC_VEND = 0 /\ CRTC_IntLine = 0
  /\ dispEdge = FALSE /\ rasterEdge = FALSE       \* MFP_Init: AER = 6
  /\ vline = 0 /\ hsync = 0
  /\ ICount = 0 /\ clk_total \in Clocks /\ clk_count = clk_total /\ clk_next = clk_total
  /\ KeyIntCnt = 0 /\ MouseIntCnt = 0
  /\ steady = TRUE /\ calls = NoCalls

-----------------------------------------------------------------------------
\* Faulty variants of the definitions below, which the properties must refute.
DispLineWithoutWrap == IF dispEdge THEN CRTC_VSTART ELSE CRTC_VEND
LineEndRounded(v) == (clk_total \div VLINE_TOTAL) * (v + 1)
LineEndLate(v) == (clk_total * (v + 2)) \div VLINE_TOTAL
StartLosingRest ==
  /\ phase = "idle"
  /\ clk_total' \in Clocks
  /\ clk_count' = 0
  /\ ICount' = ICount + clk_total'
  /\ clk_next' = clk_total' \div VLINE_TOTAL
  /\ vline' = 0 /\ hsync' = 1
  /\ KeyIntCnt' = 0 /\ MouseIntCnt' = 0
  /\ steady' = TRUE /\ calls' = NoCalls
  /\ phase' = "head"
  /\ UNCHANGED registers

\* When line v of the frame ends.
LineEnd(v) == (clk_total * (v + 1)) \div VLINE_TOTAL

\* The line at which the vertical display interrupt comes.
DispLine ==
  IF dispEdge THEN CRTC_VSTART
  ELSE IF CRTC_VEND >= VLINE_TOTAL THEN CRTC_VEND - VLINE_TOTAL ELSE VLINE_TOTAL - 1

\* The call: what the last frame has left over is run first.
StartFrame ==
  /\ phase = "idle"
  /\ clk_total' \in Clocks
  /\ clk_count' = -ICount
  /\ ICount' = ICount + clk_total'
  /\ clk_next' = clk_total' \div VLINE_TOTAL
  /\ vline' = 0 /\ hsync' = 1
  /\ KeyIntCnt' = 0 /\ MouseIntCnt' = 0
  /\ steady' = TRUE /\ calls' = NoCalls
  /\ phase' = "head"
  /\ UNCHANGED registers

One(p) == IF p THEN 1 ELSE 0

\* So many calls more.
Called(h, d, r, k, m) ==
  calls' = [hsync |-> calls.hsync + h, disp |-> calls.disp + d, raster |-> calls.raster + r,
            key |-> calls.key + k, mouse |-> calls.mouse + m]

\* The head of the turn: at the begin of a line the horizontal interrupt, and
\* the raster and the vertical display interrupt on their lines.
Head ==
  /\ phase = "head"
  /\ hsync' = 0
  /\ IF hsync = 0 THEN UNCHANGED calls
     ELSE Called(1, One(vline = DispLine), One(~ rasterEdge /\ vline = CRTC_IntLine), 0, 0)
  /\ phase' = "slice"
  /\ UNCHANGED <<registers, vline, clock, KeyIntCnt, MouseIntCnt, steady>>

\* The slice of the CPU takes exactly the clocks it is given.
Execute ==
  LET n == IF ICount > CLOCK_SLICE THEN CLOCK_SLICE ELSE ICount
  IN  /\ ICount' = ICount - n
      /\ clk_count' = clk_count + n
      /\ UNCHANGED <<clk_total, clk_next>>

\* A slice in which the guest leaves the registers alone.
QuietSlice ==
  /\ phase = "slice"
  /\ Execute
  /\ phase' = "tail"
  /\ UNCHANGED <<registers, vline, hsync, KeyIntCnt, MouseIntCnt, steady, calls>>

\* A slice in which it writes some of them.
WritingSlice ==
  /\ phase = "slice" /\ ICount > 0
  /\ Execute
  /\ \/ /\ VLINE_TOTAL' \in Totals
        /\ UNCHANGED <<CRTC_VSTART, CRTC_VEND, CRTC_IntLine, dispEdge, rasterEdge>>
     \/ /\ CRTC_VSTART' \in Lines /\ CRTC_VEND' \in Lines /\ dispEdge' \in BOOLEAN
        /\ UNCHANGED <<VLINE_TOTAL, CRTC_IntLine, rasterEdge>>
     \/ /\ CRTC_IntLine' \in Lines /\ rasterEdge' \in BOOLEAN
        /\ UNCHANGED <<VLINE_TOTAL, CRTC_VSTART, CRTC_VEND, dispEdge>>
  /\ steady' = FALSE
  /\ phase' = "tail"
  /\ UNCHANGED <<vline, hsync, KeyIntCnt, MouseIntCnt, calls>>

\* The counters of Keyboard_Int and SCC_IntCheck at the end of a line.
Bump(count, part) == IF count + 1 > VLINE_TOTAL \div part THEN 0 ELSE count + 1

\* The tail of a turn within a line.
SameLine ==
  /\ phase = "tail" /\ clk_count < clk_next
  /\ phase' = "head"
  /\ UNCHANGED <<registers, vline, clock, hsync, KeyIntCnt, MouseIntCnt, steady, calls>>

\* The tail at the end of a line, which may be the end of the frame.
EndLine ==
  /\ phase = "tail" /\ clk_count >= clk_next
  /\ KeyIntCnt' = Bump(KeyIntCnt, 4) /\ MouseIntCnt' = Bump(MouseIntCnt, 8)
  /\ Called(0, 0, One(rasterEdge /\ vline = CRTC_IntLine),
            One(KeyIntCnt' = 0), One(MouseIntCnt' = 0))
  /\ vline' = vline + 1
  /\ clk_next' = LineEnd(vline + 1)
  /\ hsync' = 1
  /\ phase' = IF vline + 1 < VLINE_TOTAL THEN "head" ELSE "idle"
  /\ UNCHANGED <<registers, ICount, clk_total, clk_count, steady>>

\* WinX68k_Reset, between two frames: what the last one has left over is
\* dropped, and MFP_Init clears the edges.  CRTC_Init does not touch the line
\* numbers, nor the number of lines.
Reset ==
  /\ phase = "idle"
  /\ ICount' = 0
  /\ dispEdge' = FALSE /\ rasterEdge' = FALSE
  /\ calls' = NoCalls
  /\ UNCHANGED <<phase, VLINE_TOTAL, CRTC_VSTART, CRTC_VEND, CRTC_IntLine, vline,
                 clk_total, clk_count, clk_next, hsync, KeyIntCnt, MouseIntCnt, steady>>

Next ==
  StartFrame \/ Head \/ QuietSlice \/ WritingSlice \/ SameLine \/ EndLine \/ Reset

Spec == Init /\ [][Next]_vars

\* The emulator's thread keeps running; a reset is the user's choice.
FairSpec ==
  Spec /\ WF_vars(StartFrame \/ Head \/ QuietSlice \/ WritingSlice \/ SameLine \/ EndLine)

-----------------------------------------------------------------------------
\* ICount and clk_count share the frame's clocks, and never run over.
TypeOK ==
  /\ phase \in {"idle", "head", "slice", "tail"}
  /\ VLINE_TOTAL \in Totals
  /\ CRTC_VSTART \in Nat /\ CRTC_VEND \in Nat /\ CRTC_IntLine \in Nat
  /\ dispEdge \in BOOLEAN /\ rasterEdge \in BOOLEAN /\ steady \in BOOLEAN
  /\ vline \in Nat /\ hsync \in {0, 1}
  /\ clk_total \in Clocks /\ clk_count \in Int /\ clk_next \in Nat
  /\ ICount \in Nat
  /\ KeyIntCnt \in Nat /\ MouseIntCnt \in Nat
  /\ calls \in [hsync : Nat, disp : Nat, raster : Nat, key : Nat, mouse : Nat]

\* What the slices have taken and what is left make up the frame: no clock is
\* lost between the counters, whatever the guest does to the CRTC, and what a
\* frame has left over is taken up by the next one.
ClocksAreShared == phase # "idle" => clk_count + ICount = clk_total

\* A frame never hands on more than one frame's clocks, so that the emulator
\* cannot fall further and further behind.
LeftoverBounded == phase = "idle" => ICount <= clk_total

\* The clock at which line v should be over.
Due(v) == (clk_total * (v + 1)) \div VLINE_TOTAL

\* With a steady CRTC the lines keep their times: when line v begins, the clocks
\* of the lines before it have passed and those of line v have not, provided a
\* line is longer than a slice.
LinesOnTime ==
  steady /\ CLOCK_SLICE * VLINE_TOTAL <= clk_total /\ phase \in {"head", "slice"} /\ hsync = 1 =>
    /\ clk_count < Due(vline)
    /\ vline > 0 => Due(vline - 1) <= clk_count

\* With steady registers a frame has every one of its horizontal interrupts,
\* one vertical display interrupt, and one raster interrupt if the line is one
\* of the screen's; it leaves no clocks over.
InterruptsPerFrame ==
  phase = "idle" /\ steady /\ calls.hsync > 0 =>
    /\ calls.hsync = VLINE_TOTAL
    /\ calls.disp = One(IF dispEdge THEN CRTC_VSTART < VLINE_TOTAL
                           ELSE CRTC_VEND < 2 * VLINE_TOTAL)
    /\ calls.raster = One(CRTC_IntLine < VLINE_TOTAL)
    /\ ICount = 0

\* Every frame comes to its end.
FramesEnd == phase # "idle" ~> phase = "idle"
=============================================================================
