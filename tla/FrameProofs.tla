---------------------------- MODULE FrameProofs -----------------------------
(***************************************************************************)
(* Proofs about a frame.  The execution loop, for every length of a frame, *)
(* of a slice and of the screen: no clock is lost, the lines keep their    *)
(* times, and a frame has its interrupts.  The operation port of the CRTC, *)
(* for every set of masks and rasters: a clear is one that was asked for,  *)
(* with the mask of its request, and a source alone copies nothing.        *)
(***************************************************************************)
EXTENDS FrameLoop, CRTC, TLAPS

USE FrameLoopAssumption DEF FrameLoopAssumption

-----------------------------------------------------------------------------
(* Division.                                                               *)

LEMMA DivType ==
  ASSUME NEW a \in Nat, NEW b \in Nat \ {0}
  PROVE  a \div b \in Nat
BY Z3

LEMMA DivExact ==
  ASSUME NEW a \in Nat, NEW b \in Nat \ {0}
  PROVE  (a * b) \div b = a
BY Z3

\* A summand of at least s times the divisor adds at least s to the quotient.
LEMMA DivStep ==
  ASSUME NEW a \in Nat, NEW t \in Nat, NEW s \in Nat, NEW b \in Nat \ {0},
         s * b <= t
  PROVE  a \div b + s <= (a + t) \div b
BY Z3

LEMMA LineEndType ==
  ASSUME TypeOK, NEW v \in Nat
  PROVE  LineEnd(v) \in Nat
<1>1. clk_total * (v + 1) \in Nat /\ VLINE_TOTAL \in Nat \ {0}
  BY DEF TypeOK
<1> QED
  BY <1>1, DivType DEF LineEnd

-----------------------------------------------------------------------------
(* The inductive invariant.                                                *)

\* The horizontal line is begun in the head of a turn.
BeginIsAtHead == hsync = 1 => phase \in {"head", "idle"}

\* With steady registers the line in progress is one of the frame and its end
\* is the one computed for it.
LineIsDue ==
  phase # "idle" /\ steady => vline < VLINE_TOTAL /\ clk_next = LineEnd(vline)

\* The lines before the one in progress are over, and it is not, with at most
\* one slice to excess.
LineInTime ==
  steady /\ CLOCK_SLICE * VLINE_TOTAL <= clk_total =>
    /\ phase \in {"head", "slice"} => clk_count < clk_next
    /\ phase = "tail" => clk_count < clk_next + CLOCK_SLICE
    /\ phase = "head" /\ hsync = 1 /\ vline > 0 => LineEnd(vline - 1) <= clk_count

\* The lines that have begun in this frame.
Begun == IF hsync = 1 THEN vline ELSE vline + 1

\* The interrupts so far are those of the lines that have begun, or ended.
CallsSoFar ==
  phase # "idle" /\ steady =>
    /\ calls.hsync = Begun
    /\ calls.disp = One(DispLine < Begun)
    /\ calls.raster = One(CRTC_IntLine < (IF rasterEdge THEN vline ELSE Begun))

IInv ==
  /\ TypeOK
  /\ ClocksAreShared
  /\ LeftoverBounded
  /\ BeginIsAtHead
  /\ LineIsDue
  /\ LineInTime
  /\ CallsSoFar
  /\ InterruptsPerFrame

-----------------------------------------------------------------------------
\* The clocks of a slice.
LEMMA ExecuteStep ==
  ASSUME TypeOK, Execute
  PROVE  /\ ICount' \in Nat /\ clk_count' \in Int
         /\ clk_total' = clk_total /\ clk_next' = clk_next
         /\ clk_count' + ICount' = clk_count + ICount
         /\ clk_count' <= clk_count + CLOCK_SLICE
BY SMT DEF TypeOK, Execute

LEMMA BumpType ==
  ASSUME TypeOK, NEW n \in Nat, NEW part \in Nat
  PROVE  Bump(n, part) \in Nat
BY DEF Bump

CallsRecord == [hsync : Nat, disp : Nat, raster : Nat, key : Nat, mouse : Nat]

\* The calls of the head and of the tail, with the numbers that they add.
LEMMA HeadCalls ==
  ASSUME Head, hsync # 0
  PROVE  \E d, r \in {0, 1} :
           /\ d = 1 <=> vline = DispLine
           /\ r = 1 <=> ~ rasterEdge /\ vline = CRTC_IntLine
           /\ Called(1, d, r, 0, 0)
<1> DEFINE d == One(vline = DispLine)
           r == One(~ rasterEdge /\ vline = CRTC_IntLine)
<1>0. 0 # 1
  OBVIOUS
<1>1. r \in {0, 1} /\ d \in {0, 1}
  BY Zenon DEF One
<1>2. (d = 1 <=> vline = DispLine) /\ (r = 1 <=> ~ rasterEdge /\ vline = CRTC_IntLine)
  BY <1>0, Zenon DEF One
<1>3. Called(1, d, r, 0, 0)
  BY Zenon DEF Head
<1> HIDE DEF r, d
<1> QED
  BY <1>1, <1>2, <1>3, Zenon

LEMMA EndLineCalls ==
  ASSUME EndLine
  PROVE  \E r, k, m \in {0, 1} :
           /\ r = 1 <=> rasterEdge /\ vline = CRTC_IntLine
           /\ Called(0, 0, r, k, m)
<1> DEFINE r == One(rasterEdge /\ vline = CRTC_IntLine)
           k == One(KeyIntCnt' = 0)
           m == One(MouseIntCnt' = 0)
<1>0. 0 # 1
  OBVIOUS
<1>1. r \in {0, 1} /\ k \in {0, 1} /\ m \in {0, 1}
  BY Zenon DEF One
<1>2. r = 1 <=> rasterEdge /\ vline = CRTC_IntLine
  BY <1>0, Zenon DEF One
<1>3. Called(0, 0, r, k, m)
  BY Zenon DEF EndLine
<1> HIDE DEF r, k, m
<1> QED
  BY <1>1, <1>2, <1>3, Zenon

LEMMA TypeStep == TypeOK /\ [Next]_vars => TypeOK'
<1> SUFFICES ASSUME TypeOK, [Next]_vars PROVE TypeOK'
  OBVIOUS
<1>1. CASE StartFrame
  <2>1. clk_next' \in Nat
    BY <1>1, DivType DEF StartFrame, TypeOK
  <2>2. calls' \in CallsRecord
    BY <1>1 DEF StartFrame, NoCalls, CallsRecord
  <2>3. /\ phase' = "head" /\ clk_total' \in Clocks
        /\ vline' = 0 /\ hsync' = 1 /\ KeyIntCnt' = 0 /\ MouseIntCnt' = 0
        /\ steady' = TRUE /\ UNCHANGED registers
    BY <1>1, Zenon DEF StartFrame
  <2>4. clk_count' \in Int /\ ICount' \in Nat
    <3>1. PICK t \in Clocks : clk_total' = t
      BY <1>1 DEF StartFrame
    <3>2. clk_count' = -ICount /\ ICount' = ICount + t
      BY <1>1, <3>1, Zenon DEF StartFrame
    <3>3. ICount \in Nat /\ t \in Nat
      BY DEF TypeOK
    <3> QED
      BY <3>2, <3>3
  <2> QED
    BY <2>1, <2>2, <2>3, <2>4 DEF TypeOK, registers, CallsRecord
<1>2. CASE Head
  <2>1. calls' \in CallsRecord
    <3>1. CASE hsync = 0
      BY <1>2, <3>1 DEF Head, TypeOK, CallsRecord
    <3>2. CASE hsync # 0
      BY <1>2, <3>2, HeadCalls DEF Called, TypeOK, CallsRecord
    <3> QED
      BY <3>1, <3>2
  <2>2. hsync' = 0 /\ phase' = "slice"
        /\ UNCHANGED <<registers, vline, clock, KeyIntCnt, MouseIntCnt, steady>>
    BY <1>2, Zenon DEF Head
  <2> QED
    BY <2>1, <2>2 DEF TypeOK, registers, clock, CallsRecord
<1>3. CASE QuietSlice
  BY <1>3, ExecuteStep DEF QuietSlice, TypeOK, registers
<1>4. CASE WritingSlice
  <2>1. Execute
    BY <1>4 DEF WritingSlice
  <2> QED
    BY <1>4, <2>1, ExecuteStep DEF WritingSlice, TypeOK
<1>5. CASE SameLine
  BY <1>5 DEF SameLine, TypeOK, registers, clock
<1>6. CASE EndLine
  <2>1. KeyIntCnt' \in Nat /\ MouseIntCnt' \in Nat
    BY <1>6, BumpType DEF EndLine, TypeOK
  <2>2. calls' \in CallsRecord
    BY <1>6, EndLineCalls DEF Called, CallsRecord, TypeOK
  <2>3. clk_next' \in Nat
    BY <1>6, LineEndType DEF EndLine, TypeOK
  <2>4. /\ phase' \in {"head", "idle"} /\ hsync' = 1 /\ vline' = vline + 1
        /\ UNCHANGED <<registers, ICount, clk_total, clk_count, steady>>
    BY <1>6, Zenon DEF EndLine
  <2> QED
    BY <2>1, <2>2, <2>3, <2>4 DEF TypeOK, registers, CallsRecord
<1>7. CASE Reset
  <2>1. calls' \in CallsRecord
    BY <1>7 DEF Reset, NoCalls, CallsRecord
  <2> QED
    BY <1>7, <2>1 DEF Reset, TypeOK, CallsRecord
<1>8. CASE UNCHANGED vars
  BY <1>8 DEF vars, TypeOK, registers, clock
<1> QED
  BY <1>1, <1>2, <1>3, <1>4, <1>5, <1>6, <1>7, <1>8 DEF Next

-----------------------------------------------------------------------------
(* The parts of the invariant, one by one.                                 *)

LEMMA ClocksStep == TypeOK /\ ClocksAreShared /\ [Next]_vars => ClocksAreShared'
<1> SUFFICES ASSUME TypeOK, ClocksAreShared, [Next]_vars PROVE ClocksAreShared'
  OBVIOUS
<1>1. CASE StartFrame
  <2>1. PICK t \in Clocks : clk_total' = t
    BY <1>1 DEF StartFrame
  <2>2. clk_count' = -ICount /\ ICount' = ICount + t
    BY <1>1, <2>1, Zenon DEF StartFrame
  <2>3. ICount \in Nat /\ t \in Nat
    BY DEF TypeOK
  <2> QED
    BY <2>1, <2>2, <2>3 DEF ClocksAreShared
<1>2. CASE QuietSlice \/ WritingSlice
  BY <1>2, ExecuteStep DEF QuietSlice, WritingSlice, ClocksAreShared
<1>3. CASE Head \/ SameLine \/ EndLine \/ Reset \/ UNCHANGED vars
  BY <1>3 DEF Head, SameLine, EndLine, Reset, vars, clock, ClocksAreShared
<1> QED
  BY <1>1, <1>2, <1>3 DEF Next

\* A frame ends no sooner than its last line does, so it has run some clocks.
LEMMA LeftoverStep ==
  TypeOK /\ ClocksAreShared /\ LeftoverBounded /\ [Next]_vars => LeftoverBounded'
<1> SUFFICES ASSUME TypeOK, ClocksAreShared, LeftoverBounded, [Next]_vars
             PROVE  LeftoverBounded'
  OBVIOUS
<1>1. CASE EndLine
  <2>1. /\ phase = "tail" /\ clk_count >= clk_next
        /\ ICount' = ICount /\ clk_total' = clk_total
    BY <1>1 DEF EndLine
  <2>2. /\ clk_count \in Int /\ clk_next \in Nat /\ clk_total \in Nat
        /\ clk_count + ICount = clk_total /\ ICount \in Nat
    BY <2>1 DEF TypeOK, ClocksAreShared
  <2> QED
    BY <2>1, <2>2 DEF LeftoverBounded
<1>2. CASE StartFrame \/ Head \/ QuietSlice \/ WritingSlice \/ SameLine
  BY <1>2 DEF StartFrame, Head, QuietSlice, WritingSlice, SameLine, LeftoverBounded
<1>3. CASE Reset
  <2>1. ICount' = 0 /\ clk_total' = clk_total
    BY <1>3 DEF Reset
  <2>2. clk_total \in Nat
    BY DEF TypeOK
  <2> QED
    BY <2>1, <2>2 DEF LeftoverBounded
<1>4. CASE UNCHANGED vars
  BY <1>4 DEF vars, clock, LeftoverBounded
<1> QED
  BY <1>1, <1>2, <1>3, <1>4 DEF Next

LEMMA BeginStep == TypeOK /\ BeginIsAtHead /\ [Next]_vars => BeginIsAtHead'
<1> SUFFICES ASSUME TypeOK, BeginIsAtHead, [Next]_vars PROVE BeginIsAtHead'
  OBVIOUS
<1>1. CASE StartFrame \/ Head \/ EndLine \/ Reset
  BY <1>1 DEF StartFrame, Head, EndLine, Reset, BeginIsAtHead
<1>2. CASE QuietSlice \/ WritingSlice \/ SameLine
  BY <1>2 DEF QuietSlice, WritingSlice, SameLine, BeginIsAtHead, TypeOK
<1>3. CASE UNCHANGED vars
  BY <1>3 DEF vars, BeginIsAtHead
<1> QED
  BY <1>1, <1>2, <1>3 DEF Next

\* The end of the first line.
LEMMA FirstLine ==
  ASSUME TypeOK, StartFrame
  PROVE  /\ clk_total' \in Nat /\ clk_next' = clk_total' \div VLINE_TOTAL
         /\ clk_next' = LineEnd(vline)'
<1>1. PICK t \in Clocks : clk_total' = t
  BY DEF StartFrame
<1>2. t \in Nat
  OBVIOUS
<1>3. clk_next' = t \div VLINE_TOTAL /\ vline' = 0 /\ VLINE_TOTAL' = VLINE_TOTAL
  BY <1>1, Zenon DEF StartFrame, registers
<1>4. t * (0 + 1) = t
  BY <1>2
<1> QED
  BY <1>1, <1>2, <1>3, <1>4, Zenon DEF LineEnd

LEMMA DueStep == TypeOK /\ LineIsDue /\ [Next]_vars => LineIsDue'
<1> SUFFICES ASSUME TypeOK, LineIsDue, [Next]_vars PROVE LineIsDue'
  OBVIOUS
<1>1. CASE StartFrame
  <2>1. vline' = 0 /\ VLINE_TOTAL' = VLINE_TOTAL
    BY <1>1 DEF StartFrame, registers
  <2>2. VLINE_TOTAL \in Nat \ {0}
    BY DEF TypeOK
  <2> QED
    BY <1>1, <2>1, <2>2, FirstLine DEF LineIsDue
<1>2. CASE Head \/ SameLine \/ QuietSlice
  <2>1. UNCHANGED <<VLINE_TOTAL, vline, clk_next, clk_total, steady>> /\ phase # "idle"
    BY <1>2 DEF Head, SameLine, QuietSlice, Execute, registers, clock
  <2> QED
    BY <2>1, Zenon DEF LineIsDue, LineEnd
<1>3. CASE WritingSlice
  BY <1>3 DEF WritingSlice, LineIsDue
<1>4. CASE EndLine
  <2>1. /\ UNCHANGED <<VLINE_TOTAL, clk_total, steady>>
        /\ vline' = vline + 1 /\ clk_next' = LineEnd(vline + 1)
        /\ phase' # "idle" => vline + 1 < VLINE_TOTAL
    BY <1>4 DEF EndLine, registers
  <2> QED
    BY <2>1, Zenon DEF LineIsDue, LineEnd
<1>5. CASE Reset \/ UNCHANGED vars
  <2>1. UNCHANGED <<VLINE_TOTAL, vline, clk_next, clk_total, steady, phase>>
    BY <1>5 DEF Reset, vars, registers, clock
  <2> QED
    BY <2>1, Zenon DEF LineIsDue, LineEnd
<1> QED
  BY <1>1, <1>2, <1>3, <1>4, <1>5 DEF Next

LEMMA InTimeStep ==
  TypeOK /\ BeginIsAtHead /\ LineIsDue /\ LineInTime /\ [Next]_vars => LineInTime'
<1> SUFFICES ASSUME TypeOK, BeginIsAtHead, LineIsDue, LineInTime, [Next]_vars,
                    steady', (CLOCK_SLICE * VLINE_TOTAL <= clk_total)'
             PROVE  /\ phase' \in {"head", "slice"} => clk_count' < clk_next'
                    /\ phase' = "tail" => clk_count' < clk_next' + CLOCK_SLICE
                    /\ phase' = "head" /\ hsync' = 1 /\ vline' > 0 =>
                         LineEnd(vline - 1)' <= clk_count'
  BY Zenon DEF LineInTime
<1>0. VLINE_TOTAL \in Nat \ {0} /\ CLOCK_SLICE \in Nat \ {0}
  BY DEF TypeOK
<1>1. CASE StartFrame
  <2>1. PICK t \in Clocks : clk_total' = t
    BY <1>1 DEF StartFrame
  <2>2. /\ phase' = "head" /\ vline' = 0
        /\ VLINE_TOTAL' = VLINE_TOTAL /\ clk_count' = -ICount
        /\ clk_next' = (0 + t) \div VLINE_TOTAL
    BY <1>1, <2>1 DEF StartFrame, registers
  <2>3. CLOCK_SLICE * VLINE_TOTAL <= t /\ t \in Nat
    BY <2>1, <2>2
  <2>4. 0 \div VLINE_TOTAL + CLOCK_SLICE <= (0 + t) \div VLINE_TOTAL
    BY <1>0, <2>3, DivStep
  <2>5. 0 \div VLINE_TOTAL \in Nat
    BY <1>0, DivType
  <2>6. clk_next' > 0
    BY <1>0, <2>2, <2>4, <2>5
  <2>7. clk_count' <= 0
    BY <2>2 DEF TypeOK
  <2>8. clk_count' < clk_next'
    <3>1. -ICount \in Int /\ (0 + t) \div VLINE_TOTAL \in Nat
      BY <1>0, <2>3, DivType DEF TypeOK
    <3> QED
      BY <2>2, <2>6, <2>7, <3>1
  <2> QED
    BY <2>2, <2>8
<1>2. CASE Head \/ SameLine
  BY <1>2 DEF Head, SameLine, LineInTime, LineEnd, BeginIsAtHead, TypeOK, registers, clock
<1>3. CASE QuietSlice
  <2>1. /\ phase = "slice" /\ phase' = "tail"
        /\ UNCHANGED <<VLINE_TOTAL, steady>>
        /\ clk_total' = clk_total /\ clk_next' = clk_next
        /\ clk_count' <= clk_count + CLOCK_SLICE /\ clk_count' \in Int
    BY <1>3, ExecuteStep DEF QuietSlice, registers
  <2>2. clk_count < clk_next
    BY <2>1 DEF LineInTime
  <2> QED
    BY <1>0, <2>1, <2>2 DEF TypeOK
<1>4. CASE WritingSlice
  BY <1>4 DEF WritingSlice
<1>5. CASE EndLine
  <2>1. /\ phase = "tail" /\ phase' \in {"head", "idle"}
        /\ clk_count >= clk_next /\ vline' = vline + 1
        /\ clk_next' = LineEnd(vline + 1)
        /\ UNCHANGED <<VLINE_TOTAL, clk_total, clk_count, steady>>
    BY <1>5 DEF EndLine, registers
  <2>2. CLOCK_SLICE * VLINE_TOTAL <= clk_total /\ clk_total \in Nat
    BY <2>1 DEF TypeOK
  <2>3. clk_next = LineEnd(vline) /\ clk_count < clk_next + CLOCK_SLICE
    BY <2>1, <2>2 DEF LineIsDue, LineInTime
  <2>4. LineEnd(vline) + CLOCK_SLICE <= LineEnd(vline + 1)
    <3>1. clk_total * (vline + 1) \in Nat
      BY <2>2 DEF TypeOK
    <3>2. clk_total * (vline + 1) + clk_total = clk_total * ((vline + 1) + 1)
      BY <2>2 DEF TypeOK
    <3> QED
      BY <1>0, <2>2, <3>1, <3>2, DivStep DEF LineEnd
  <2>5. LineEnd(vline) \in Nat /\ LineEnd(vline + 1) \in Nat
    BY LineEndType DEF TypeOK
  <2>6. clk_count' < clk_next'
    BY <1>0, <2>1, <2>3, <2>4, <2>5 DEF TypeOK
  <2>7. LineEnd(vline - 1)' = LineEnd(vline)
    <3>1. vline' - 1 = vline
      BY <2>1 DEF TypeOK
    <3> QED
      BY <2>1, <3>1, Zenon DEF LineEnd
  <2> QED
    BY <2>1, <2>3, <2>6, <2>7
<1>6. CASE Reset \/ UNCHANGED vars
  BY <1>6 DEF Reset, vars, LineInTime, LineEnd, registers, clock
<1> QED
  BY <1>1, <1>2, <1>3, <1>4, <1>5, <1>6 DEF Next

LEMMA DispLineType == TypeOK => DispLine \in Nat
BY DEF TypeOK, DispLine

LEMMA CallsStep ==
  TypeOK /\ BeginIsAtHead /\ CallsSoFar /\ [Next]_vars => CallsSoFar'
<1> SUFFICES ASSUME TypeOK, BeginIsAtHead, CallsSoFar, [Next]_vars,
                    phase' # "idle", steady'
             PROVE  CallsSoFar'
  BY Zenon DEF CallsSoFar
<1>1. CASE StartFrame
  <2>1. Begun' = 0 /\ vline' = 0
    BY <1>1 DEF StartFrame, Begun
  <2>2. DispLine' = DispLine /\ CRTC_IntLine' = CRTC_IntLine
    <3>1. UNCHANGED <<VLINE_TOTAL, CRTC_VSTART, CRTC_VEND, CRTC_IntLine, dispEdge>>
      BY <1>1 DEF StartFrame, registers
    <3> QED
      BY <3>1, Zenon DEF DispLine
  <2>3. ~ DispLine < 0 /\ ~ CRTC_IntLine < 0
    BY DispLineType DEF TypeOK
  <2>4. calls'.hsync = 0 /\ calls'.disp = 0 /\ calls'.raster = 0
    BY <1>1 DEF StartFrame, NoCalls
  <2> QED
    BY <2>1, <2>2, <2>3, <2>4, Zenon DEF CallsSoFar, One
<1>2. CASE Head
  <2>1. /\ phase # "idle" /\ steady
        /\ UNCHANGED <<VLINE_TOTAL, CRTC_VSTART, CRTC_VEND, CRTC_IntLine, dispEdge,
                       rasterEdge, vline>>
        /\ hsync' = 0
    BY <1>2 DEF Head, registers
  <2>2. UNCHANGED <<DispLine, CRTC_IntLine, rasterEdge, vline>>
    BY <2>1, Zenon DEF DispLine
  <2>3. /\ calls.hsync = Begun /\ calls.disp = One(DispLine < Begun)
        /\ calls.raster = One(CRTC_IntLine < (IF rasterEdge THEN vline ELSE Begun))
    BY <2>1, Zenon DEF CallsSoFar
  <2>4. Begun' = vline + 1
    BY <2>1 DEF Begun
  <2>5. CASE hsync = 0
    <3>1. calls' = calls /\ Begun = vline + 1
      BY <1>2, <2>5 DEF Head, Begun
    <3> QED
      BY <2>2, <2>3, <2>4, <3>1, Zenon DEF CallsSoFar
  <2>6. CASE hsync # 0
    <3>1. Begun = vline
      BY <2>6 DEF Begun, TypeOK
    <3>2. PICK d, r \in {0, 1} :
            /\ d = 1 <=> vline = DispLine
            /\ r = 1 <=> ~ rasterEdge /\ vline = CRTC_IntLine
            /\ Called(1, d, r, 0, 0)
      BY <1>2, <2>6, HeadCalls
    <3>3. /\ calls'.hsync = calls.hsync + 1 /\ calls'.disp = calls.disp + d
          /\ calls'.raster = calls.raster + r
      BY <3>2 DEF Called, TypeOK
    <3>4. vline \in Nat /\ DispLine \in Nat /\ CRTC_IntLine \in Nat
      BY DispLineType DEF TypeOK
    <3>5. One(DispLine < vline) + d = One(DispLine < vline + 1)
      BY <3>2, <3>4 DEF One
    <3>6. One(CRTC_IntLine < (IF rasterEdge THEN vline ELSE vline)) + r
            = One(CRTC_IntLine < (IF rasterEdge THEN vline ELSE vline + 1))
      BY <3>2, <3>4 DEF One
    <3> QED
      BY <2>2, <2>3, <2>4, <3>1, <3>3, <3>5, <3>6, Zenon DEF CallsSoFar
  <2> QED
    BY <2>5, <2>6
<1>3. CASE SameLine \/ QuietSlice
  <2>1. UNCHANGED <<VLINE_TOTAL, CRTC_VSTART, CRTC_VEND, CRTC_IntLine, dispEdge, rasterEdge,
                    vline, hsync, calls, steady>>
        /\ phase # "idle"
    BY <1>3 DEF SameLine, QuietSlice, registers
  <2> QED
    BY <2>1, Zenon DEF CallsSoFar, Begun, DispLine
<1>4. CASE WritingSlice
  BY <1>4 DEF WritingSlice
<1>5. CASE EndLine
  <2>1. /\ phase = "tail" /\ steady
        /\ UNCHANGED <<VLINE_TOTAL, CRTC_VSTART, CRTC_VEND, CRTC_IntLine, dispEdge,
                       rasterEdge>>
        /\ hsync' = 1 /\ vline' = vline + 1
    BY <1>5 DEF EndLine, registers
  <2>2. UNCHANGED <<DispLine, CRTC_IntLine, rasterEdge>>
    BY <2>1, Zenon DEF DispLine
  <2>3. Begun = vline + 1 /\ Begun' = vline + 1
    BY <2>1 DEF Begun, BeginIsAtHead
  <2>4. /\ calls.hsync = Begun /\ calls.disp = One(DispLine < Begun)
        /\ calls.raster = One(CRTC_IntLine < (IF rasterEdge THEN vline ELSE Begun))
    BY <2>1 DEF CallsSoFar
  <2>5. PICK r, k, m \in {0, 1} :
          /\ r = 1 <=> rasterEdge /\ vline = CRTC_IntLine
          /\ Called(0, 0, r, k, m)
    BY <1>5, EndLineCalls
  <2>6. /\ calls'.hsync = calls.hsync /\ calls'.disp = calls.disp
        /\ calls'.raster = calls.raster + r
    BY <2>5 DEF Called, TypeOK
  <2>7. One(CRTC_IntLine < (IF rasterEdge THEN vline ELSE vline + 1)) + r
          = One(CRTC_IntLine < (IF rasterEdge THEN vline + 1 ELSE vline + 1))
    BY <2>5 DEF One, TypeOK
  <2> QED
    BY <2>1, <2>2, <2>3, <2>4, <2>6, <2>7, Zenon DEF CallsSoFar
<1>6. CASE Reset
  BY <1>6 DEF Reset
<1>7. CASE UNCHANGED vars
  <2>1. UNCHANGED <<VLINE_TOTAL, CRTC_VSTART, CRTC_VEND, CRTC_IntLine, dispEdge, rasterEdge,
                    vline, hsync, calls, steady, phase>>
    BY <1>7 DEF vars, registers
  <2> QED
    BY <2>1, Zenon DEF CallsSoFar, Begun, DispLine
<1> QED
  BY <1>1, <1>2, <1>3, <1>4, <1>5, <1>6, <1>7 DEF Next

\* The interrupts of a frame are complete when its last line has ended.
LEMMA InterruptsStep ==
  TypeOK /\ ClocksAreShared /\ BeginIsAtHead /\ LineIsDue /\ CallsSoFar
    /\ InterruptsPerFrame /\ [Next]_vars => InterruptsPerFrame'
<1> SUFFICES ASSUME TypeOK, ClocksAreShared, BeginIsAtHead, LineIsDue, CallsSoFar,
                    InterruptsPerFrame, [Next]_vars
             PROVE  InterruptsPerFrame'
  OBVIOUS
<1>1. CASE StartFrame \/ Head \/ QuietSlice \/ WritingSlice \/ SameLine
  BY <1>1 DEF StartFrame, Head, QuietSlice, WritingSlice, SameLine, InterruptsPerFrame
<1>2. CASE EndLine
  <2> SUFFICES ASSUME phase' = "idle", steady'
               PROVE  InterruptsPerFrame'
    BY Zenon DEF InterruptsPerFrame
  <2>1. /\ phase = "tail" /\ steady /\ clk_count >= clk_next
        /\ UNCHANGED <<VLINE_TOTAL, CRTC_VSTART, CRTC_VEND, CRTC_IntLine, dispEdge, ICount>>
        /\ vline + 1 >= VLINE_TOTAL
    BY <1>2 DEF EndLine, registers, TypeOK
  <2>2. VLINE_TOTAL \in Nat \ {0} /\ vline + 1 = VLINE_TOTAL /\ Begun = VLINE_TOTAL
    BY <2>1 DEF LineIsDue, BeginIsAtHead, Begun, TypeOK
  <2>3. ICount = 0
    <3>1. clk_next = LineEnd(vline)
      BY <2>1 DEF LineIsDue
    <3>2. clk_total \in Nat
      BY DEF TypeOK
    <3>3. (clk_total * (vline + 1)) \div VLINE_TOTAL = clk_total
      BY <2>2, <3>2, DivExact
    <3> QED
      BY <2>1, <3>1, <3>2, <3>3 DEF LineEnd, ClocksAreShared, TypeOK
  <2>4. /\ calls.hsync = VLINE_TOTAL
        /\ calls.disp = One(DispLine < VLINE_TOTAL)
        /\ calls.raster = One(CRTC_IntLine < (IF rasterEdge THEN vline ELSE VLINE_TOTAL))
    BY <2>1, <2>2 DEF CallsSoFar
  <2>5. One(DispLine < VLINE_TOTAL) = One(IF dispEdge THEN CRTC_VSTART < VLINE_TOTAL
                                          ELSE CRTC_VEND < 2 * VLINE_TOTAL)
    BY <2>2 DEF One, DispLine, TypeOK
  <2>6. PICK r, k, m \in {0, 1} :
          /\ r = 1 <=> rasterEdge /\ vline = CRTC_IntLine
          /\ Called(0, 0, r, k, m)
    BY <1>2, EndLineCalls
  <2>7. /\ calls'.hsync = calls.hsync /\ calls'.disp = calls.disp
        /\ calls'.raster = calls.raster + r
    BY <2>6 DEF Called, TypeOK
  <2>8. One(CRTC_IntLine < (IF rasterEdge THEN vline ELSE VLINE_TOTAL)) + r
          = One(CRTC_IntLine < VLINE_TOTAL)
    BY <2>2, <2>6 DEF One, TypeOK
  <2> QED
    BY <2>1, <2>3, <2>4, <2>5, <2>7, <2>8, Zenon DEF InterruptsPerFrame
<1>3. CASE Reset
  BY <1>3 DEF Reset, NoCalls, InterruptsPerFrame
<1>4. CASE UNCHANGED vars
  <2>1. UNCHANGED <<VLINE_TOTAL, CRTC_VSTART, CRTC_VEND, CRTC_IntLine, dispEdge,
                    ICount, calls, steady, phase>>
    BY <1>4 DEF vars, registers, clock
  <2> QED
    BY <2>1, Zenon DEF InterruptsPerFrame
<1> QED
  BY <1>1, <1>2, <1>3, <1>4 DEF Next

-----------------------------------------------------------------------------
(* The theorems.                                                           *)

LEMMA IInvInit == Init => IInv
<1> SUFFICES ASSUME Init PROVE IInv
  OBVIOUS
<1>1. PICK t \in Clocks : clk_total = t /\ t \in Nat
  BY DEF Init
<1>2. TypeOK
  <2>1. dispEdge \in BOOLEAN /\ rasterEdge \in BOOLEAN /\ steady \in BOOLEAN
    BY Zenon DEF Init
  <2>2. calls \in CallsRecord
    BY DEF Init, NoCalls, CallsRecord
  <2>3. clk_total \in Clocks /\ clk_count \in Int /\ clk_next \in Nat
    BY <1>1 DEF Init
  <2>4. /\ phase = "idle" /\ VLINE_TOTAL \in Totals
        /\ CRTC_VSTART = 0 /\ CRTC_VEND = 0 /\ CRTC_IntLine = 0
        /\ vline = 0 /\ hsync = 0 /\ ICount = 0
        /\ KeyIntCnt = 0 /\ MouseIntCnt = 0
    BY Zenon DEF Init
  <2> QED
    BY <2>1, <2>2, <2>3, <2>4 DEF TypeOK, CallsRecord
<1>3. ClocksAreShared /\ LeftoverBounded /\ BeginIsAtHead /\ LineInTime
  BY <1>1 DEF Init, ClocksAreShared, LeftoverBounded, BeginIsAtHead, LineInTime
<1>4. LineIsDue /\ CallsSoFar
  BY DEF Init, LineIsDue, CallsSoFar
<1>5. InterruptsPerFrame
  BY DEF Init, InterruptsPerFrame, NoCalls
<1> QED
  BY <1>2, <1>3, <1>4, <1>5 DEF IInv

LEMMA IInvStep == IInv /\ [Next]_vars => IInv'
BY TypeStep, ClocksStep, LeftoverStep, BeginStep, DueStep, InTimeStep, CallsStep,
   InterruptsStep DEF IInv

\* The inductive invariant holds at all times.
THEOREM Invariance == Spec => []IInv
BY IInvInit, IInvStep, PTL DEF Spec

\* The state of the loop is well-typed: the counters of the clocks never run
\* below 0, whatever the guest does to the CRTC.
THEOREM TypeCorrect == Spec => []TypeOK
<1>1. IInv => TypeOK
  BY DEF IInv
<1> QED
  BY <1>1, Invariance, PTL

\* The clocks the slices have taken and those left make up the frame, for every
\* length of frames and slices and every behaviour of the guest.
THEOREM ClocksAreConserved == Spec => []ClocksAreShared
<1>1. IInv => ClocksAreShared
  BY DEF IInv
<1> QED
  BY <1>1, Invariance, PTL

\* A frame leaves at most one frame's clocks to the next one.
THEOREM LeftoverIsBounded == Spec => []LeftoverBounded
<1>1. IInv => LeftoverBounded
  BY DEF IInv
<1> QED
  BY <1>1, Invariance, PTL

\* With steady registers every line begins after the one before it is due and
\* before it is due itself.
THEOREM LinesKeepTime == Spec => []LinesOnTime
<1>1. IInv => LinesOnTime
  <2> SUFFICES ASSUME IInv, steady, CLOCK_SLICE * VLINE_TOTAL <= clk_total,
                      phase \in {"head", "slice"}, hsync = 1
               PROVE  clk_count < Due(vline) /\ (vline > 0 => Due(vline - 1) <= clk_count)
    BY Zenon DEF LinesOnTime
  <2>1. phase = "head"
    BY DEF IInv, BeginIsAtHead
  <2>2. clk_next = LineEnd(vline)
    BY <2>1 DEF IInv, LineIsDue
  <2>3. clk_count < clk_next /\ (vline > 0 => LineEnd(vline - 1) <= clk_count)
    BY <2>1 DEF IInv, LineInTime
  <2> QED
    BY <2>2, <2>3, Zenon DEF Due, LineEnd
<1> QED
  BY <1>1, Invariance, PTL

\* With steady registers a frame has exactly its interrupts and leaves no clock.
THEOREM InterruptsAreComplete == Spec => []InterruptsPerFrame
<1>1. IInv => InterruptsPerFrame
  BY DEF IInv
<1> QED
  BY <1>1, Invariance, PTL

-----------------------------------------------------------------------------
(* The operation port of the CRTC: the inductive invariant.                *)

\* A clear that runs is in its first frame with two to go or in its last one.
ClearRuns == CRTC_FastClr > 0 => bit /\ age + CRTC_FastClr <= 2

\* The latched mask of a request is the requested one, until the guest writes
\* the port without the bit.
LatchIsAsked == bit /\ ~ relatched => FastClrMask = asked

\* With the copy switched on, a destination has been copied when it was written.
DestinationIsCopied == mode8 => "dst" \notin rc

CRTCIInv == CRTCTypeOK /\ ClearRuns /\ LatchIsAsked /\ DestinationIsCopied

LEMMA CRTCIInvInit == CRTCInit => CRTCIInv
<1> SUFFICES ASSUME CRTCInit
             PROVE  CRTCIInv
  OBVIOUS
<1>1. bit \in BOOLEAN /\ mode8 \in BOOLEAN /\ highReso \in BOOLEAN /\ relatched \in BOOLEAN
  BY Zenon DEF CRTCInit
<1>2. CRTC_FastClr \in 0..2 /\ age \in 0..MaxAge
  BY CRTCAssumption DEF CRTCAssumption, CRTCInit
<1>3. {FastClrMask, r21, asked} \subseteq Mask /\ cleared \subseteq Mask
  BY CRTCAssumption DEF CRTCAssumption, CRTCInit
<1>4. /\ r22 \in Raster \X Raster /\ rc \subseteq {"src", "dst"}
      /\ copied \in (Raster \X Raster) \cup {<<>>}
  BY CRTCAssumption DEF CRTCAssumption, CRTCInit
<1>5. ClearRuns /\ LatchIsAsked /\ DestinationIsCopied
  BY DEF CRTCInit, ClearRuns, LatchIsAsked, DestinationIsCopied
<1> QED
  BY <1>1, <1>2, <1>3, <1>4, <1>5 DEF CRTCIInv, CRTCTypeOK

\* A write of the port, whatever it asks for, keeps a running clear running and
\* latches what it asks for.
LEMMA WriteClearStep ==
  ASSUME CRTCTypeOK, ClearRuns, LatchIsAsked, NEW one \in BOOLEAN, WriteClear(one)
  PROVE  /\ bit' \in BOOLEAN /\ relatched' \in BOOLEAN
         /\ {FastClrMask, asked}' \subseteq Mask
         /\ ClearRuns' /\ LatchIsAsked'
<1>1. bit' \in BOOLEAN /\ relatched' \in BOOLEAN
  BY DEF WriteClear, CRTCTypeOK
<1>2. {FastClrMask, asked}' \subseteq Mask
  BY DEF WriteClear, CRTCTypeOK
<1>3. ClearRuns'
  BY DEF WriteClear, ClearRuns
<1>4. LatchIsAsked'
  BY DEF WriteClear, LatchIsAsked
<1> QED
  BY <1>1, <1>2, <1>3, <1>4

LEMMA WritePortStep ==
  ASSUME CRTCIInv, NEW one \in BOOLEAN, NEW copy \in BOOLEAN, WritePort(one, copy)
  PROVE  CRTCIInv'
<1>1. WriteClear(one) /\ UNCHANGED <<CRTC_FastClr, cleared, age, r22, r21, highReso>>
  BY DEF WritePort, WriteClear
<1>2. /\ bit' \in BOOLEAN /\ relatched' \in BOOLEAN /\ {FastClrMask, asked}' \subseteq Mask
      /\ ClearRuns' /\ LatchIsAsked'
  BY <1>1, WriteClearStep DEF CRTCIInv
<1>3. /\ mode8' \in BOOLEAN /\ rc' \subseteq {"src", "dst"}
      /\ copied' \in (Raster \X Raster) \cup {<<>>} /\ DestinationIsCopied'
  BY DEF WritePort, RasterCopy, CRTCIInv, CRTCTypeOK, DestinationIsCopied
<1> QED
  BY <1>1, <1>2, <1>3 DEF CRTCIInv, CRTCTypeOK

LEMMA WriteR22Step ==
  ASSUME CRTCIInv, NEW half \in {{"src"}, {"dst"}, {"src", "dst"}},
         NEW s \in Raster, NEW d \in Raster, WriteR22(half, s, d)
  PROVE  CRTCIInv'
<1>1. UNCHANGED <<bit, CRTC_FastClr, FastClrMask, asked, relatched, cleared, age,
                  mode8, r21, highReso>>
  BY DEF WriteR22, clear
<1>2. r22' \in Raster \X Raster
  BY DEF WriteR22, CRTCIInv, CRTCTypeOK
<1>3. rc' \subseteq {"src", "dst"} /\ copied' \in (Raster \X Raster) \cup {<<>>}
  BY <1>2 DEF WriteR22, RasterCopy, CRTCIInv, CRTCTypeOK
<1>4. DestinationIsCopied'
  BY <1>1 DEF WriteR22, RasterCopy, CRTCIInv, DestinationIsCopied
<1> QED
  BY <1>1, <1>2, <1>3, <1>4 DEF CRTCIInv, CRTCTypeOK, ClearRuns, LatchIsAsked

LEMMA EndFrameStep ==
  ASSUME CRTCIInv, EndFrame \/ EndIdleFrame
  PROVE  CRTCIInv'
<1> USE CRTCAssumption DEF CRTCAssumption
<1>1. UNCHANGED <<FastClrMask, r21, highReso, asked, relatched, mode8, r22, rc, copied>>
  BY DEF EndFrame, EndIdleFrame, raster
<1>2. CRTC_FastClr' \in 0..2 /\ age' \in 0..MaxAge /\ cleared' \subseteq Mask
  BY DEF EndFrame, EndIdleFrame, Older, CRTCIInv, CRTCTypeOK
<1>3. bit' \in BOOLEAN /\ (bit' => bit)
  <2>1. CASE EndFrame /\ CRTC_FastClr > 0
    <3>1. bit' = (CRTC_FastClr' # 0) /\ bit
      BY <2>1, Zenon DEF EndFrame
    <3> QED
      BY <3>1, Zenon
  <2>2. CASE EndFrame /\ ~ (CRTC_FastClr > 0)
    BY <2>2, Zenon DEF EndFrame, CRTCIInv, CRTCTypeOK
  <2>3. CASE EndIdleFrame
    BY <2>3, Zenon DEF EndIdleFrame, CRTCIInv, CRTCTypeOK
  <2> QED
    BY <2>1, <2>2, <2>3
<1>4. ClearRuns'
  BY DEF EndFrame, EndIdleFrame, Older, CRTCIInv, CRTCTypeOK, ClearRuns
<1> QED
  BY <1>1, <1>2, <1>3, <1>4 DEF CRTCIInv, CRTCTypeOK, LatchIsAsked, DestinationIsCopied

LEMMA CRTCIInvStep == CRTCIInv /\ [CRTCNext]_crtcVars => CRTCIInv'
<1> SUFFICES ASSUME CRTCIInv, [CRTCNext]_crtcVars
             PROVE  CRTCIInv'
  OBVIOUS
<1>1. ASSUME NEW mask \in Mask, WriteR21(mask)
      PROVE  CRTCIInv'
  BY <1>1 DEF WriteR21, clear, raster, CRTCIInv, CRTCTypeOK, ClearRuns, LatchIsAsked,
              DestinationIsCopied
<1>2. ASSUME NEW high \in BOOLEAN, WriteR20(high)
      PROVE  CRTCIInv'
  BY <1>2 DEF WriteR20, clear, raster, CRTCIInv, CRTCTypeOK, ClearRuns, LatchIsAsked,
              DestinationIsCopied
<1>3. CASE CRTCReset
  BY <1>3, CRTCAssumption
     DEF CRTCAssumption, CRTCReset, clear, CRTCIInv, CRTCTypeOK, ClearRuns, LatchIsAsked,
         DestinationIsCopied
<1>4. CASE UNCHANGED crtcVars
  BY <1>4 DEF crtcVars, clear, raster, CRTCIInv, CRTCTypeOK, ClearRuns, LatchIsAsked,
              DestinationIsCopied
<1> QED
  BY <1>1, <1>2, <1>3, <1>4, WritePortStep, WriteR22Step, EndFrameStep, Zenon DEF CRTCNext

\* The invariant of the operation port holds at all times.
THEOREM PortInvariance == CRTCSpec => []CRTCIInv
BY CRTCIInvInit, CRTCIInvStep, PTL DEF CRTCSpec

\* The state of the operation port is well-typed.
THEOREM CRTCTypeCorrect == CRTCSpec => []CRTCTypeOK
<1>1. CRTCIInv => CRTCTypeOK
  BY DEF CRTCIInv
<1> QED
  BY <1>1, PortInvariance, PTL

\* A clear runs only while its bit is set, and for two frames at most, whatever
\* the guest writes to the port and whenever the machine is reset.
THEOREM ClearsAreAsked == CRTCSpec => []ClearIsAsked
<1>1. CRTCIInv => ClearIsAsked
  BY DEF CRTCIInv, CRTCTypeOK, ClearRuns, ClearIsAsked
<1> QED
  BY <1>1, PortInvariance, PTL

\* A clear uses the mask R21 selected when it was asked for, and no later one,
\* unless the guest has written the port in between.
THEOREM ClearsUseTheirMask == CRTCSpec => MaskOfTheRequest
<1>1. CRTCIInv /\ [CRTCNext]_crtcVars =>
        (CRTC_FastClr = 0 /\ CRTC_FastClr' > 0 /\ ~ relatched => cleared' = {asked})
  <2> SUFFICES ASSUME CRTCIInv, [CRTCNext]_crtcVars,
                      CRTC_FastClr = 0, CRTC_FastClr' > 0, ~ relatched
               PROVE  cleared' = {asked}
    OBVIOUS
  <2>1. EndFrame
    BY DEF CRTCNext, crtcVars, clear, WritePort, WriteClear, WriteR22, WriteR21, WriteR20,
           EndIdleFrame, CRTCReset
  <2> QED
    BY <2>1 DEF EndFrame, CRTCIInv, LatchIsAsked
<1> QED
  BY <1>1, PortInvariance, PTL DEF CRTCSpec, MaskOfTheRequest

\* A source written on its own never copies, whatever was written before.
THEOREM SourcesWait == CRTCSpec => SourceWaits
<1>1. CRTCIInv =>
        \A s \in Raster : WriteR22({"src"}, s, 0) => copied' = <<>>
  BY DEF CRTCIInv, DestinationIsCopied, WriteR22
<1> QED
  BY <1>1, PortInvariance, PTL DEF CRTCSpec, SourceWaits
=============================================================================
