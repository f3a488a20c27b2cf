-------------------------------- MODULE CRTC --------------------------------
(***************************************************************************)
(* The operation port of the CRTC (x68k/crtc.c): the fast clear of the     *)
(* graphics memory, which the end of a frame carries out (WinX68k_Exec),   *)
(* and the raster copy of the text memory, from the raster in the high     *)
(* byte of R22 to the raster in its low byte.                              *)
(*                                                                         *)
(* Bit 1 of the port asks for a clear; the end of the frame starts it with *)
(* the mask latched from the port write, and one or two frames later takes *)
(* the bit back.  Bit 3 copies a raster at once and, while it stays set,   *)
(* makes every new destination in R22 copy one more.                       *)
(***************************************************************************)
EXTENDS Integers

CONSTANTS
  Mask,        \* the values of FastClearMask[R21 & 15]
  ResetMask,   \* the one of R21 = 0
  Raster,      \* the rasters R22 names; 0 is one of them
  MaxAge       \* bound on the frames the history variable counts

ASSUME CRTCAssumption ==
  /\ ResetMask \in Mask /\ 0 \in Raster
  /\ MaxAge \in Nat /\ MaxAge > 3

VARIABLES
  bit,           \* CRTC_Mode & 2
  mode8,         \* CRTC_Mode & 8
  CRTC_FastClr,  \* the frames a running clear still takes
  FastClrMask,   \* CRTC_FastClrMask, the latched mask
  r21,           \* the mask R21 selects now
  r22,           \* the source and the destination of the raster copy
  rc,            \* CRTC_RCFlag: the halves of R22 written since the last copy
  highReso,      \* R20 & 0x10: 31 kHz
  asked,         \* history: the mask of the last write of a 1
  relatched,     \* history: a write without the bit has latched a mask since
  cleared,       \* history: the masks used by the last clear, {} before it
  age,           \* history: frame ends since the last clear started
  copied         \* history: the rasters copied by the last write, <<>> if none

clear == <<bit, CRTC_FastClr, FastClrMask, asked, relatched, cleared, age>>
raster == <<mode8, r22, rc, copied>>
crtcVars == <<clear, raster, r21, highReso>>

\* Power-on.
CRTCInit ==
  /\ bit = FALSE /\ CRTC_FastClr = 0
  /\ r21 = ResetMask /\ FastClrMask = r21 /\ asked = r21
  /\ highReso = FALSE
  /\ relatched = FALSE /\ cleared = {} /\ age = 0
  /\ mode8 = FALSE /\ r22 = <<0, 0>> /\ rc = {} /\ copied = <<>>

-----------------------------------------------------------------------------
\* CRTC_RasterCopy.
RasterCopy == copied' = r22' /\ rc' = {}

\* The clear's half of a port write.  The bit can be set but not taken back, and
\* the mask is latched by every write that finds it set.
WriteClear(one) ==
  /\ bit' = (one \/ bit)
  /\ FastClrMask' = IF bit' THEN r21 ELSE FastClrMask
  /\ asked' = IF one THEN r21 ELSE asked
  /\ relatched' = (~ one /\ (bit \/ relatched))
  /\ UNCHANGED <<CRTC_FastClr, cleared, age>>

\* Faulty variants: the bit is taken back; the halves written are kept.
WritePortClearing(one, copy) ==
  /\ bit' = one
  /\ FastClrMask' = IF one THEN r21 ELSE FastClrMask
  /\ asked' = IF one THEN r21 ELSE asked
  /\ UNCHANGED <<relatched, CRTC_FastClr, cleared, age, raster, r21, highReso>>
WritePortKeepingFlags(one, copy) ==
  /\ WriteClear(one)
  /\ mode8' = copy
  /\ copied' = (IF copy THEN r22 ELSE <<>>)
  /\ UNCHANGED <<r22, rc, r21, highReso>>

\* CRTC_Write16 at 0xe80481.
WritePort(one, copy) ==
  /\ WriteClear(one)
  /\ mode8' = copy
  /\ UNCHANGED r22
  /\ IF copy THEN RasterCopy ELSE copied' = <<>> /\ UNCHANGED rc
  /\ UNCHANGED <<r21, highReso>>

\* CRTC_Write16 for R22: the halves that are written get the values s and d.
\* Nothing else happens if the word with zeros for the half that is not written
\* is what the register held.
WriteR22(half, s, d) ==
  LET data == <<IF "src" \in half THEN s ELSE 0, IF "dst" \in half THEN d ELSE 0>>
  IN  /\ r22' = <<IF "src" \in half THEN s ELSE r22[1], IF "dst" \in half THEN d ELSE r22[2]>>
      /\ IF data # r22 /\ mode8 /\ "dst" \in rc \cup half
            THEN RasterCopy
            ELSE /\ copied' = <<>>
                 /\ rc' = IF data = r22 THEN rc ELSE rc \cup half
      /\ UNCHANGED <<clear, mode8, r21, highReso>>

\* R21 selects other planes to clear; R20 another resolution.
WriteR21(mask) ==
  /\ r21' = mask
  /\ UNCHANGED <<clear, raster, highReso>>
WriteR20(high) ==
  /\ highReso' = high
  /\ UNCHANGED <<clear, raster, r21>>

\* What CRTC_Read16 shows of the clear's bit.
ReadBack == CRTC_FastClr > 0

-----------------------------------------------------------------------------
Older == age' = IF age < MaxAge THEN age + 1 ELSE age

\* Faulty variants: a running clear starts again; the mask of R21 is used.
EndFrameRestarting ==
  /\ bit
  /\ CRTC_FastClr' = IF highReso THEN 1 ELSE 2
  /\ cleared' = {FastClrMask}
  /\ age' = 0
  /\ UNCHANGED <<bit, FastClrMask, r21, highReso, asked, relatched, raster>>
EndFrameUnlatched ==
  /\ bit
  /\ IF CRTC_FastClr > 0
       THEN /\ CRTC_FastClr' = CRTC_FastClr - 1
            /\ bit' = (CRTC_FastClr' # 0)
            /\ UNCHANGED <<cleared, age>>
       ELSE /\ CRTC_FastClr' = IF highReso THEN 1 ELSE 2
            /\ cleared' = {r21}
            /\ age' = 0
            /\ UNCHANGED bit
  /\ UNCHANGED <<FastClrMask, r21, highReso, asked, relatched, raster>>

\* The end of a frame: the clear starts, goes on, or ends.
EndFrame ==
  /\ bit
  /\ IF CRTC_FastClr > 0
       THEN /\ CRTC_FastClr' = CRTC_FastClr - 1
            /\ bit' = (CRTC_FastClr' # 0)
            /\ Older
            /\ UNCHANGED cleared
       ELSE /\ CRTC_FastClr' = IF highReso THEN 1 ELSE 2
            /\ cleared' = {FastClrMask}
            /\ age' = 0
            /\ UNCHANGED bit
  /\ UNCHANGED <<FastClrMask, r21, highReso, asked, relatched, raster>>

\* The end of a frame without a request.
EndIdleFrame ==
  /\ ~ bit
  /\ Older
  /\ UNCHANGED <<bit, CRTC_FastClr, FastClrMask, r21, highReso, asked, relatched, cleared, raster>>

\* WinX68k_Reset: CRTC_Init clears the registers; the port and a clear that is
\* asked for or running stay as they are.
CRTCReset ==
  /\ r21' = ResetMask /\ r22' = <<0, 0>> /\ highReso' = FALSE
  /\ UNCHANGED <<clear, mode8, rc, copied>>

CRTCNext ==
  \/ \E one, copy \in BOOLEAN : WritePort(one, copy)
  \/ \E half \in {{"src"}, {"dst"}, {"src", "dst"}}, s, d \in Raster : WriteR22(half, s, d)
  \/ \E mask \in Mask : WriteR21(mask)
  \/ \E high \in BOOLEAN : WriteR20(high)
  \/ EndFrame \/ EndIdleFrame
  \/ CRTCReset

CRTCSpec == CRTCInit /\ [][CRTCNext]_crtcVars

\* Frames go on and on.
CRTCFairSpec == CRTCSpec /\ WF_crtcVars(EndFrame)

-----------------------------------------------------------------------------
CRTCTypeOK ==
  /\ bit \in BOOLEAN /\ mode8 \in BOOLEAN /\ highReso \in BOOLEAN /\ relatched \in BOOLEAN
  /\ CRTC_FastClr \in 0..2
  /\ {FastClrMask, r21, asked} \subseteq Mask
  /\ cleared \subseteq Mask /\ age \in 0..MaxAge
  /\ r22 \in Raster \X Raster /\ rc \subseteq {"src", "dst"}
  /\ copied \in (Raster \X Raster) \cup {<<>>}

\* A running clear is one that was asked for: its bit stays set until it ends,
\* whatever the guest writes to the port, resets included, and its last frame is
\* at most the second one.
ClearIsAsked == CRTC_FastClr > 0 => bit /\ age < 2

\* "The bit written is not visible until the first vertical blank after the
\* write, when the clear starts" and goes back to 0 when it has ended (crtc.c):
\* every request is carried out and taken back.
AskedIsDone == (bit /\ ~ ReadBack ~> ReadBack) /\ (ReadBack ~> ~ ReadBack)

\* "The mask of this moment is the one that counts", says the comment at the
\* latch in the port write: R21 may change between the request and the end of
\* the frame.  It holds as long as the guest does not write the port once more,
\* for which the bit, still set, is the same as a request.
MaskOfTheRequest ==
  [][CRTC_FastClr = 0 /\ CRTC_FastClr' > 0 /\ ~ relatched => cleared' = {asked}]_crtcVars

\* The guest may keep the copy on and change source and destination one after
\* the other (the comment at R22 in CRTC_Write16): a source that is written on
\* its own never copies, whatever was written before the copy was switched on.
SourceWaits ==
  [][\A s \in Raster : WriteR22({"src"}, s, 0) => copied' = <<>>]_crtcVars
=============================================================================
