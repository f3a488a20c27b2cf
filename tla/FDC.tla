--------------------------------- MODULE FDC --------------------------------
(***************************************************************************)
(* The floppy disk controller uPD72065 (x68k/fdc.c) with its drives        *)
(* (x68k/fdd.c), on level 1 of the interrupt controller.                   *)
(*                                                                         *)
(* The guest writes a command and its parameters byte by byte to one port; *)
(* the command then asks for data bytes (the execution phase, bufnum not   *)
(* 0), which the guest or the DMA controller moves through the same port,  *)
(* and leaves result bytes to be read.  It moves them in the direction the *)
(* command has.  The user inserts and removes disks at any time.           *)
(* Cylinders are all alike; a disk is the set of sectors of its two sides, *)
(* and the bytes of a sector are only counted.                             *)
(***************************************************************************)
EXTENDS IOC, Sequences

CONSTANTS
  Drive,       \* the drives, of 0..3
  Disk,        \* what a disk holds: for each side, its sectors and their state
  Prm,         \* the parameters the guest gives to commands
  RMod,        \* the sector numbers: 2^8 in the code
  EnableSets   \* the sets of sources the guest enables

\* mt, hd: both sides, starting side; h, r: side and number in the sector's id;
\* eot: the last sector; len: the bytes of a sector.  The guest asks for at
\* least one byte: a command for none has neither an execution phase nor an
\* interrupt, and leaves wexec set.
Params == [mt : BOOLEAN, hd : 0..1, h : 0..1, r : 0..RMod - 1,
           eot : 0..RMod - 1, len : Nat \ {0}]

ASSUME FDCAssumption ==
  /\ 0 \in Drive /\ Drive \subseteq 0..3
  /\ RMod \in Nat \ {0, 1}
  /\ \A side \in 0..1 : DOMAIN Disk[side] \subseteq 1..RMod - 1
  /\ Prm \subseteq Params /\ Prm # {}
  /\ EnableSets \subseteq SUBSET Source

\* The number of parameter and result bytes of each command.  Commands that
\* differ in the kind of their sectors or the sense of their comparison are one
\* here; "Invalid" is any command without a routine, "Invalid20" the one of them
\* that leaves a result byte all the same.
CMD_TABLE ==
  [Invalid |-> 0, ReadDiag |-> 8, Specify |-> 2, SenseDevice |-> 1, Write |-> 8,
   Read |-> 8, Recalibrate |-> 1, SenseInt |-> 0, ReadID |-> 1, WriteID |-> 5,
   Seek |-> 2, Scan |-> 8, Invalid20 |-> 0]
DAT_TABLE ==
  [Invalid |-> 0, ReadDiag |-> 7, Specify |-> 0, SenseDevice |-> 1, Write |-> 7,
   Read |-> 7, Recalibrate |-> 0, SenseInt |-> 2, ReadID |-> 7, WriteID |-> 7,
   Seek |-> 0, Scan |-> 7, Invalid20 |-> 1]
Command == DOMAIN CMD_TABLE
\* The commands that look at more parameters than the drive.
Detailed == {"ReadDiag", "Write", "Read", "ReadID", "WriteID", "Scan"}
NoDrive == -1

VARIABLES
  fdc,       \* the controller: see Controllers
  prm,       \* PrmBuf: the parameters of the command
  todo,      \* history: the sectors a transfer has still to move
  disk,      \* the drives: type, write protection, frames until it is ready
  force      \* fdc.ready: every drive is taken for ready

vars == <<irqh, enabled, fdc, prm, todo, disk, force>>

\* err is bit 6 of fdc.st0 (abnormal end), rsp the same bit of RspBuf.
Controllers ==
  [cmd : Command, drv : Drive \cup {NoDrive}, wexec : BOOLEAN,
   rdptr : Nat, wrptr : Nat, rdnum : Nat, wrnum : Nat, bufnum : Nat,
   err : BOOLEAN, rsp : BOOLEAN]
Drives == [Drive -> [in : BOOLEAN, ROnly : BOOLEAN, SetDelay : 0..3]]

\* FDC_Init: memset.
FDC_Init ==
  [cmd |-> "Invalid", drv |-> 0, wexec |-> FALSE, rdptr |-> 0, wrptr |-> 0,
   rdnum |-> 0, wrnum |-> 0, bufnum |-> 0, err |-> FALSE, rsp |-> FALSE]
\* PrmBuf before its bytes are written.
NoPrm == CHOOSE p \in Prm : TRUE
NoDisk == [in |-> FALSE, ROnly |-> FALSE, SetDelay |-> 0]

Init ==
  /\ IOC_Init
  /\ fdc = FDC_Init /\ prm = NoPrm /\ todo = <<>> /\ force = FALSE
  /\ disk = [d \in Drive |-> NoDisk]

\* The state a command works on.
State == [f |-> fdc, p |-> prm, t |-> todo, q |-> irqh]
Becomes(s) == fdc' = s.f /\ prm' = s.p /\ todo' = s.t /\ irqh' = s.q

-----------------------------------------------------------------------------
\* The drives as a command sees them.

Present(d) == d \in Drive /\ disk[d].in
FDD_IsReady(d) == Present(d) /\ disk[d].SetDelay = 0
FDD_IsReadOnly(d) == d \in Drive /\ disk[d].ROnly
FDD_Seek(s) == Present(s.f.drv) /\ DOMAIN Disk[s.p.hd] # {}

\* The sector the parameters name, as XDF_Read, DIM_Read and D88_Read find it.
Sector(s) ==
  IF Present(s.f.drv) /\ s.p.h = s.p.hd /\ s.p.r \in DOMAIN Disk[s.p.hd]
    THEN Disk[s.p.hd][s.p.r] ELSE "missing"

-----------------------------------------------------------------------------
\* Faulty variants of the definitions below, which the properties must refute.
EPhaseEndStillWriting(s) ==
  [s EXCEPT !.f.rsp = s.f.err, !.f.bufnum = 0, !.f.rdptr = 0,
            !.q = Ask(s.q, "FDC", FDC_Int)]

\* FDC_SetInt.
SetInt(s) == [s EXCEPT !.q = Ask(s.q, "FDC", FDC_Int)]

\* FDC_EPhaseEnd: the results are there, the phase is over, the guest is told.
EPhaseEnd(s) ==
  SetInt([s EXCEPT !.f.rsp = s.f.err, !.f.bufnum = 0, !.f.rdptr = 0,
                   !.f.wexec = FALSE])

\* An execution phase for the bytes of one sector; a write awaits them.
Execute(s, writes) ==
  [s EXCEPT !.f.bufnum = s.p.len, !.f.wexec = writes \/ @]
EndIfAbnormal(s) == IF s.f.err THEN EPhaseEnd(s) ELSE s
Fail(s) == [s EXCEPT !.f.err = TRUE]

\* FDC_ExecCmd.
ExecCmd(s0) ==
  LET s == [s0 EXCEPT !.f.err = FALSE]           \* st0 = us & 7
      c == s.f.cmd
      accessible == FDD_IsReady(s.f.drv) \/ force
      reached == accessible /\ FDD_Seek(s)
  IN  CASE c = "ReadDiag" ->
             EndIfAbnormal(IF reached THEN Execute(s, FALSE) ELSE Fail(s))
        [] c \in {"Read", "Scan"} ->
             EndIfAbnormal(
               IF ~ reached \/ Sector(s) = "missing" THEN Fail(s)
               ELSE IF Sector(s) = "bad" THEN Fail(Execute(s, c = "Scan"))
               ELSE Execute(s, c = "Scan"))
        [] c = "Write" ->
             EndIfAbnormal(IF ~ FDD_IsReadOnly(s.f.drv) /\ reached
                             THEN Execute(s, TRUE) ELSE Fail(s))
        [] c = "WriteID" ->
             EndIfAbnormal(IF ~ FDD_IsReadOnly(s.f.drv) /\ accessible
                             THEN Execute(s, TRUE) ELSE Fail(s))
        [] c = "ReadID" ->
             SetInt([s EXCEPT !.f.err = ~ reached, !.f.rsp = ~ reached])
        [] c = "Recalibrate" ->
             SetInt(IF accessible /\ s.f.drv \in 0..1 THEN s ELSE Fail(s))
        [] c = "Seek" -> SetInt(IF FDD_IsReady(s.f.drv) THEN s ELSE Fail(s))
        [] c = "SenseDevice" -> [s EXCEPT !.f.rsp = FDD_IsReadOnly(s.f.drv)]
        [] c = "SenseInt" -> [s EXCEPT !.f.rsp = s0.f.err]
        [] OTHER -> s0

\* A sector has been moved: it is the one the command owed, or none is.
Moved(s) ==
  IF s.t # <<>> /\ Head(s.t) = <<s.p.hd, s.p.r>> THEN [s EXCEPT !.t = Tail(@)]
  ELSE s

\* Faulty variants: the side is not switched; the sector not counted.
NextTrackOneSide(s0) ==
  LET s == Moved(s0)
      p == s.p
  IN  IF p.r = p.eot THEN EPhaseEnd(s)
      ELSE ExecCmd([s EXCEPT !.p.r = (@ + 1) % RMod])
NextTrackSameSector(s0) ==
  LET s == Moved(s0)
  IN  IF s.p.r # s.p.eot THEN ExecCmd(s) ELSE EPhaseEnd(s)

\* FDC_NextTrack: the next sector of the track, the other side, or the end.
NextTrack(s0) ==
  LET s == Moved(s0)
      p == s.p
  IN  IF p.r # p.eot THEN ExecCmd([s EXCEPT !.p.r = (@ + 1) % RMod])
      ELSE IF p.mt /\ p.hd = 0 /\ p.h = 0
        THEN ExecCmd([s EXCEPT !.p.hd = 1, !.p.h = 1, !.p.r = 1])
      ELSE EPhaseEnd(s)

\* FDC_WriteBuffer: the bytes of a sector are there.  matches: the compared
\* bytes agree, or the formatted track is accepted.  A sector that is not found
\* interrupts and leaves the phase as it is; a mismatch ends the phase and then
\* goes on with the next sector nevertheless.
WriteBuffer(s, matches) ==
  CASE s.f.cmd = "Write" ->
         IF Sector(s) = "missing" THEN SetInt(Fail(s)) ELSE NextTrack(s)
    [] s.f.cmd = "WriteID" ->
         EPhaseEnd(IF Present(s.f.drv) /\ matches THEN s ELSE Fail(s))
    [] s.f.cmd = "Scan" ->
         NextTrack(IF matches THEN s ELSE EPhaseEnd(Fail(s)))
    [] OTHER -> s

-----------------------------------------------------------------------------
\* The sectors a transfer with these parameters stands for.
Span(side, first, last) == [i \in 1..last - first + 1 |-> <<side, first + i - 1>>]
Asked(p) ==
  Span(p.hd, p.r, p.eot)
    \o IF p.mt /\ p.hd = 0 /\ p.h = 0 THEN Span(1, 1, p.eot) ELSE <<>>

\* All parameters are there: the results are announced and the command runs.
Start(s) ==
  ExecCmd([s EXCEPT !.f.wrptr = 0, !.f.rdnum = DAT_TABLE[s.f.cmd],
                    !.t = Asked(s.p)])

\* FDC_Write, port 3, between commands: the command byte.
WriteCommand(c) ==
  /\ fdc.bufnum = 0 /\ fdc.wrnum = 0
  /\ LET f == [fdc EXCEPT !.cmd = c, !.rdptr = 0, !.wrptr = 1, !.rdnum = 0,
                          !.wrnum = CMD_TABLE[c]]
         s == [State EXCEPT !.f = f, !.p = NoPrm, !.t = <<>>]
     IN  Becomes(IF f.wrnum = 0 THEN Start(s) ELSE s)
  /\ UNCHANGED <<enabled, disk, force>>

\* FDC_Write, port 3: a parameter; all of them are known with the last one.
WriteParameter(p) ==
  /\ fdc.bufnum = 0 /\ fdc.wrnum > 0
  /\ fdc.wrnum > 1 \/ fdc.cmd \notin Detailed => p = NoPrm
  /\ LET f == [fdc EXCEPT !.wrptr = @ + 1, !.wrnum = @ - 1]
         s == [State EXCEPT !.f = f, !.p = p]
     IN  Becomes(IF f.wrnum = 0 THEN Start(s) ELSE s)
  /\ UNCHANGED <<enabled, disk, force>>

\* FDC_Write, port 3, in the execution phase: a byte for the controller.
WriteData(matches) ==
  /\ fdc.bufnum > 0 /\ fdc.wexec
  /\ LET s == [State EXCEPT !.f.wrptr = @ + 1]
     IN  Becomes(IF s.f.wrptr < fdc.bufnum THEN s
                 ELSE [WriteBuffer(s, matches) EXCEPT !.f.wrptr = 0])
  /\ UNCHANGED <<enabled, disk, force>>

\* FDC_Read, port 3, in the execution phase: a byte of the sector.
ReadData ==
  /\ fdc.bufnum > 0 /\ ~ fdc.wexec
  /\ LET s == [State EXCEPT !.f.rdptr = @ + 1]
     IN  Becomes(IF s.f.rdptr < fdc.bufnum THEN s
                 ELSE NextTrack([s EXCEPT !.f.rdptr = 0]))
  /\ UNCHANGED <<enabled, disk, force>>

\* FDC_Read, port 3: a byte of the results.
ReadResult ==
  /\ fdc.bufnum = 0 /\ fdc.rdnum > 0
  /\ fdc' = [fdc EXCEPT !.rdptr = @ + 1, !.rdnum = @ - 1]
  /\ UNCHANGED <<irqh, enabled, prm, todo, disk, force>>

\* FDC_Write, port 7.
SelectDrive(d) ==
  /\ d # fdc.drv
  /\ fdc' = [fdc EXCEPT !.drv = d]
  /\ UNCHANGED <<irqh, enabled, prm, todo, disk, force>>

\* FDC_SetForceReady, from an output pin of the sound chip.
SetForceReady(on) ==
  /\ on # force
  /\ force' = on
  /\ UNCHANGED <<irqh, enabled, fdc, prm, todo, disk>>

-----------------------------------------------------------------------------
\* Faulty variants of the definitions below, which the properties must refute.
EjectedSilently(q, D) == q
InsertedAtOnce(d, readonly) == [in |-> TRUE, ROnly |-> readonly, SetDelay |-> 0]

\* The requests of FDD_EjectFD for the drives of D: only a disk that was in
\* asks.
Ejected(q, D) ==
  IF \E d \in D : disk[d].in THEN Ask(q, "FDD", FDD_Int) ELSE q
EjectFD(d) == [disk[d] EXCEPT !.in = FALSE, !.ROnly = FALSE]

\* The guest ejects with the control port (port 5), the user with the menu.
Eject(D) ==
  /\ D # {}
  /\ irqh' = Ejected(irqh, D)
  /\ disk' = [d \in Drive |-> IF d \in D THEN EjectFD(d) ELSE disk[d]]
  /\ UNCHANGED <<enabled, fdc, prm, todo, force>>

Inserted(d, readonly) == [in |-> TRUE, ROnly |-> readonly, SetDelay |-> 3]

\* FDD_SetFD: the former disk is ejected, the new one announced 3 frames later;
\* a file that cannot be read leaves the drive empty, and write-protected when
\* the failing loader has set the protection.
Insert(d, readonly, readable) ==
  /\ irqh' = Ejected(irqh, {d})
  /\ disk' = [disk EXCEPT ![d] = IF readable THEN Inserted(d, readonly)
                                ELSE [EjectFD(d) EXCEPT !.ROnly = readonly]]
  /\ UNCHANGED <<enabled, fdc, prm, todo, force>>

\* A frame less to wait.
TickUntested(d) == [disk[d] EXCEPT !.SetDelay = @ - 1]
Tick(d) == [disk[d] EXCEPT !.SetDelay = IF @ > 0 THEN @ - 1 ELSE 0]

\* FDD_SetFDInt, at the end of a frame.
EndFrame ==
  /\ disk' = [d \in Drive |-> Tick(d)]
  /\ irqh' = IF \E d \in Drive : disk[d].SetDelay = 1
               THEN Ask(irqh, "FDD", FDD_Int) ELSE irqh
  /\ UNCHANGED <<enabled, fdc, prm, todo, force>>

-----------------------------------------------------------------------------
\* The guest enables and disables sources.
SetEnabled(e) == IOC_Write(e) /\ UNCHANGED <<fdc, prm, todo, disk, force>>

\* FDC_Int or FDD_Int runs.
Acknowledge == Answer /\ UNCHANGED <<fdc, prm, todo, disk, force>>

\* WinX68k_Reset: the disks stay in their drives.
Reset ==
  /\ IOC_Reset
  /\ fdc' = FDC_Init /\ prm' = NoPrm /\ todo' = <<>> /\ force' = FALSE
  /\ UNCHANGED disk

MoveData == ReadData \/ \E matches \in BOOLEAN : WriteData(matches)

Next ==
  \/ \E c \in Command : WriteCommand(c)
  \/ \E p \in Prm : WriteParameter(p)
  \/ MoveData
  \/ ReadResult
  \/ \E d \in Drive \cup {NoDrive} : SelectDrive(d)
  \/ \E on \in BOOLEAN : SetForceReady(on)
  \/ \E D \in SUBSET Drive : Eject(D)
  \/ \E d \in Drive, readonly, readable \in BOOLEAN : Insert(d, readonly, readable)
  \/ EndFrame
  \/ \E e \in EnableSets : SetEnabled(e)
  \/ Acknowledge
  \/ Reset

Spec == Init /\ [][Next]_vars

\* In the execution phase, but for a write whose sector was not found.
Waiting == fdc.bufnum > 0 /\ ~ (fdc.cmd = "Write" /\ fdc.err)

\* The DMA controller or the guest moves a byte whenever the controller waits
\* for one.  It can whenever it is waited for, so this is the weak fairness of
\* MoveData in those states.
FairSpec == Spec /\ ([]<>(~ Waiting) \/ []<><<MoveData>>_vars)

-----------------------------------------------------------------------------
TypeOK ==
  /\ IOCTypeOK
  /\ fdc \in Controllers /\ prm \in Params
  /\ disk \in Drives /\ force \in BOOLEAN

\* The pointers of the one data port agree with its phase, however the bytes,
\* the ejections and the ends of commands interleave: parameters are counted
\* from the command byte on, a sector's bytes stay inside it, and the results
\* are read from the first to the last.
PhasesAgree ==
  /\ fdc.wrnum > 0 => fdc.bufnum = 0 /\ fdc.wrptr + fdc.wrnum = 1 + CMD_TABLE[fdc.cmd]
  /\ fdc.bufnum > 0 => fdc.rdptr < fdc.bufnum /\ fdc.wrptr < fdc.bufnum
                         /\ fdc.rdnum = DAT_TABLE[fdc.cmd]
  /\ fdc.bufnum = 0 /\ fdc.rdnum > 0 => fdc.rdptr + fdc.rdnum = DAT_TABLE[fdc.cmd]
                                          /\ ~ fdc.wexec

\* A read or write whose result is "normal" has moved every sector from the
\* first to the last one asked for, in order, on one side or on both, whatever
\* the user did with the disks meanwhile.
CompleteOnSuccess ==
  /\ fdc.cmd \in {"Read", "Write"}
  /\ fdc.bufnum = 0 /\ fdc.rdnum > 0 /\ ~ fdc.rsp
  => todo = <<>>

\* The guest learns of every disk that comes or goes: a drive changes between
\* ready and not ready only in a step that raises the insertion interrupt, if
\* it is enabled.
ReadinessAnnounced ==
  [][\A d \in Drive :
       (FDD_IsReady(d) # FDD_IsReady(d)') /\ "FDD" \in enabled
         => 1 \in irqh'.IRQ /\ irqh'.CallBack[1] = FDD_Int]_vars

\* Every execution phase ends as long as its bytes are moved, whatever happens
\* to the disk meanwhile, or the failure of a write is on record: a sector to be
\* written that is not found leaves the controller asking for its bytes again.
CommandsEnd == Waiting ~> ~ Waiting
=============================================================================
