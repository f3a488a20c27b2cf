-------------------------------- MODULE SASI --------------------------------
(***************************************************************************)
(* The hard disk interface (x68k/sasi.c) on level 1 of the interrupt       *)
(* controller, which it shares with the floppy controller and its drives.  *)
(*                                                                         *)
(* The guest selects a device, writes a command of six bytes, moves the    *)
(* data of its blocks byte by byte through one port, and reads a status    *)
(* and a message byte.  It follows the status port, that is, selects when  *)
(* the bus is free and moves data in the direction the port shows.  The    *)
(* contents of the blocks are left out.                                    *)
(***************************************************************************)
EXTENDS IOC

CONSTANTS
  Attached,    \* the units, of 0 and 1, of the device that have an image
  Size,       \* the number of blocks of an image at first
  BlockLen,   \* the bytes of a block: 256 in the code
  BMod,       \* the values of SASI_Blocks: 2^32 in the code
  Sectors,    \* the first blocks the guest asks for
  Counts,     \* the numbers of blocks it asks for
  HDCSets     \* the sets of sources the guest enables

ASSUME SASIAssumption ==
  /\ Attached \subseteq 0..1
  /\ Size \in Nat /\ BlockLen \in Nat \ {0} /\ BMod \in Nat \ {0}
  /\ Sectors \subseteq Nat /\ Counts \subseteq 0..BMod - 1
  /\ HDCSets \subseteq SUBSET Source

\* The commands; "Other" has no routine and "Assign" is the undocumented 0xc2.
HDCCommand == {"Test", "Recalibrate", "Sense", "Format", "Read", "Write", "Seek",
            "Assign", "Other"}
CmdLen == 6
SenseLen == 4
AssignLen == 10

\* SASI_Phase.
Free == 0
Selection == 1
CommandPhase == 2
Data == 3
Status == 4
Message == 5
SenseData == 9
AssignData == 10

VARIABLES
  sasi,      \* the interface: see Interfaces
  gone,      \* the host has taken the image files away
  told,      \* history: the status byte the guest has read says "good"
  size,      \* the number of blocks of each image
  quota,     \* history: blocks the transfer still owes, modulo BMod
  results,   \* history: what the look-ups of the transfer's blocks found: see Results
  owed       \* history: the handlers whose requests wait for an answer

hdcVars == <<irqh, enabled, sasi, gone, size, told, quota, results, owed>>

\* Stat is SASI_Stat = 2, Error is SASI_Error # 0, RW is TRUE for a read.
Interfaces ==
  [Phase : {0, 1, 2, 3, 4, 5, 9, 10}, CmdPtr : 0..CmdLen, cmd : HDCCommand,
   unit : 0..1, Sector : Nat, Blocks : 0..BMod - 1, BufPtr : 0..BlockLen,
   RW : BOOLEAN, Stat : BOOLEAN, Error : BOOLEAN, SensePtr : 0..AssignLen]

\* What SASI_Seek has returned for the first block and for those after it.
Results == [first : {-1, 0, 1}, next : SUBSET {-1, 0, 1}]
Untried == [first |-> 1, next |-> {}]

SASI_Init ==
  [Phase |-> Free, CmdPtr |-> 0, cmd |-> "Other", unit |-> 0, Sector |-> 0,
   Blocks |-> 0, BufPtr |-> 0, RW |-> FALSE, Stat |-> FALSE, Error |-> FALSE,
   SensePtr |-> 0]

HDCInit ==
  /\ IOC_Init
  /\ sasi = SASI_Init /\ gone = FALSE /\ size = [unit \in Attached |-> Size]
  /\ told = FALSE /\ quota = 0 /\ results = Untried
  /\ owed = {}

-----------------------------------------------------------------------------
\* SASI_Seek in images of sz blocks: 1, or 0 behind the end, or -1 when there
\* is no file to open.
SeekResult(s, sz) ==
  IF s.unit \notin Attached \/ gone THEN -1 ELSE IF s.Sector < sz[s.unit] THEN 1 ELSE 0

\* SASI_Flush: the images once the block of s has been written.  One behind the
\* end makes the file longer.
Extended(s) == [size EXCEPT ![s.unit] = IF s.Sector < @ THEN @ ELSE s.Sector + 1]

\* A faulty variant: a missing image is not an error.
TransferTrusting(s, read, sector, count) ==
  [s EXCEPT !.Phase = Data, !.RW = read, !.BufPtr = 0, !.Stat = FALSE,
            !.Sector = sector, !.Blocks = count]

\* Read Data and Write Data: the first block is looked up, and the data phase
\* begins whether it is there or not.
Transfer(s, read, sector, count) ==
  LET t == [s EXCEPT !.Phase = Data, !.RW = read, !.BufPtr = 0, !.Stat = FALSE,
                     !.Sector = sector, !.Blocks = count]
  IN  IF SeekResult(t, size) = 1 THEN t ELSE [t EXCEPT !.Error = TRUE]

\* The commands that want an image: their status tells whether it is named in
\* the configuration.
NeedsImage(s) ==
  IF s.unit \in Attached THEN [s EXCEPT !.Stat = FALSE]
  ELSE [s EXCEPT !.Stat = TRUE, !.Error = TRUE]

\* A faulty variant: an unknown command leaves the phase alone.
CheckKnownCmd(s, sector, count) ==
  CASE s.cmd \in {"Test", "Seek", "Recalibrate"} -> [NeedsImage(s) EXCEPT !.Phase = Status]
    [] s.cmd = "Sense" -> [s EXCEPT !.Phase = SenseData, !.SensePtr = 0]
    [] s.cmd \in {"Read", "Write"} -> Transfer(s, s.cmd = "Read", sector, count)
    [] s.cmd = "Assign" -> [NeedsImage(s) EXCEPT !.Phase = AssignData]
    [] OTHER -> s

\* SASI_CheckCmd.
SASI_CheckCmd(s, sector, count) ==
  CASE s.cmd \in {"Test", "Seek"} -> [NeedsImage(s) EXCEPT !.Phase = Status]
    [] s.cmd = "Recalibrate" ->
         [NeedsImage(s) EXCEPT !.Phase = Status,
                               !.Sector = IF s.unit \in Attached THEN 0 ELSE @]
    [] s.cmd = "Sense" ->
         [s EXCEPT !.Phase = SenseData, !.Error = FALSE, !.Stat = FALSE, !.SensePtr = 0]
    [] s.cmd = "Format" -> [s EXCEPT !.Phase = Status, !.Stat = FALSE]
    [] s.cmd \in {"Read", "Write"} -> Transfer(s, s.cmd = "Read", sector, count)
    [] s.cmd = "Assign" -> [NeedsImage(s) EXCEPT !.Phase = AssignData, !.SensePtr = 0]
    [] OTHER -> [s EXCEPT !.Phase = Status]

\* The block after the one that has been moved.
NextBlock(s) ==
  [s EXCEPT !.Blocks = (@ + BMod - 1) % BMod, !.Sector = @ + 1, !.BufPtr = 0]

\* A faulty variant: a block that is not there ends the transfer as if it were
\* complete.
BlockDoneUnnoted(s, sz) ==
  LET t == NextBlock(s)
  IN  IF t.Blocks = 0 \/ SeekResult(t, sz) = 0 THEN [s EXCEPT !.Phase = Status] ELSE t

\* The last byte of a block has been moved: the next block is looked up in images
\* of sz blocks, and one behind the end ends the transfer.  A file that cannot be
\* opened is not noticed.
BlockDone(s, sz) ==
  LET t == NextBlock(s)
  IN  IF t.Blocks = 0 THEN [s EXCEPT !.Blocks = 0, !.Phase = Status]
      ELSE IF SeekResult(t, sz) = 0 THEN [t EXCEPT !.Error = TRUE, !.Phase = Status]
      ELSE t

\* A faulty variant: the interrupt is left to the status phase itself.
AccessQuietly(s) == UNCHANGED <<irqh, owed>> /\ sasi' = s

\* The end of an access to the data port: in the status phase it interrupts.
Access(s) ==
  /\ sasi' = s
  /\ IF s.Phase = Status
       THEN /\ irqh' = Ask(irqh, "HDC", SASI_Int)
            /\ owed' = owed \cup IF "HDC" \in enabled THEN {SASI_Int} ELSE {}
       ELSE UNCHANGED <<irqh, owed>>

-----------------------------------------------------------------------------
ForgetTransfer == told' = FALSE /\ quota' = 0 /\ results' = Untried

\* SASI_Write, port 7: a device without an image does not answer.
Select(answers) ==
  /\ sasi.Phase = Free
  /\ answers => Attached # {}
  /\ sasi' = IF answers THEN [sasi EXCEPT !.Phase = Selection, !.CmdPtr = 0] ELSE sasi
  /\ UNCHANGED <<irqh, enabled, gone, size, told, quota, results, owed>>

\* SASI_Write, port 3: the end of the selection.
EndSelection ==
  /\ sasi.Phase = Selection
  /\ sasi' = [sasi EXCEPT !.Phase = CommandPhase]
  /\ UNCHANGED <<irqh, enabled, gone, size, told, quota, results, owed>>

\* SASI_Write, port 1: a byte of the command; with the last one it is known.
HDCWriteCommand(c, unit, sector, count) ==
  /\ sasi.Phase = CommandPhase
  /\ IF sasi.CmdPtr + 1 < CmdLen
       THEN /\ <<c, unit, sector, count>> = <<"Other", 0, 0, 0>>
            /\ sasi' = [sasi EXCEPT !.CmdPtr = @ + 1]
            /\ UNCHANGED <<irqh, quota, results, owed>>
       ELSE /\ c \notin {"Read", "Write"} => sector = 0 /\ count = 0
            /\ Access(SASI_CheckCmd([sasi EXCEPT !.CmdPtr = CmdLen, !.cmd = c,
                                                 !.unit = unit], sector, count))
            /\ quota' = count
            /\ results' = [Untried EXCEPT !.first =
                             IF c \in {"Read", "Write"}
                               THEN SeekResult([unit |-> unit, Sector |-> sector], size) ELSE 1]
  /\ UNCHANGED <<enabled, gone, size, told>>

\* SASI_Read and SASI_Write, port 1: a byte of a block.  The last one of a block
\* of a write has it written, which may fail: the file is away, read-only, or
\* the disk is full.  The code drops the result of SASI_Flush.
HDCMoveData(written) ==
  /\ sasi.Phase = Data
  /\ written => sasi.unit \in Attached /\ ~ gone /\ ~ sasi.RW /\ sasi.BufPtr + 1 = BlockLen
  /\ size' = IF written THEN Extended(sasi) ELSE size
  /\ IF sasi.BufPtr + 1 < BlockLen
       THEN /\ sasi' = [sasi EXCEPT !.BufPtr = @ + 1]
            /\ UNCHANGED <<irqh, owed, quota, results>>
       ELSE /\ Access(BlockDone(sasi, size'))
            /\ quota' = (quota + BMod - 1) % BMod
            /\ results' = [results EXCEPT !.next =
                 IF quota' = 0 THEN @ ELSE @ \cup {SeekResult(NextBlock(sasi), size')}]
  /\ UNCHANGED <<enabled, gone, told>>

\* SASI_Read, port 1: a byte of the sense data.
ReadSense ==
  /\ sasi.Phase = SenseData
  /\ LET s == [sasi EXCEPT !.SensePtr = @ + 1]
     IN  Access(IF s.SensePtr = SenseLen
                  THEN [s EXCEPT !.Error = FALSE, !.Phase = Status] ELSE s)
  /\ UNCHANGED <<enabled, gone, size, told, quota, results>>

\* A faulty variant: one byte too many is awaited.
WriteAssignOneMore ==
  /\ sasi.Phase = AssignData
  /\ LET s == [sasi EXCEPT !.SensePtr = @ + 1]
     IN  Access(IF s.SensePtr > AssignLen THEN [s EXCEPT !.Phase = Status] ELSE s)
  /\ UNCHANGED <<enabled, gone, size, told, quota, results>>

\* SASI_Write, port 1: a byte of the data of 0xc2.
WriteAssign ==
  /\ sasi.Phase = AssignData
  /\ LET s == [sasi EXCEPT !.SensePtr = @ + 1]
     IN  Access(IF s.SensePtr = AssignLen THEN [s EXCEPT !.Phase = Status] ELSE s)
  /\ UNCHANGED <<enabled, gone, size, told, quota, results>>

\* SASI_Read, port 1: the status byte, 2 after an error.
ReadStatus ==
  /\ sasi.Phase = Status
  /\ told' = ~ (sasi.Error \/ sasi.Stat)
  /\ sasi' = [sasi EXCEPT !.Phase = Message]
  /\ UNCHANGED <<irqh, enabled, gone, size, quota, results, owed>>

\* SASI_Read, port 1: the message byte; the bus is free again.  The registers
\* the next command writes before it reads them are forgotten.
ReadMessage ==
  /\ sasi.Phase = Message
  /\ sasi' = [SASI_Init EXCEPT !.Stat = sasi.Stat, !.Error = sasi.Error]
  /\ ForgetTransfer
  /\ UNCHANGED <<irqh, enabled, gone, size, owed>>

\* SASI_Write, port 5.
ResetBus ==
  /\ sasi' = SASI_Init
  /\ ForgetTransfer
  /\ UNCHANGED <<irqh, enabled, gone, size, owed>>

-----------------------------------------------------------------------------
\* The guest enables and disables sources.
HDCSetEnabled(e) == IOC_Write(e) /\ UNCHANGED <<sasi, gone, size, told, quota, results, owed>>

\* The floppy controller or a drive asks for its interrupt on the same level.
FloppyAsks(source, h) ==
  /\ irqh' = Ask(irqh, source, h)
  /\ owed' = owed \cup IF source \in enabled THEN {h} ELSE {}
  /\ UNCHANGED <<enabled, sasi, gone, size, told, quota, results>>

\* The installed routine runs, and every other request of the level is forgotten
\* with its own.
HDCAcknowledge ==
  /\ Answer
  /\ owed' = {}
  /\ UNCHANGED <<sasi, gone, size, told, quota, results>>

\* The files of the images are on the host, which may take them away and bring
\* them back at any time: the code opens the file anew for every block.
HostFiles(away) ==
  /\ away # gone
  /\ gone' = away
  /\ UNCHANGED <<irqh, enabled, sasi, size, told, quota, results, owed>>

\* WinX68k_Reset.
HDCReset ==
  /\ IOC_Reset
  /\ sasi' = SASI_Init
  /\ owed' = {}
  /\ ForgetTransfer
  /\ UNCHANGED <<gone, size>>

\* The next step of the protocol.
Proceed ==
  \/ EndSelection
  \/ \E c \in HDCCommand, unit \in 0..1, sector \in Sectors \cup {0}, count \in Counts \cup {0} :
        HDCWriteCommand(c, unit, sector, count)
  \/ \E written \in BOOLEAN : HDCMoveData(written)
  \/ ReadSense \/ WriteAssign \/ ReadStatus \/ ReadMessage

HDCNext ==
  \/ \E answers \in BOOLEAN : Select(answers)
  \/ Proceed
  \/ ResetBus
  \/ \E e \in HDCSets : HDCSetEnabled(e)
  \/ FloppyAsks("FDC", FDC_Int) \/ FloppyAsks("FDD", FDD_Int)
  \/ HDCAcknowledge
  \/ \E away \in BOOLEAN : HostFiles(away)
  \/ HDCReset

HDCSpec == HDCInit /\ [][HDCNext]_hdcVars

\* A guest that has selected the device carries the command through.
HDCFairSpec == HDCSpec /\ WF_hdcVars(Proceed)

-----------------------------------------------------------------------------
HDCTypeOK ==
  /\ IOCTypeOK
  /\ sasi \in Interfaces
  /\ gone \in BOOLEAN /\ size \in [Attached -> Nat]
  /\ told \in BOOLEAN /\ quota \in 0..BMod - 1 /\ results \in Results
  /\ owed \subseteq Handler

\* A transfer whose status says "good" has moved as many blocks as were asked
\* for (modulo the width of the count), its first block was found in the image,
\* and none of the others was behind the end of the image when it was looked up,
\* however long a write had made it.  It does not say that every later block was
\* found, since the code does not notice a file that is away at that moment, nor
\* that a block has been written, since it drops the result of SASI_Flush.
StatusTells ==
  /\ sasi.Phase = Message /\ told /\ sasi.cmd \in {"Read", "Write"}
  => quota = 0 /\ results.first = 1 /\ 0 \notin results.next

\* Every command's arrival at its status is announced, if it may interrupt.
StatusAnnounced ==
  [][sasi.Phase # Status /\ sasi'.Phase = Status /\ "HDC" \in enabled
       => 1 \in irqh'.IRQ /\ irqh'.CallBack[1] = SASI_Int]_hdcVars

\* The three sources share one slot for their routine, so requests made before
\* an answer may be lost; but one of those that asked is answered, and never a
\* source that did not ask.
OneIsAnswered ==
  /\ owed # {} <=> 1 \in irqh.IRQ
  /\ owed # {} => irqh.CallBack[1] \in owed

\* A command that has been started ends, with a count of blocks of 0 and with
\* the image gone too.
HDCCommandsEnd == sasi.Phase # Free ~> sasi.Phase = Free
=============================================================================
