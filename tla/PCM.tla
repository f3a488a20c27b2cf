--------------------------------- MODULE PCM --------------------------------
(***************************************************************************)
(* The ring between the emulation and the audio device (SDL/SDL2/dswin.c). *)
(*                                                                         *)
(* The emulation converts the clocks it has run into stereo samples and    *)
(* writes them (DSound_Send0); the thread of the audio device takes as     *)
(* many as it needs and generates itself what is not there                 *)
(* (sdlaudio_callback).  Both do so under the lock of the device.  Pointers*)
(* are indexes of the ring's 16-bit words, a sample is two of them, and    *)
(* lengths keep the units of the code: bytes, words or samples.            *)
(***************************************************************************)
EXTENDS Integers, Sequences

CONSTANTS
  Ring,        \* PCMBUF_SIZE, words of the ring: 96000 in the code
  Lens,        \* the bytes the audio device asks for
  Rate,        \* ratebase, samples a second
  Second,      \* the clocks of a second: 10^7 in the code
  Clocks       \* the clocks of a line

ASSUME PCMAssumption ==
  /\ Ring \in Nat \ {0} /\ Ring % 2 = 0
  /\ Lens \subseteq {4 * n : n \in 1..(Ring \div 4)}    \* at most half the ring
  /\ Rate \in Nat \ {0} /\ Second \in Nat \ {0} /\ Clocks \subseteq Nat \ {0}

\* The words are numbered in the order of their production, modulo Laps.
Laps == 2 * Ring

VARIABLES
  pbrp,     \* the reader's pointer; Ring stands for pbep
  pbwp,     \* the writer's pointer
  cell,     \* the ring: the number of the word in each place
  pre,      \* DSound_PreCounter
  next,     \* history: the number of the next word to be produced
  ahead,    \* history: words produced and not heard
  heard     \* history: the words of the last callback

pcmVars == <<pbrp, pbwp, cell, pre, next, ahead, heard>>

PCMInit ==
  /\ pbrp = 0 /\ pbwp = 0
  /\ cell = [i \in 0..Ring - 1 |-> 0]
  /\ pre = 0 /\ next = 0 /\ ahead = 0 /\ heard = <<>>

-----------------------------------------------------------------------------
\* The writer's side of the ring as a record.
Writer == [wp |-> pbwp, cell |-> cell, next |-> next, ahead |-> ahead]

\* The writer's state becomes w; the device has taken some words.
Written(w, taken) ==
  /\ pbwp' = w.wp /\ cell' = w.cell /\ next' = w.next
  /\ ahead' = w.ahead - taken

\* A faulty variant: the pointer wraps to the start.
WrappedToStart(p) == IF p >= Ring THEN 0 ELSE p

\* The writer's pointer around the end of the ring.
Wrapped(p) == IF p >= Ring THEN p - Ring ELSE p

\* The ring with n words numbered from first on, from place p on.
Filled(ring, p, n, first) ==
  [i \in 0..Ring - 1 |->
     LET k == IF i >= p THEN i - p ELSE i - p + Ring
     IN  IF k < n THEN (first + k) % Laps ELSE ring[i]]

\* sound_send: the generators fill length samples from the writer's pointer on,
\* around the end of the ring, and the pointer follows.
sound_send(w, length) ==
  [wp    |-> Wrapped(w.wp + 2 * length),
   cell  |-> Filled(w.cell, w.wp, 2 * length, w.next),
   next  |-> (w.next + 2 * length) % Laps,
   ahead |-> w.ahead + 2 * length]

\* The samples of a number of clocks, with the remainder for the next line.
Convert(clock) ==
  [samples |-> (pre + Rate * clock) \div Second, rest |-> (pre + Rate * clock) % Second]

\* DSound_Send0: the emulation is less than a ring ahead of the device.
DSound_Send0(clock) ==
  LET c == Convert(clock)
  IN  /\ ahead + 2 * c.samples < Ring
      /\ pre' = c.rest
      /\ Written(sound_send(Writer, c.samples), 0)
      /\ UNCHANGED <<pbrp, heard>>

-----------------------------------------------------------------------------
\* What the device mixes: the words of a list of places.
Hear(w, places) == [i \in DOMAIN places |-> w.cell[places[i]]]
Places(from, n) == [i \in 1..n |-> from + i - 1]

\* The end of a callback: the words go to the device, the pointer moves on.
Take(w, places, rp) ==
  /\ Written(w, Len(places))
  /\ heard' = Hear(w, places)
  /\ pbrp' = rp
  /\ UNCHANGED pre

\* The writer's pointer is behind the reader's: the words go on to the end of
\* the ring (type C) or around it (type D), where what lacks is generated.
TakeWrapping(w, len) ==
  LET lena == Ring - pbrp
      lenb == len \div 2 - lena
      d    == IF w.wp < lenb THEN sound_send(w, (lenb - w.wp) \div 2) ELSE w
  IN  IF lena >= len \div 2
        THEN Take(w, Places(pbrp, len \div 2), pbrp + len \div 2)
        ELSE Take(d, Places(pbrp, lena) \o Places(0, lenb), lenb)

\* A faulty variant: too little is generated (bytes taken for words).
RefilledLess(datalen, len) ==
  IF datalen < len \div 2 THEN sound_send(Writer, (len \div 2 - datalen) \div 4) ELSE Writer
\* What lacks in front of the writer's pointer is generated; the difference of
\* bytes and words makes it more than is needed.
Refilled(datalen, len) ==
  IF datalen < len \div 2 THEN sound_send(Writer, (len - datalen) \div 4) ELSE Writer

\* sdlaudio_callback: silence if there is nothing at all.
sdlaudio_callback(len) ==
  \/ pbrp > pbwp /\ TakeWrapping(Writer, len)
  \/ pbrp = pbwp /\ heard' = <<>> /\ UNCHANGED <<pbrp, pbwp, cell, pre, next, ahead>>
  \/ /\ pbrp < pbwp
     /\ LET w == Refilled(pbwp - pbrp, len)
        IN  IF pbrp > w.wp THEN TakeWrapping(w, len)
            ELSE Take(w, Places(pbrp, len \div 2), pbrp + len \div 2)

PCMNext ==
  \/ \E clock \in Clocks : DSound_Send0(clock)
  \/ \E len \in Lens : sdlaudio_callback(len)

PCMSpec == PCMInit /\ [][PCMNext]_pcmVars

-----------------------------------------------------------------------------
PCMTypeOK ==
  /\ pbrp \in 0..Ring /\ pbwp \in 0..Ring - 1
  /\ cell \in [0..Ring - 1 -> 0..Laps - 1]
  /\ pre \in 0..Second - 1
  /\ next \in 0..Laps - 1 /\ ahead \in 0..Ring - 1

\* The distance of the two pointers is the number of words produced and not
\* heard, whoever produced them: the reader never passes the writer, and equal
\* pointers mean an empty ring.
PointersCount == pbwp - pbrp \in {ahead, ahead - Ring}

\* The device hears every word once and in the order of its production, around
\* the end of the ring and with words generated in the callback too.
InOrder ==
  [][\A i \in DOMAIN heard' :
       heard'[i] = (next' - ahead' - (Len(heard') - i + 1) + 2 * Laps) % Laps]_<<pbrp, heard>>
=============================================================================
