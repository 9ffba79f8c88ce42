--------------------------- MODULE DosMemoryProps ---------------------------
(***************************************************************************)
(* Properties of the DOS memory arena.                                     *)
(***************************************************************************)
EXTENDS DosMemory

\* The blocks of the two chains cover the memory without gap or overlap,
\* whatever splits, merges and links came before: the chain of the upper memory
\* goes to the end, and so does the one of conventional memory if the upper
\* memory is linked to it, and else only up to the upper memory.
TypeOK ==
  LET umb == {s \in DOMAIN mcb : s >= UMB_START_SEG}
  IN  /\ \A s \in DOMAIN mcb :
           mcb[s] \in [type : {"M", "Z"}, psp : {FREE, DOS} \cup 1..LastSeg, size : Nat]
      /\ UNION {s..(s + mcb[s].size) : s \in DOMAIN mcb} = firstMCB..LastSeg
      /\ \A s, t \in DOMAIN mcb : s < t => NextSeg(mcb, s) <= t
      /\ Chain(mcb, UMB_START_SEG) = umb
      /\ Chain(mcb, firstMCB) = IF linked THEN DOMAIN mcb ELSE DOMAIN mcb \ umb
      /\ memAllocStrategy \in Strategies /\ psps # <<>>

\* What a program was told it owns stays its own until it gives it up or ends,
\* whatever others allocate, free, resize, run or leave behind: it lies in one
\* block of the chain, under the program's name.
HeldBlocksStand ==
  \A seg \in DOMAIN held :
    /\ seg - 1 \in DOMAIN mcb
    /\ mcb[seg - 1].psp = held[seg].psp /\ mcb[seg - 1].size >= held[seg].size

\* The paragraphs of the allocated blocks, their headers included.
Occupied == UNION {s..(s + mcb[s].size) : s \in {t \in DOMAIN mcb : ~IsFree(mcb, t)}}

RoomFor(n, from, to) == \E s \in from..(to - n) : (s..(s + n)) \cap Occupied = {}

\* A program is refused memory only when there is no room for the block and
\* its header, however the free memory came to be cut up; upper memory that is
\* not linked is left out, DOS_CompressMemory does not get there.
RefusedOnlyWhenFull ==
  \A n \in Sizes :
    ~AllocateMemory(mcb, memAllocStrategy, n, Psp).ok =>
      /\ (~memAllocStrategy.only \/ memAllocStrategy.high)
           => ~RoomFor(n, firstMCB, UMB_START_SEG - 1)
      /\ (memAllocStrategy.only \/ memAllocStrategy.high) /\ linked
           => ~RoomFor(n, first_umb_seg, LastSeg)

\* No memory is lost: what is allocated belongs to DOS, to a running program
\* or to one that stayed resident.
ProcessMemoryReturned ==
  \A s \in DOMAIN mcb : mcb[s].psp \in {FREE, DOS} \cup Range(psps) \cup resident

\* DOS_Execute asks how much is free and then allocates that much; it ends the
\* emulator when it does not get it, which never happens.
ExecNeverFatal ==
  \A envsize, minsize, maxsize \in Sizes \ {0} :
    LET env == Environment(envsize)
        size == ProgramSize(env, minsize, maxsize)
    IN  env.ok /\ minsize <= size
          => AllocateMemory(env.mcb, memAllocStrategy, size, Psp).ok

\* Not true of the code, and checked by no run (see the README): best fit and
\* last fit go on into low memory although a block in upper memory fits.
\* dos_memory.cpp says of bit 7 of the strategy "try high memory first, then
\* low": an allocation for which there is a block in upper memory is made there.
HighFirst ==
  \A n \in Sizes :
    LET r == AllocateMemory(mcb, memAllocStrategy, n, Psp)
    IN  memAllocStrategy.high /\ (\E size \in FreeSizes(mcb, Chain(mcb, UMB_START_SEG)) : size >= n)
          => r.segment > UMB_START_SEG
=============================================================================
