----------------------------- MODULE DosMemory -----------------------------
(***************************************************************************)
(* The memory arena of the DOS kernel, src/src/dos/dos_memory.cpp: a chain *)
(* of memory control blocks (MCBs) from firstMCB to the end of conventional*)
(* memory, and one from UMB_START_SEG to the end of the upper memory       *)
(* blocks, which a program may link to the first.  A program is known by   *)
(* the segment of its PSP block; it runs others (EXEC) and ends with or    *)
(* without leaving its memory allocated.                                   *)
(*                                                                         *)
(* A segment is a number of paragraphs.  mcb maps the segments of the      *)
(* headers that are on a chain to their contents; a block with the header  *)
(* at s is handed out as segment s + 1 and ends before s + size + 1.       *)
(* Programs do not write outside their blocks.                             *)
(***************************************************************************)
EXTENDS Integers, Sequences, FiniteSets, FiniteSetsExt

CONSTANTS
  UMB_START_SEG,   \* the MCB that covers the hole below the upper memory
  UmbSize,         \* paragraphs of upper memory
  Sizes,           \* sizes programs ask for
  Strategies,      \* memAllocStrategy
  MaxPrograms      \* programs running at a time, the shell included

FREE == 0          \* MCB_FREE
DOS == -1          \* MCB_DOS
firstMCB == 1
first_umb_seg == UMB_START_SEG + 1
LastSeg == first_umb_seg + UmbSize
Shell == firstMCB + 1

ASSUME ArenaAssumption ==
  /\ UMB_START_SEG \in Nat /\ UMB_START_SEG > firstMCB + 3
  /\ UmbSize \in Nat /\ Sizes \subseteq Nat /\ MaxPrograms \in Nat \ {0}
  /\ Strategies \subseteq
       [fit : {"first", "best", "last"}, only : BOOLEAN, high : BOOLEAN]

VARIABLES
  mcb,               \* the headers on the chains
  linked,            \* dos_infoblock.GetUMBChainState
  memAllocStrategy,  \* .only is bit 6, .high is bit 7
  psps,              \* the PSPs of the running programs, dos.psp() last
  resident,          \* the PSPs of programs that stayed resident
  held               \* history: what programs were told they own, by segment

vars == <<mcb, linked, memAllocStrategy, psps, resident, held>>

MCB(type, psp, size) == [type |-> type, psp |-> psp, size |-> size]
Psp == psps[Len(psps)]

\* f with the value v for x, and without one.
Put(f, x, v) == [y \in DOMAIN f \cup {x} |-> IF y = x THEN v ELSE f[y]]
Without(f, x) == [y \in DOMAIN f \ {x} |-> f[y]]

Holding(psp, n) == [psp |-> psp, size |-> n]

\* The shell's block, and free memory; DOS_BuildUMBChain adds the rest.
Init ==
  /\ mcb = [s \in {firstMCB, firstMCB + 2, UMB_START_SEG, first_umb_seg} |->
              CASE s = firstMCB -> MCB("M", Shell, 1)
                [] s = firstMCB + 2 -> MCB("Z", FREE, UMB_START_SEG - firstMCB - 3)
                [] s = UMB_START_SEG -> MCB("M", DOS, 0)
                [] s = first_umb_seg -> MCB("Z", FREE, UmbSize)]
  /\ linked = FALSE /\ memAllocStrategy \in Strategies
  /\ psps = <<Shell>> /\ resident = {} /\ held = [seg \in {Shell} |-> Holding(Shell, 1)]

-----------------------------------------------------------------------------
NextSeg(m, s) == s + m[s].size + 1

\* The headers of the chain that begins at s, up to its last block.
Chain(m, s) ==
  LET walk[t \in DOMAIN m] ==
        {t} \cup IF m[t].type = "Z" THEN {} ELSE walk[NextSeg(m, t)]
  IN  walk[s]

IsFree(m, s) == m[s].psp = FREE

\* The free blocks that the one before them takes in, which is free as well
\* and not before first_segment.
Absorbed(m, first_segment) ==
  LET chain == Chain(m, firstMCB)
      takes == {s \in chain : s >= first_segment /\ IsFree(m, s) /\ m[s].type # "Z"}
  IN  {NextSeg(m, s) : s \in takes} \cap {t \in DOMAIN m : IsFree(m, t)}

\* Faulty: freed blocks stay apart.
CompressMemoryNot(m, first_segment) == m

\* DOS_CompressMemory: each free block from first_segment on takes in the free
\* blocks behind it, and then ends where the last of them did.
CompressMemory(m, first_segment) ==
  LET gone == Absorbed(m, first_segment)
      last(s) == Max({t \in gone \cup {s} :
                        \A u \in DOMAIN m : s < u /\ u <= t => u \in gone})
  IN  IF gone = {} THEN m ELSE [s \in DOMAIN m \ gone |->
         LET e == last(s) IN MCB(m[e].type, m[s].psp, e + m[e].size - s)]

FreeSizes(m, chain) == {m[s].size : s \in {t \in chain : IsFree(m, t)}}

LargestFree(m, chain) == Max({0} \cup FreeSizes(m, chain))

\* DOS_GetMaximumFreeSize.
MaximumFreeSize(m, strategy, minBlocks) ==
  LET umb == LargestFree(m, Chain(m, UMB_START_SEG))
  IN  IF strategy.only \/ (strategy.high /\ umb >= minBlocks) THEN umb
      ELSE LargestFree(m, Chain(m, firstMCB))

\* The chains DOS_AllocateMemory searches, this one first ...
SearchedHigh(m, strategy) ==
  IF strategy.only \/ strategy.high THEN Chain(m, UMB_START_SEG) ELSE {}

\* ... and then this one.
SearchedLow(m, strategy) ==
  IF strategy.only /\ ~strategy.high THEN {} ELSE Chain(m, firstMCB)

Earliest(high, low) == IF high # {} THEN Min(high) ELSE Min(low)

\* The block the strategy picks among those that fit.
Choice(m, high, low, fit) ==
  LET least == Min({m[s].size : s \in high \cup low})
      Smallest(fits) == {s \in fits : m[s].size = least}
  IN  CASE fit = "first" -> Earliest(high, low)
        [] fit = "best" -> Earliest(Smallest(high), Smallest(low))
        [] fit = "last" -> IF low # {} THEN Max(low) ELSE Max(high)

\* Faulty: the first part of a split last block keeps its type.
TakeLastKeepsType(m, s, n, psp) ==
  LET rest == m[s].size - n - 1
  IN  Put(Put(m, s, MCB(m[s].type, FREE, rest)), s + rest + 1, MCB(m[s].type, psp, n))

\* n paragraphs at the end of the free block at s.
TakeLast(m, s, n, psp) ==
  LET rest == m[s].size - n - 1
  IN  Put(Put(m, s, MCB("M", FREE, rest)), s + rest + 1, MCB(m[s].type, psp, n))

\* n paragraphs at the beginning of the block at s, the rest of it free.
TakeFirst(m, s, n, psp) ==
  Put(Put(m, s, MCB("M", psp, n)), s + n + 1, MCB(m[s].type, FREE, m[s].size - n - 1))

\* n paragraphs of the free block at s: the chains after it, and the segment.
Give(m, s, fit, n, psp) ==
  [ok |-> TRUE,
   segment |-> IF fit = "last" THEN s + 1 + m[s].size - n ELSE s + 1,
   mcb |-> CASE m[s].size = n -> [m EXCEPT ![s].psp = psp]
             [] m[s].size # n /\ fit = "last" -> TakeLast(m, s, n, psp)
             [] OTHER -> TakeFirst(m, s, n, psp)]

\* ... of one of the free blocks, or the largest size there is.
Search(m, strategy, n, psp) ==
  LET Fitting(chain) == {s \in chain : IsFree(m, s) /\ m[s].size >= n}
      high == Fitting(SearchedHigh(m, strategy))
      low == Fitting(SearchedLow(m, strategy))
  IN  IF high \cup low # {}
      THEN Give(m, Choice(m, high, low, strategy.fit), strategy.fit, n, psp)
      ELSE [ok |-> FALSE, mcb |-> m,
            largest |-> LargestFree(m, SearchedHigh(m, strategy) \cup SearchedLow(m, strategy))]

\* DOS_AllocateMemory.
AllocateMemory(m, strategy, n, psp) == Search(CompressMemory(m, 0), strategy, n, psp)

\* Faulty: a block grows over the next whoever owns that.
JoinsAny(m, s) == m[s].type # "Z"

\* A block may grow over the free block behind it.
Joins(m, s) == m[s].type # "Z" /\ IsFree(m, NextSeg(m, s))

Joined(m, s) ==
  LET after == m[NextSeg(m, s)]
  IN  Put(Without(m, NextSeg(m, s)), s, MCB(after.type, m[s].psp, m[s].size + after.size + 1))

\* DOS_ResizeMemory of the block at s; refused, it is as large as it can be.
ResizeBlock(m, s, n, psp) ==
  LET grown == IF Joins(m, s) THEN Joined(m, s) ELSE m
  IN  CASE n = m[s].size ->
             [ok |-> TRUE, mcb |-> IF IsFree(m, s) THEN [m EXCEPT ![s].psp = psp] ELSE m]
        [] n < m[s].size -> [ok |-> TRUE, mcb |-> CompressMemory(TakeFirst(m, s, n, psp), 0)]
        [] n > m[s].size /\ n < grown[s].size ->
             [ok |-> TRUE, mcb |-> TakeFirst(grown, s, n, psp)]
        [] n > m[s].size /\ n = grown[s].size ->
             [ok |-> TRUE, mcb |-> [grown EXCEPT ![s].psp = psp]]
        [] n > m[s].size /\ n > grown[s].size -> [ok |-> FALSE, mcb |-> grown]

ResizeMemory(m, s, n, psp) == ResizeBlock(CompressMemory(m, s), s, n, psp)

Freed(m, psp, chain) ==
  [s \in DOMAIN m |-> IF s \in chain /\ m[s].psp = psp THEN [m[s] EXCEPT !.psp = FREE] ELSE m[s]]

\* Faulty: the program's upper memory is not looked at unless it is linked.
FreeProcessMemoryLow(m, psp) == CompressMemory(Freed(m, psp, Chain(m, firstMCB)), 0)

\* DOS_FreeProcessMemory: of both chains.
FreeProcessMemory(m, psp) ==
  CompressMemory(Freed(m, psp, Chain(m, firstMCB) \cup Chain(m, UMB_START_SEG)), 0)

\* DOS_LinkUMBsToMemChain: the last block below the upper memory leads to it.
Link(m, on) ==
  LET last == Max({s \in Chain(m, firstMCB) : s < UMB_START_SEG})
  IN  [m EXCEPT ![last].type = IF on THEN "M" ELSE "Z"]

-----------------------------------------------------------------------------
\* INT 21h/48h.
Allocate ==
  \E n \in Sizes :
    LET r == AllocateMemory(mcb, memAllocStrategy, n, Psp)
    IN  /\ mcb' = r.mcb
        /\ held' = IF r.ok THEN Put(held, r.segment, Holding(Psp, n)) ELSE held
        /\ UNCHANGED <<linked, memAllocStrategy, psps, resident>>

\* XMS_ALLOCATE_UMB: in upper memory, linked for the while.
AllocateUmb ==
  \E n \in Sizes :
    LET only == [memAllocStrategy EXCEPT !.fit = "first", !.only = TRUE, !.high = FALSE]
        r == AllocateMemory(Link(mcb, TRUE), only, n, Psp)
    IN  /\ mcb' = Link(r.mcb, linked)
        /\ held' = IF r.ok THEN Put(held, r.segment, Holding(Psp, n)) ELSE held
        /\ UNCHANGED <<linked, memAllocStrategy, psps, resident>>

Own == {seg \in DOMAIN held : held[seg].psp = Psp}

\* INT 21h/49h, of a block of the program's; its PSP it keeps.  The block is
\* not combined with others.
FreeMemory ==
  \E seg \in Own \ {Psp} :
    /\ mcb' = [mcb EXCEPT ![seg - 1].psp = FREE]
    /\ held' = Without(held, seg)
    /\ UNCHANGED <<linked, memAllocStrategy, psps, resident>>

\* INT 21h/4Ah, of a block of the program's, or of one that is free, which
\* becomes the program's (freed_mcb_allocate_on_resize).
Resize ==
  \E seg \in Own \cup {s + 1 : s \in {t \in DOMAIN mcb : IsFree(mcb, t)}}, n \in Sizes :
    LET r == ResizeMemory(mcb, seg - 1, n, Psp)
    IN  /\ mcb' = r.mcb
        /\ held' = IF r.ok THEN Put(held, seg, Holding(Psp, n)) ELSE held
        /\ UNCHANGED <<linked, memAllocStrategy, psps, resident>>

\* INT 21h/5801h and 5803h.
SetStrategy ==
  /\ memAllocStrategy' \in Strategies
  /\ UNCHANGED <<mcb, linked, psps, resident, held>>

LinkUMBs ==
  /\ linked' = ~linked /\ mcb' = Link(mcb, linked')
  /\ UNCHANGED <<memAllocStrategy, psps, resident, held>>

\* MakeEnv, and the DOS_AllocateMemory of 0FFFFh paragraphs after it, which
\* fails and leaves the free blocks combined.
Environment(envsize) ==
  LET env == AllocateMemory(mcb, memAllocStrategy, envsize, Psp)
  IN  [env EXCEPT !.mcb = CompressMemory(@, 0)]

\* Faulty: the free memory was looked up before the environment was made.
ProgramSizeStale(env, minsize, maxsize) ==
  Min({maxsize, MaximumFreeSize(CompressMemory(mcb, 0), memAllocStrategy, minsize)})

\* DOS_Execute: how large the program's block is made.
ProgramSize(env, minsize, maxsize) ==
  Min({maxsize, MaximumFreeSize(env.mcb, memAllocStrategy, minsize)})

\* The program's block and its environment become the property of the new PSP.
Load(env, envsize, prog, size) ==
  LET psp == prog.segment
  IN  IF prog.ok
      THEN /\ mcb' = [prog.mcb EXCEPT ![env.segment - 1].psp = psp, ![psp - 1].psp = psp]
           /\ psps' = Append(psps, psp)
           /\ held' = Put(Put(held, psp, Holding(psp, size)), env.segment, Holding(psp, envsize))
      ELSE mcb' = prog.mcb /\ UNCHANGED <<psps, held>>   \* E_Exit

\* The block is allocated unless memory is short; then the environment is freed.
LoadAfter(env, envsize, size, minsize) ==
  IF env.ok /\ size >= minsize
  THEN Load(env, envsize, AllocateMemory(env.mcb, memAllocStrategy, size, Psp), size)
  ELSE /\ mcb' = IF env.ok THEN [env.mcb EXCEPT ![env.segment - 1].psp = FREE] ELSE env.mcb
       /\ UNCHANGED <<psps, held>>

\* DOS_Execute (INT 21h/4Bh): the environment, then the block of the program.
Execute ==
  /\ Len(psps) < MaxPrograms
  /\ \E envsize, minsize, maxsize \in Sizes \ {0} :
       /\ minsize <= maxsize
       /\ LET env == Environment(envsize)
          IN  LoadAfter(env, envsize, ProgramSize(env, minsize, maxsize), minsize)
  /\ UNCHANGED <<linked, memAllocStrategy, resident>>

\* DOS_Terminate: back to the parent; the shell does not end.
Terminate ==
  /\ Len(psps) > 1
  /\ mcb' = FreeProcessMemory(mcb, Psp) /\ psps' = SubSeq(psps, 1, Len(psps) - 1)
  /\ held' = [t \in DOMAIN held \ Own |-> held[t]]
  /\ UNCHANGED <<linked, memAllocStrategy, resident>>

\* INT 21h/31h: the PSP block is resized, the rest of the program stays.
StayResident ==
  /\ Len(psps) > 1
  /\ \E n \in Sizes :
       LET r == ResizeMemory(mcb, Psp - 1, n, Psp)
       IN  /\ mcb' = r.mcb
           /\ held' = IF r.ok THEN Put(held, Psp, Holding(Psp, n)) ELSE held
  /\ psps' = SubSeq(psps, 1, Len(psps) - 1) /\ resident' = resident \cup {Psp}
  /\ UNCHANGED <<linked, memAllocStrategy>>

Next == Allocate \/ AllocateUmb \/ FreeMemory \/ Resize \/ SetStrategy \/ LinkUMBs
          \/ Execute \/ Terminate \/ StayResident

Spec == Init /\ [][Next]_vars
=============================================================================
