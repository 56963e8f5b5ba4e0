------------------------------- MODULE Cache --------------------------------
(***************************************************************************)
(* The caches of the Nios II and the calls of alt_cache.h that keep them   *)
(* true to memory: flushing a region or all, blocks of memory that are     *)
(* used past the data cache, buffers that a device fills, and code that is *)
(* copied as alt_load() does.  Caches are direct mapped and the data cache *)
(* writes a line back when another takes its place.                        *)
(***************************************************************************)
EXTENDS Integers, FiniteSets, TLC

CONSTANTS Size,           \* bound: the words of memory, from 0
          LineSize,       \* the words of a line
          DLines, ILines, \* the lines of the caches
          Values,
          Blocks,         \* bound: the regions, <<start, len>>,
          Buffers,        \* and those of buffers for a device
          Code,           \* the words that are executed
          Sharing         \* bound: others use the words a block leaves of its lines, which
                          \* may then be written back over the block

Words == 0 .. Size - 1
Lines == 0 .. Size \div LineSize - 1
ASSUME CacheAssumption ==
  /\ LineSize \in Nat \ {0} /\ Size % LineSize = 0 /\ DLines \in Nat \ {0} /\ ILines \in Nat \ {0}
  /\ Blocks \cup Buffers \subseteq Words \X Nat /\ Code \subseteq Words /\ Sharing \in BOOLEAN

VARIABLES mem,            \* what memory holds
          dcache, icache, \* the line in each place, its words, is it dirty
          last,           \* what each word's user wrote last
          use, block,     \* how the block is used, and where it is
          pc              \* the program runs, or has copied code, ...
cacheVars == <<mem, dcache, icache, last, use, block, pc>>

LineOf(a) == a \div LineSize
WordsOf(l) == {a \in Words : LineOf(a) = l}
Empty == [line |-> -1, data |-> <<>>, dirty |-> FALSE]
Held(cache, a) == \E p \in DOMAIN cache : cache[p].line = LineOf(a)
Region(b) == {a \in Words : b[1] <= a /\ a < b[1] + b[2]}
LinesOf(b) == {a \in Words : \E w \in Region(b) : LineOf(a) = LineOf(w)}

\* Memory after the dirty lines in places P are written back.
WrittenBack(P) ==
  [a \in Words |-> IF \E p \in P : dcache[p].line = LineOf(a) /\ dcache[p].dirty
                   THEN dcache[LineOf(a) % DLines].data[a] ELSE mem[a]]

\* The places of the lines that a loop over the region flushes: from its
\* start in steps of a line, and one line more when it starts within one.
\* (Mutant: not the one line more.)
StepsWithoutTail(b) == {b[1] + k * LineSize : k \in 0 .. (b[2] + LineSize - 1) \div LineSize - 1}
Steps(b) ==
  LET n == (b[2] + LineSize - 1) \div LineSize
  IN {b[1] + k * LineSize : k \in 0 .. IF b[1] % LineSize # 0 THEN n ELSE n - 1}
Flushed(b) == {LineOf(a) : a \in Steps(b)}

\* The buffers devices are given: dropping one drops no line beside it.
BuffersFillLines ==
  \A b \in Buffers : \A a \in Words : LineOf(a) \in Flushed(b) => a \in LinesOf(b)
-----------------------------------------------------------------------------
(* A cached access fetches the line, and writes back the one it replaces.  *)
Fetched(a) ==
  IF Held(dcache, a) THEN dcache[LineOf(a) % DLines]
  ELSE [line |-> LineOf(a), data |-> [w \in WordsOf(LineOf(a)) |-> mem[w]], dirty |-> FALSE]
Access(a, line) ==
  /\ dcache' = [dcache EXCEPT ![LineOf(a) % DLines] = line]
  /\ mem' = IF Held(dcache, a) THEN mem ELSE WrittenBack({LineOf(a) % DLines})

\* Whose words the cached accesses are.
Unshared(a) == use # "none" => a \notin IF Sharing THEN Region(block) ELSE LinesOf(block)

Read(a) ==
  /\ pc = "run" /\ Unshared(a) /\ Access(a, Fetched(a)) /\ UNCHANGED <<icache, last, use, block, pc>>
Write(a, v) ==
  /\ pc = "run" /\ Unshared(a) /\ a \notin Code
  /\ Access(a, [Fetched(a) EXCEPT !.data[a] = v, !.dirty = TRUE])
  /\ last' = [last EXCEPT ![a] = v] /\ UNCHANGED <<icache, use, block, pc>>

(* alt_dcache_flush_no_writeback(), initda: by address, dropped.           *)
DcacheFlushNoWriteback(b) ==
  /\ dcache' = [p \in DOMAIN dcache |-> IF dcache[p].line \in Flushed(b) THEN Empty ELSE dcache[p]]
  /\ UNCHANGED mem

(* alt_dcache_flush(), flushda: by address, written back.                  *)
DcacheFlush(b) ==
  LET P == {p \in DOMAIN dcache : dcache[p].line \in Flushed(b)}
  IN mem' = WrittenBack(P) /\ dcache' = [p \in DOMAIN dcache |-> IF p \in P THEN Empty ELSE dcache[p]]

(* alt_dcache_flush_all(), flushd: by place.                               *)
DcacheFlushAll == mem' = WrittenBack(DOMAIN dcache) /\ dcache' = [p \in DOMAIN dcache |-> Empty]

(* alt_icache_flush(), flushi: by place, at most the size of the cache.    *)
Trimmed(len) == IF len > ILines * LineSize THEN ILines * LineSize ELSE len
IcacheFlush(b) ==
  icache' = [p \in DOMAIN icache |->
               IF \E l \in Flushed(<<b[1], Trimmed(b[2])>>) : p = l % ILines THEN Empty ELSE icache[p]]
IcacheFlushAll == IcacheFlush(<<0, ILines * LineSize>>)
-----------------------------------------------------------------------------
(* A block in use is used past the cache from now on, or a new block is;   *)
(* and back.                                                               *)
Uncache(b, how) ==
  /\ pc = "run" /\ use = "none" /\ Region(b) \cap Code = {} /\ DcacheFlush(b)
  /\ use' = how /\ block' = b /\ UNCHANGED <<icache, last, pc>>
End(how) ==
  /\ pc = "run" /\ use = how /\ use' = "none"
  /\ UNCHANGED <<mem, dcache, icache, last, block, pc>>
alt_remap_uncached(b) == Uncache(b, "remapped")
alt_uncached_malloc(b) == Uncache(b, "malloced")
alt_remap_cached == End("remapped")
alt_uncached_free == End("malloced")
WriteUncached(a, v) ==
  /\ pc = "run" /\ use \in {"remapped", "malloced"} /\ a \in Region(block)
  /\ mem' = [mem EXCEPT ![a] = v] /\ last' = [last EXCEPT ![a] = v]
  /\ UNCHANGED <<dcache, icache, use, block, pc>>

(* A buffer for a device to fill: what the cache holds of it is dropped.   *)
Give(b) ==
  /\ pc = "run" /\ use = "none" /\ Region(b) \cap Code = {} /\ DcacheFlushNoWriteback(b)
  /\ last' = [a \in Words |-> IF a \in IF Sharing THEN Region(b) ELSE LinesOf(b) THEN mem[a] ELSE last[a]]
  /\ use' = "given" /\ block' = b /\ UNCHANGED <<icache, pc>>
DeviceWrite(a, v) ==
  /\ pc = "run" /\ use = "given" /\ a \in Region(block)
  /\ mem' = [mem EXCEPT ![a] = v] /\ last' = [last EXCEPT ![a] = v]
  /\ UNCHANGED <<dcache, icache, use, block, pc>>
Take == End("given")

(* Code is copied through the data cache, both caches are flushed of it or *)
(* of everything, and only then is it executed.                            *)
Copy(a, v) ==
  /\ pc \in {"run", "copied"} /\ a \in Code /\ use = "none"
  /\ pc = "copied" => a \in Region(block)
  /\ Access(a, [Fetched(a) EXCEPT !.data[a] = v, !.dirty = TRUE])
  /\ last' = [last EXCEPT ![a] = v] /\ pc' = "copied"
  /\ \E b \in Blocks : a \in Region(b) /\ block' = IF pc = "copied" THEN block ELSE b
  /\ UNCHANGED <<icache, use>>
FlushData ==
  /\ pc = "copied" /\ pc' = "flushed" /\ (DcacheFlush(block) \/ DcacheFlushAll)
  /\ UNCHANGED <<icache, last, use, block>>
FlushInstructions ==
  /\ pc = "flushed" /\ pc' = "run" /\ (IcacheFlush(block) \/ IcacheFlushAll)
  /\ UNCHANGED <<mem, dcache, last, use, block>>
Execute(a) ==
  /\ pc = "run" /\ a \in Code /\ ~Held(icache, a)
  /\ icache' = [icache EXCEPT ![LineOf(a) % ILines] =
                  [line |-> LineOf(a), data |-> [w \in WordsOf(LineOf(a)) |-> mem[w]], dirty |-> FALSE]]
  /\ UNCHANGED <<mem, dcache, last, use, block, pc>>

CacheInit ==
  /\ mem \in {[a \in Words |-> v] : v \in Values} /\ last = mem
  /\ dcache = [p \in 0 .. DLines - 1 |-> Empty] /\ icache = [p \in 0 .. ILines - 1 |-> Empty]
  /\ use = "none" /\ block = <<0, 0>> /\ pc = "run"

CacheNext ==
  \/ \E a \in Words : Read(a) \/ Execute(a)
  \/ \E a \in Words, v \in Values : Write(a, v) \/ WriteUncached(a, v) \/ DeviceWrite(a, v) \/ Copy(a, v)
  \/ (\E b \in Blocks : alt_remap_uncached(b) \/ alt_uncached_malloc(b))
  \/ (\E b \in Buffers : Give(b))
  \/ alt_remap_cached \/ alt_uncached_free \/ Take \/ FlushData \/ FlushInstructions
CacheSpec == CacheInit /\ [][CacheNext]_cacheVars
-----------------------------------------------------------------------------
Seen(a) == IF Held(dcache, a) THEN dcache[LineOf(a) % DLines].data[a] ELSE mem[a]
Fetch(a) == IF Held(icache, a) THEN icache[LineOf(a) % ILines].data[a] ELSE mem[a]

(* A cached word reads as its user last wrote it, whatever was uncached,   *)
(* given to a device, flushed or dropped before.                           *)
CachedIsTrue == \A a \in Words : Unshared(a) => Seen(a) = last[a]

(* A word of an uncached block, and of a buffer a device fills, is in      *)
(* memory what was written there last: no line written back later covers   *)
(* it.                                                                     *)
UncachedIsTrue == use # "none" => \A a \in Region(block) : mem[a] = last[a]

(* What is executed is the code that was copied last.                      *)
CodeIsFresh == pc = "run" => \A a \in Code : Fetch(a) = last[a]

(* The three together: of no word a stale copy is used.                    *)
CachesAreTrue == CachedIsTrue /\ UncachedIsTrue /\ CodeIsFresh
=============================================================================
