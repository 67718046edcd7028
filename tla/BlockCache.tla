----------------------------- MODULE BlockCache -----------------------------
(***************************************************************************)
(* CBlockCacheManager: a ring of cache files under one directory, with its *)
(* indices in a memory-mapped control file, so that both outlive the       *)
(* process. The user of the ring keeps to the comments of the header: it   *)
(* saves the context before a push or a pop and restores it when what it   *)
(* does between them fails (vbh_block_cache_manager.h:62-72).              *)
(***************************************************************************)
EXTENDS Integers, Sequences, FiniteSets

CONSTANTS
  CacheCount, (* nCacheCount, the same at every Open                       *)
  Blocks      (* the blocks that are put into the cache                    *)

ASSUME CacheCountAssumption == CacheCount \in Nat \ {0}

VARIABLES
  made,     (* the directory exists                                        *)
  cac,      (* the control file: SCaCtrl, or NoFile                        *)
  files,    (* the cache files that exist                                  *)
  shareMem, (* what each cache file holds                                  *)
  opened,   (* Open returned 0 and nothing was closed since                *)
  mapped,   (* the caches that are mapped                                  *)
  phase,    (* what the user of the ring is doing                          *)
  saved,    (* the context it saved                                        *)
  pending,  (* history: the blocks pushed and not popped, and those at the *)
  before,   (*   time the context was saved                                *)
  torn      (* history: a push or a pop was cut in two by a crash          *)

cacheVars == <<made, cac, files, shareMem, opened, mapped, phase, saved, pending, before, torn>>
disk      == <<made, cac, files, shareMem>>

Ids    == 0 .. CacheCount - 1
Zeroes == [len |-> 0, count |-> 0, front |-> 0, rear |-> 0]
NoFile == [Zeroes EXCEPT !.len = -1]
Empty  == "empty"

Ctrl(n) == [Zeroes EXCEPT !.len = n]

CacheInit ==
  /\ made = FALSE /\ cac = NoFile /\ files = {} /\ shareMem = [i \in Ids |-> Empty]
  /\ opened = FALSE /\ mapped = {} /\ phase = "idle" /\ saved = Zeroes
  /\ pending = <<>> /\ before = <<>> /\ torn = FALSE

-----------------------------------------------------------------------------
(* Mutant: the cache files are made before the control file.               *)
Create_FilesFirst(k) ==
  /\ made' = TRUE
  /\ cac' = IF k <= CacheCount THEN NoFile ELSE IF k = CacheCount + 1 THEN Zeroes ELSE Ctrl(CacheCount)
  /\ files' = {i \in Ids : i < k}

(* The first k things Open makes: the directory, the control file, what is *)
(* in it, the cache files one by one. It stops at the first that fails, or *)
(* where the process dies.                                                 *)
Create(k) ==
  /\ made' = TRUE
  /\ cac' = CASE k = 0 -> NoFile [] k = 1 -> Zeroes [] OTHER -> Ctrl(CacheCount)
  /\ files' = {i \in Ids : i < k - 2}

(* LoadMmapCfgFile maps a control file that is not there as zeroes; a      *)
(* cache file that is not there fails the Open.                            *)
Load(ok) ==
  /\ cac' = IF cac = NoFile THEN Zeroes ELSE cac
  /\ opened' = (ok /\ files = Ids)
  /\ mapped' = IF opened' THEN Ids ELSE {}
  /\ UNCHANGED <<made, files>>

(* Open makes the files only where there is no directory, and what it made *)
(* before it failed stays.                                                 *)
Open ==
  /\ ~opened
  /\ \/ /\ ~made
        /\ \E k \in 0 .. CacheCount + 2 :
             /\ Create(k)
             /\ opened' = (k = CacheCount + 2) /\ mapped' = IF opened' THEN Ids ELSE {}
     \/ /\ made
        /\ \E ok \in BOOLEAN : Load(ok)
  /\ UNCHANGED <<shareMem, phase, saved, pending, before, torn>>

Close ==
  /\ opened /\ phase = "idle"
  /\ opened' = FALSE /\ mapped' = {}
  /\ UNCHANGED <<disk, phase, saved, pending, before, torn>>

-----------------------------------------------------------------------------
IsFull  == cac.count = cac.len
IsEmpty == cac.count = 0

Step(i) == IF i + 1 >= cac.len THEN 0 ELSE i + 1

(* Mutant: the context is saved once the ring has changed.                 *)
SaveContext_Later ==
  /\ saved' = [cac EXCEPT !.rear = Step(cac.rear)]
  /\ before' = pending

SaveContext == saved' = cac /\ before' = pending

StartPush ==
  /\ opened /\ phase = "idle" /\ ~IsFull
  /\ SaveContext
  /\ phase' = "push"
  /\ UNCHANGED <<disk, opened, mapped, pending, torn>>

(* ResizeCache unmaps the cache first, so that a failure leaves it without *)
(* a mapping; the user restores the context and closes the ring.           *)
ResizeCache(ok) ==
  /\ phase = "push"
  /\ mapped' = IF ok THEN mapped ELSE mapped \ {cac.rear}
  /\ phase' = IF ok THEN phase ELSE "failed"
  /\ UNCHANGED <<disk, opened, saved, pending, before, torn>>

(* The block goes to GetRearCache.                                         *)
WriteBlock(b) ==
  /\ phase = "push" /\ cac.rear \in mapped
  /\ shareMem' = [shareMem EXCEPT ![cac.rear] = b]
  /\ phase' = "written"
  /\ UNCHANGED <<made, cac, files, opened, mapped, saved, pending, before, torn>>

(* PushBack, and PopFront, change the mapped file in two writes.           *)
PushBack ==
  \/ /\ phase = "written"
     /\ cac' = [cac EXCEPT !.rear = Step(cac.rear)]
     /\ phase' = "half push"
     /\ UNCHANGED <<made, files, shareMem, opened, mapped, saved, pending, before, torn>>
  \/ /\ phase = "half push"
     /\ cac' = [cac EXCEPT !.count = @ + 1]
     /\ pending' = Append(pending, shareMem[(cac.rear + CacheCount - 1) % CacheCount])
     /\ phase' = "done"
     /\ UNCHANGED <<made, files, shareMem, opened, mapped, saved, before, torn>>

StartPop ==
  /\ opened /\ phase = "idle" /\ ~IsEmpty
  /\ SaveContext
  /\ phase' = "pop"
  /\ UNCHANGED <<disk, opened, mapped, pending, torn>>

PopFront ==
  \/ /\ phase = "pop"
     /\ cac' = [cac EXCEPT !.front = Step(cac.front)]
     /\ phase' = "half pop"
     /\ UNCHANGED <<made, files, shareMem, opened, mapped, saved, pending, before, torn>>
  \/ /\ phase = "half pop"
     /\ cac' = [cac EXCEPT !.count = @ - 1]
     /\ pending' = IF pending = <<>> THEN pending ELSE Tail(pending)
     /\ phase' = "done"
     /\ UNCHANGED <<made, files, shareMem, opened, mapped, saved, before, torn>>

Finish ==
  /\ phase = "done"
  /\ phase' = "idle"
  /\ UNCHANGED <<disk, opened, mapped, saved, pending, before, torn>>

(* What the user does around the push or the pop fails.                    *)
RestoreContext ==
  /\ phase \notin {"idle", "half push", "half pop"}
  /\ cac' = saved /\ pending' = before
  /\ phase' = "idle"
  /\ opened' = (phase # "failed") /\ mapped' = IF opened' THEN mapped ELSE {}
  /\ UNCHANGED <<made, files, shareMem, saved, before, torn>>

(* The process dies: the mapped files keep what was written.               *)
Crash ==
  /\ opened
  /\ torn' = (torn \/ phase \in {"half push", "half pop"})
  /\ opened' = FALSE /\ mapped' = {} /\ phase' = "idle"
  /\ UNCHANGED <<disk, saved, pending, before>>

(* A ring that was torn is not followed any further.                       *)
CacheNext ==
  /\ ~torn
  /\ \/ Open \/ Close \/ StartPush \/ PushBack \/ StartPop \/ PopFront \/ Finish
     \/ RestoreContext \/ Crash
     \/ \E ok \in BOOLEAN : ResizeCache(ok)
     \/ \E b \in Blocks : WriteBlock(b)

CacheSpec == CacheInit /\ [][CacheNext]_cacheVars

-----------------------------------------------------------------------------
(* Between operations the ring reads, from the front, as the blocks that   *)
(* were pushed and not popped, in their order: through wrap-around, a      *)
(* failure that restored the context, a Close and an Open, and a crash     *)
(* anywhere but inside PushBack and PopFront                               *)
(* (vbh_block_cache_manager.inl:21-50).                                    *)
BlocksInOrder ==
  opened /\ phase = "idle" /\ ~torn =>
    [i \in 1 .. cac.count |-> shareMem[(cac.front + i - 1) % CacheCount]] = pending

(* Open returns 0 only for a ring that is whole, although one that failed  *)
(* half-way is never made again: the control file has the length of the    *)
(* array, the indices are in it and every cache has its file               *)
(* (vbh_block_cache_manager.cpp:29-51).                                    *)
OpenedIsWhole ==
  opened =>
    /\ files = Ids
    /\ cac.len = CacheCount /\ cac.front \in Ids /\ cac.rear \in Ids /\ cac.count \in 0 .. CacheCount
=============================================================================
