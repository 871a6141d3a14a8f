---------------------------- MODULE SubtitleCache ----------------------------
(***************************************************************************)
(* The server's cache of metadata and cues: files in a directory.  Writes  *)
(* and maintenance run one at a time under the cache's lock; reads do not  *)
(* take it, and move a file's access time after they read it.  Every write *)
(* is followed by the eviction of the least recently used files.           *)
(* A temporary file that a crash leaves is neither served nor counted, and *)
(* is left out.                                                            *)
(***************************************************************************)
EXTENDS Naturals, FiniteSets, FiniteSetsExt

CONSTANTS
    Videos,
    MetadataTtl,    \* how long metadata is served; cues are served for ever
    FileSizes, MaxBytes,
    LastTick        \* bound: the clock stops here

ASSUME CacheOK ==
    IsFiniteSet(Videos) /\ MetadataTtl \in Nat /\ FileSizes \subseteq Nat /\ MaxBytes \in Nat

Entries == Videos \X {"metadata", "cues"}
NoEntry == [size |-> 0]

VARIABLES
    shelf,      \* the files: size, when their content was written, mtime, atime
    tick,       \* the clock
    keeper,     \* the operation that holds the lock
    reading     \* a read under way

cacheVars == <<shelf, tick, keeper, reading>>

Unlocked == [op |-> "none"]
NotReading == [at |-> "none"]
CacheInit == shelf = [e \in Entries |-> NoEntry] /\ tick = 1 /\ keeper = Unlocked /\ reading = NotReading

Stored == {e \in Entries : shelf[e] # NoEntry}
Volume == MapThenSumSet(LAMBDA e : shelf[e].size, Entries)
Fresh(e, now) == e[2] = "metadata" => now < shelf[e].mtime + MetadataTtl

---------------------------------------------------------------------------
\* Under the lock.  A write goes to a temporary file, which is renamed; then
\* maintenance runs when it is due, and the sizes are checked in any case.
Put(e, size) ==
    /\ keeper = Unlocked
    /\ keeper' = [op |-> "rename", entry |-> e, size |-> size, at |-> tick]
    /\ UNCHANGED <<shelf, tick, reading>>
Rename ==
    /\ keeper.op = "rename"
    /\ shelf' = [shelf EXCEPT ![keeper.entry] =
                    [size |-> keeper.size, written |-> keeper.at, mtime |-> keeper.at, atime |-> keeper.at]]
    /\ keeper' \in {[op |-> "purge", then |-> "measure"], [op |-> "measure"]}
    /\ UNCHANGED <<tick, reading>>

(* Maintenance purges and then checks the sizes; a request to purge only purges. *)
Maintain(then) ==
    /\ keeper = Unlocked
    /\ keeper' = [op |-> "purge", then |-> then]
    /\ UNCHANGED <<shelf, tick, reading>>
PurgeExpired ==
    /\ keeper.op = "purge"
    /\ shelf' = [e \in Entries |-> IF e \in Stored /\ ~Fresh(e, tick) THEN NoEntry ELSE shelf[e]]
    /\ keeper' = [op |-> keeper.then]
    /\ UNCHANGED <<tick, reading>>

(* The sizes and access times are listed first, then files removed one by one. *)
Measure ==
    /\ keeper.op = "measure"
    /\ keeper' = IF Volume <= MaxBytes THEN Unlocked
                 ELSE [op |-> "evict", listed |-> [e \in Stored |-> shelf[e].atime], total |-> Volume]
    /\ UNCHANGED <<shelf, tick, reading>>
Evict(e) ==
    /\ keeper.op = "evict" /\ e \in DOMAIN keeper.listed
    /\ \A f \in DOMAIN keeper.listed : keeper.listed[e] <= keeper.listed[f]
    /\ shelf' = [shelf EXCEPT ![e] = NoEntry]
    /\ LET total == keeper.total - shelf[e].size IN
       keeper' = IF total <= MaxBytes THEN Unlocked
                 ELSE [op |-> "evict", total |-> total,
                       listed |-> [f \in DOMAIN keeper.listed \ {e} |-> keeper.listed[f]]]
    /\ UNCHANGED <<tick, reading>>

(* Clearing a video, or everything, removes file after file. *)
Clear(entries) ==
    /\ keeper = Unlocked
    /\ keeper' = [op |-> "clear", left |-> entries \cap Stored]
    /\ UNCHANGED <<shelf, tick, reading>>
RemoveOne ==
    /\ keeper.op = "clear"
    /\ IF keeper.left = {} THEN keeper' = Unlocked /\ UNCHANGED shelf
       ELSE \E e \in keeper.left :
                shelf' = [shelf EXCEPT ![e] = NoEntry] /\ keeper' = [keeper EXCEPT !.left = @ \ {e}]
    /\ UNCHANGED <<tick, reading>>

(* The server stops anywhere; a new one starts with maintenance. *)
Restart ==
    /\ keeper' = [op |-> "purge", then |-> "measure"] /\ reading' = NotReading
    /\ UNCHANGED <<shelf, tick>>

---------------------------------------------------------------------------
\* A read: the age is checked, the content read, the modification time looked
\* up, and both times set, the access time to the present.
CheckAge(e) ==
    /\ reading = NotReading /\ e \in Stored /\ Fresh(e, tick)
    /\ reading' = [at |-> "content", entry |-> e, asked |-> tick]
    /\ UNCHANGED <<shelf, tick, keeper>>
ReadContent ==
    /\ reading.at = "content"
    /\ reading' = IF reading.entry \notin Stored THEN NotReading
                  ELSE [at |-> "stat", entry |-> reading.entry, asked |-> reading.asked,
                        got |-> shelf[reading.entry].written]
    /\ UNCHANGED <<shelf, tick, keeper>>
StatContent ==
    /\ reading.at = "stat"
    /\ reading' = IF reading.entry \notin Stored THEN NotReading
                  ELSE [at |-> "touch", entry |-> reading.entry, asked |-> reading.asked,
                        got |-> reading.got, mtime |-> shelf[reading.entry].mtime]
    /\ UNCHANGED <<shelf, tick, keeper>>

(* Mutant: the access counts as a modification. *)
TouchedBoth(mtime) == [shelf[reading.entry] EXCEPT !.mtime = tick, !.atime = tick]

Touched(mtime) == [shelf[reading.entry] EXCEPT !.mtime = mtime, !.atime = tick]

Touch ==
    /\ reading.at = "touch"
    /\ shelf' = IF reading.entry \notin Stored THEN shelf
                ELSE [shelf EXCEPT ![reading.entry] = Touched(reading.mtime)]
    /\ reading' = NotReading
    /\ UNCHANGED <<tick, keeper>>

PassTime == tick < LastTick /\ tick' = tick + 1 /\ UNCHANGED <<shelf, keeper, reading>>

CacheStep ==
    \/ \E e \in Entries : CheckAge(e) \/ Evict(e) \/ \E size \in FileSizes : Put(e, size)
    \/ Rename \/ PurgeExpired \/ Measure \/ RemoveOne \/ Restart
    \/ Maintain("measure") \/ Maintain("none")
    \/ Clear(Entries) \/ \E v \in Videos : Clear({v} \X {"metadata", "cues"})
    \/ ReadContent \/ StatContent \/ Touch \/ PassTime

CacheSpec == CacheInit /\ [][CacheStep]_cacheVars

---------------------------------------------------------------------------
\* Metadata that a read returns was written within its time to live, counted
\* from the moment the read asked, whatever was accessed, rewritten or
\* touched with an outdated modification time in between (cache.ts:252).
ServesFresh ==
    reading.at \in {"stat", "touch"} /\ reading.entry[2] = "metadata" =>
        reading.asked < reading.got + MetadataTtl

\* Between two operations the files fit the limit, also after a restart in
\* the middle of a write or of an eviction (cache.ts:305, :389).
SizeBounded == keeper = Unlocked => Volume <= MaxBytes

\* What the cache promises its readers and its disk.
CacheSound == ServesFresh /\ SizeBounded
=============================================================================
