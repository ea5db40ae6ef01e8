------------------------------ MODULE BufferPool ------------------------------
(***************************************************************************)
(* The buffer pool of tinydb/storage.py and its handles.  `pool` is the    *)
(* dict _entries in insertion order.  A handle refers to an entry object,  *)
(* not to a page: once the entry leaves the dict the handle is detached,   *)
(* and what it pins, writes or marks dirty no longer reaches the pool.     *)
(* Clients take a handle, pin it, write through it and unpin it.           *)
(***************************************************************************)
EXTENDS Integers, Sequences, FiniteSets, SequencesExt

CONSTANTS Clients,    \* the holders of handles
          PageIds,
          Capacity,   \* BufferPool._capacity
          Values,     \* page contents
          PutResident \* clients also put() pages that are in the pool already

ASSUME PoolAssumption == Capacity \in Nat /\ PutResident \in BOOLEAN

NoPage == 0

VARIABLES pool,      \* entries [page, value, dirty, pins], oldest first
          handle,    \* handle[c]: the page of c's handle or NoPage
          attached,  \* attached[c]: c's handle still refers to a pool entry
          pinned,    \* pinned[c]: c called pin() and not yet unpin()
          disk,      \* page contents in the file
          latest,    \* history: the last value written to each page
          recent     \* history: the pages of the pool, least recently used first

vars == <<pool, handle, attached, pinned, disk, latest, recent>>

Entry(p, v, d) == [page |-> p, value |-> v, dirty |-> d, pins |-> 0]

Positions(p) == {i \in DOMAIN pool : pool[i].page = p}
Resident(p) == Positions(p) # {}
PositionOf(p) == CHOOSE i \in Positions(p) : TRUE

Init ==
    /\ pool = <<>>
    /\ disk \in [PageIds -> Values] /\ \A p, q \in PageIds : disk[p] = disk[q]
    /\ latest = disk
    /\ handle = [c \in Clients |-> NoPage]
    /\ attached = [c \in Clients |-> FALSE]
    /\ pinned = [c \in Clients |-> FALSE]
    /\ recent = <<>>

\* Clients pin a handle before anything else happens to the pool.
Settled == \A c \in Clients : handle[c] # NoPage => pinned[c]

Touched(p) == Append(SelectSeq(recent, LAMBDA q : q # p), p)

-----------------------------------------------------------------------------
(* Eviction                                                                *)

Full == Len(pool) >= Capacity

\* Mutant of Unpinned: pin counts are not looked at.
AnyEntry == DOMAIN pool

Unpinned == {i \in DOMAIN pool : pool[i].pins = 0}

\* The first unpinned entry in dict order.
Victim == CHOOSE i \in Unpinned : \A j \in Unpinned : i <= j

\* With every page pinned _evict_if_full raises and nothing changes.
CanMakeRoom == Full => Unpinned # {}

PoolWithRoom == IF Full THEN RemoveAt(pool, Victim) ELSE pool

\* Mutant of DiskWithRoom: a dirty victim is dropped without a write.
DiskAsIs == disk

DiskWithRoom ==
    IF Full /\ pool[Victim].dirty
      THEN [disk EXCEPT ![pool[Victim].page] = pool[Victim].value] ELSE disk

Evicted == IF Full THEN {pool[Victim].page} ELSE {}

\* handle objects after the entries of the pages in gone have left the dict.
Detach(gone, c, now) ==
    attached' = [x \in Clients |-> IF x = c THEN now ELSE attached[x] /\ handle[x] \notin gone]

-----------------------------------------------------------------------------
(* BufferPool.get, put, flush_all                                          *)

GetHit(c, p) ==
    /\ Settled /\ handle[c] = NoPage
    /\ Resident(p)
    /\ handle' = [handle EXCEPT ![c] = p]
    /\ attached' = [attached EXCEPT ![c] = TRUE]
    /\ recent' = Touched(p)
    /\ UNCHANGED <<pool, pinned, disk, latest>>

GetMiss(c, p) ==
    /\ Settled /\ handle[c] = NoPage
    /\ ~Resident(p)
    /\ CanMakeRoom
    /\ disk' = DiskWithRoom
    /\ pool' = Append(PoolWithRoom, Entry(p, disk'[p], FALSE))
    /\ handle' = [handle EXCEPT ![c] = p]
    /\ Detach(Evicted, c, TRUE)
    /\ recent' = SelectSeq(Touched(p), LAMBDA q : q \notin Evicted)
    /\ UNCHANGED <<pinned, latest>>

\* Assignment to a key that is present replaces the entry in its position.
Stored(entries, entry) ==
    IF \E i \in DOMAIN entries : entries[i].page = entry.page
      THEN [i \in DOMAIN entries |-> IF entries[i].page = entry.page THEN entry ELSE entries[i]]
      ELSE Append(entries, entry)

Put(c, p, v) ==
    /\ Settled /\ handle[c] = NoPage
    /\ Resident(p) => PutResident
    /\ CanMakeRoom
    /\ disk' = DiskWithRoom
    /\ pool' = Stored(PoolWithRoom, Entry(p, v, TRUE))
    /\ handle' = [handle EXCEPT ![c] = p]
    /\ Detach(Evicted \cup {p}, c, TRUE)
    /\ latest' = [latest EXCEPT ![p] = v]
    /\ recent' = SelectSeq(Touched(p), LAMBDA q : q = p \/ q \notin Evicted)
    /\ UNCHANGED pinned

FlushAll ==
    /\ Settled
    /\ disk' = [p \in PageIds |-> IF Resident(p) /\ pool[PositionOf(p)].dirty
                                    THEN pool[PositionOf(p)].value ELSE disk[p]]
    /\ pool' = [i \in DOMAIN pool |-> [pool[i] EXCEPT !.dirty = FALSE]]
    /\ UNCHANGED <<handle, attached, pinned, latest, recent>>

-----------------------------------------------------------------------------
(* PageHandle                                                              *)

EntryOf(c) == pool[PositionOf(handle[c])]

SetEntry(c, entry) ==
    pool' = IF attached[c] THEN [pool EXCEPT ![PositionOf(handle[c])] = entry] ELSE pool

Pin(c) ==
    /\ handle[c] # NoPage /\ ~pinned[c]
    /\ SetEntry(c, [EntryOf(c) EXCEPT !.pins = @ + 1])
    /\ pinned' = [pinned EXCEPT ![c] = TRUE]
    /\ UNCHANGED <<handle, attached, disk, latest, recent>>

\* unpin, after which the client forgets the handle.
Unpin(c) ==
    /\ Settled /\ pinned[c]
    /\ SetEntry(c, [EntryOf(c) EXCEPT !.pins = IF @ > 0 THEN @ - 1 ELSE @])
    /\ pinned' = [pinned EXCEPT ![c] = FALSE]
    /\ handle' = [handle EXCEPT ![c] = NoPage]
    /\ attached' = [attached EXCEPT ![c] = FALSE]
    /\ UNCHANGED <<disk, latest, recent>>

\* A change of handle.page.body followed by mark_dirty.
Write(c, v) ==
    /\ Settled /\ pinned[c]
    /\ SetEntry(c, [EntryOf(c) EXCEPT !.value = v, !.dirty = TRUE])
    /\ latest' = [latest EXCEPT ![handle[c]] = v]
    /\ UNCHANGED <<handle, attached, pinned, disk, recent>>

Next ==
    \/ FlushAll
    \/ \E c \in Clients :
          \/ Pin(c) \/ Unpin(c)
          \/ \E p \in PageIds : GetHit(c, p) \/ GetMiss(c, p)
          \/ \E v \in Values : Write(c, v) \/ \E p \in PageIds : Put(c, p, v)

Spec == Init /\ [][Next]_vars

-----------------------------------------------------------------------------
(* Properties                                                              *)

TypeOK ==
    /\ pool \in Seq([page : PageIds, value : Values, dirty : BOOLEAN, pins : Nat])
    /\ handle \in [Clients -> PageIds \cup {NoPage}]
    /\ attached \in [Clients -> BOOLEAN]
    /\ pinned \in [Clients -> BOOLEAN]
    /\ disk \in [PageIds -> Values]
    /\ latest \in [PageIds -> Values]
    /\ recent \in Seq(PageIds)

\* The last value written to a page is the one in the pool, or the one in the
\* file when the page is not in the pool: no eviction, flush or reload loses a
\* write.
LatestKept ==
    \A p \in PageIds : latest[p] = IF Resident(p) THEN pool[PositionOf(p)].value ELSE disk[p]

\* A page that some client has pinned is never evicted until it is unpinned.
PinnedNotEvicted ==
    [][\A p \in PageIds : Resident(p) /\ ~Resident(p)' =>
          \A c \in Clients : pinned[c] => handle[c] # p]_vars

\* Only the least recently used unpinned page is evicted.
EvictsLeastRecent ==
    [][\A p \in PageIds : Resident(p) /\ ~Resident(p)' =>
          \A i, j \in DOMAIN recent :
             recent[i] = p /\ j < i => pool[PositionOf(recent[j])].pins > 0]_vars
===============================================================================
