----------------------------- MODULE EventStore -----------------------------
(***************************************************************************)
(* ProtocolDB: the table of events a node reacts to, in a region of the    *)
(* EEPROM (halPersist).  A header says how many entries there are and, one *)
(* bit each, which slots they are in; the n-th entry is the one in the     *)
(* n-th slot whose bit is set.                                             *)
(*                                                                         *)
(* The EEPROM is written byte by byte and a reset may come between any two *)
(* bytes, so an operation is the list of bytes it writes, in ascending     *)
(* order of their addresses as eeprom_write_block takes them.  The         *)
(* signature and the entry size stand as one byte; so do the condition of  *)
(* an entry (event and address) and what it asks for (action and           *)
(* parameter).                                                             *)
(***************************************************************************)
EXTENDS Integers, Sequences, FiniteSets

CONSTANTS
  NSectors,     \* PROTOCOL_NINDEXSECTORS
  SectorBits,   \* bits of an IndexSector
  MaxEntries,   \* PROTOCOL_MAXENTRIES
  PersistSize,  \* PROTOCOL_PERSIST_SIZE
  Conds, Acts,  \* what entries say
  Blank         \* what erased memory reads as

Slots == 0..(NSectors * SectorBits - 1)
Sectors == 0..(NSectors - 1)
Entry == [cond: Conds, act: Acts]

ASSUME EventStoreAssumption ==
  /\ NSectors \in Nat \ {0} /\ SectorBits \in 1..8
  /\ MaxEntries = NSectors * SectorBits /\ MaxEntries < 255
  /\ Blank \notin Conds \cup Acts

\* Persist_read_block and Persist_write_block refuse a block that ends with
\* the region, so the table must leave a byte of it free.
HeaderLen == 5 + NSectors
EntryLen == 12
Refuses(address, size) == address >= PersistSize \/ address + size >= PersistSize
ASSUME StoreFits ==
  /\ ~Refuses(0, HeaderLen)
  /\ \A s \in Slots : ~Refuses(HeaderLen + EntryLen * s, EntryLen)

VARIABLES
  eeprom,   \* the bytes
  todo,     \* bytes still to be written by the operation that runs
  iterator  \* currentSector and currentBit as one place, currentCount, currentEntry

storeVars == <<eeprom, todo, iterator>>

-----------------------------------------------------------------------------
(* Reading *)

Signature == <<"signature", 0>>
NEntries == <<"nEntries", 0>>
Sector(k) == <<"sector", k>>
Cond(s) == <<"cond", s>>
Act(s) == <<"act", s>>
Cells ==
  {Signature, NEntries} \cup {Sector(k) : k \in Sectors}
  \cup {Cond(s) : s \in Slots} \cup {Act(s) : s \in Slots}

nEntries == eeprom[NEntries]
Used == {s \in Slots : s % SectorBits \in eeprom[Sector(s \div SectorBits)]}
EntryAt(s) == [cond |-> eeprom[Cond(s)], act |-> eeprom[Act(s)]]

\* The slot PDB__getSetDelEntry stops at, as a set: it looks for entry n from
\* a place on where "count" set bits have been passed.
Seek(n, place, count) ==
  {s \in Used : /\ n < nEntries /\ s >= place
                /\ count + Cardinality({t \in Used : t >= place /\ t < s}) = n}

\* Wrong on purpose: takes the number of an entry for its slot.
SlotOfAbsolute(n) == IF n < nEntries THEN {n} ELSE {}

SlotOf(n) == Seek(n, 0, 0)

-----------------------------------------------------------------------------
(* What the operations write *)

Header(count, used) ==
  <<<<Signature, TRUE>>, <<NEntries, count>>>>
  \o [k \in 1..NSectors |->
        <<Sector(k - 1), {s % SectorBits : s \in {t \in used : t \div SectorBits = k - 1}}>>]
EntryBytes(s, entry) == <<<<Cond(s), entry.cond>>, <<Act(s), entry.act>>>>

Writes(bytes) == todo' = bytes

FreeSlot == CHOOSE s \in Slots \ Used : \A t \in Slots \ Used : s <= t
HasRoom == nEntries < MaxEntries /\ Used # Slots

\* Wrong on purpose: sets the bit before the entry is there.
AppendBytesHeaderFirst(entry) ==
  Header(nEntries + 1, Used \cup {FreeSlot}) \o EntryBytes(FreeSlot, entry)

AppendBytes(entry) ==
  EntryBytes(FreeSlot, entry) \o Header(nEntries + 1, Used \cup {FreeSlot})
SetBytes(s, entry) == EntryBytes(s, entry)

DelBytes(s) == Header(nEntries - 1, Used \ {s})
FormatBytes == Header(0, {})

-----------------------------------------------------------------------------
(* The iterator *)

IteratorStart == [place |-> 0, count |-> 0, entry |-> 0]

\* Where PDB_iteratorGetNextEntry leaves it: at the entry, or at the end, or
\* where it was if the header has no entry of this number.
IteratorNext ==
  LET found == Seek(iterator.entry, iterator.place, iterator.count)
      passed == Cardinality({t \in Used : t >= iterator.place})
  IN  iterator' =
        IF iterator.entry >= nEntries
          THEN [iterator EXCEPT !.entry = @ + 1]
        ELSE IF found = {}
          THEN [place |-> NSectors * SectorBits, count |-> iterator.count + passed,
                entry |-> iterator.entry + 1]
        ELSE [place |-> CHOOSE s \in found : TRUE, count |-> iterator.entry,
              entry |-> iterator.entry + 1]

-----------------------------------------------------------------------------
(* A byte is written *)

WriteByte ==
  /\ todo # <<>>
  /\ eeprom' = [eeprom EXCEPT ![todo[1][1]] = todo[1][2]]
  /\ todo' = Tail(todo)

\* An erased chip: every byte is 0xFF.
Erased ==
  [c \in Cells |->
     CASE c = Signature -> FALSE
       [] c = NEntries -> 255
       [] c[1] = "sector" -> 0..(SectorBits - 1)
       [] OTHER -> Blank]

\* A table that was filled earlier, from the first slot on.
Filled(entries) ==
  LET used == 0..(Len(entries) - 1)
  IN  [c \in Cells |->
         CASE c = Signature -> TRUE
           [] c = NEntries -> Len(entries)
           [] c[1] = "sector" -> {s % SectorBits : s \in {t \in used : t \div SectorBits = c[2]}}
           [] c[1] = "cond" /\ c[2] \in used -> entries[c[2] + 1].cond
           [] c[1] = "act" /\ c[2] \in used -> entries[c[2] + 1].act
           [] OTHER -> Blank]

StoreInit == todo = <<>> /\ iterator = IteratorStart

=============================================================================
