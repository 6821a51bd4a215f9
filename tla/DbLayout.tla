------------------------------ MODULE DbLayout ------------------------------
(***************************************************************************)
(* The record store under the configuration database, DbLayout.cpp of      *)
(* src/src/database/core, on one of its two media.  A store call           *)
(* (EepromDbStore, FsDbStore) is one step and the power may go between any *)
(* two of them: an operation is the sequence of store calls it makes,      *)
(* `todo`, taken one at a time.                                            *)
(*                                                                         *)
(* A cell stands for a run of bytes written by one call; it names the      *)
(* table, the value, the struct version and the position it holds, so a    *)
(* checksum or a tag is the cells it was taken over.                       *)
(***************************************************************************)
EXTENDS Integers, Sequences, FiniteSets

CONSTANTS
  Ids,         \* table ids
  Values,      \* what a caller may store in a table
  Firmwares,   \* the table lists of the firmwares the device may boot
  Capacity,    \* cells of the payload area
  MaxTables,   \* MAX_TABLES, the length of the directory
  Media,       \* the media the device may have, of {"eeprom", "fs"}
  HeapFails,   \* whether the scratch buffer of repack may be refused
  WritesFail,  \* whether a container write may fail
  MaxRequests, \* records stored or cleared
  MaxFaults    \* power losses inside an operation, refused buffers and failed writes

VARIABLES
  medium,      \* the medium the layout is bound to
  disk,        \* what the medium holds across a power loss
  view,        \* what the store's read() returns
  tables,      \* __database.m_database_tables of the running firmware
  ram,         \* m_directory[0 .. m_entries - 1]
  status,      \* "off", "mounting", "mounted" or "failed"
  job,         \* the operation in progress
  todo,        \* the store calls it has left to make
  may,         \* per table, what a read is entitled to return
  goal,        \* `may` once the operation has ended well
  whole,       \* no repack was cut short so far
  requests,    \* records stored or cleared so far
  faults       \* faults so far

vars ==
  <<medium, disk, view, tables, ram, status, job, todo, may, goal, whole,
    requests, faults>>

SealOverhead == 2

\* db_slot_for: what a table's record may take, the seal it carries included.
Slot(t) == t.size + (IF t.secret THEN SealOverhead ELSE 0)

\* db_stored_bytes: what a record does take.
Stored(e) ==
  IF e.len = 0 THEN 0 ELSE e.len + (IF e.sealed THEN SealOverhead ELSE 0)

\* Records are packed in registration order from DB_PAYLOAD_START.
Offsets(ts) ==
  LET off[i \in 1 .. Len(ts)] ==
        IF i = 1 THEN 1 ELSE off[i - 1] + Slot(ts[i - 1])
  IN  off

\* What a generated table list is made of; no table has the id of an unused
\* directory entry.
ASSUME DbConstants ==
  /\ Capacity \in Nat /\ MaxTables \in Nat
  /\ Media \subseteq {"eeprom", "fs"}
  /\ 0 \notin Ids
  /\ \A ts \in Firmwares :
       ts \in Seq([id : Ids, ver : Nat, size : Nat, secret : BOOLEAN])

ASSUME FirmwaresFit ==
  \A ts \in Firmwares :
    /\ Len(ts) \in 1 .. MaxTables
    /\ \A i \in 1 .. Len(ts) : Offsets(ts)[i] + Slot(ts[i]) - 1 <= Capacity
    /\ \A i, j \in 1 .. Len(ts) : ts[i].id = ts[j].id => i = j

\* A seal does not name its table, so two tables whose sealed records have the
\* same length could take each other's; no two of the generated tables do.
ASSUME SealedSizesDiffer ==
  \A ts, us \in Firmwares : \A i \in 1 .. Len(ts), j \in 1 .. Len(us) :
    ts[i].secret /\ us[j].secret /\ ts[i].id # us[j].id => ts[i].size # us[j].size

----------------------------------------------------------------------------
(* What the cells of a record hold.                                        *)

\* A cell is its kind, the table and value it holds, the struct version and the
\* position, and for a cell of a seal the nonce.
Cell(kind, id, v, ver, i, n) == <<kind, <<id, v, ver, i, n>>>>
Blank == Cell("blank", 0, 0, 0, 0, 0)
PlainCell(id, v, ver, i) == Cell("plain", id, v, ver, i, 0)
NonceCell(n) == Cell("nonce", 0, 0, 0, 0, n)
CipherCell(n, id, v, ver, i) == Cell("cipher", id, v, ver, i, n)

\* The tag of a seal is what it was taken over: the nonce and the ciphertext.
TagCell(nonce, cipher) == <<"tag", <<0, 0, 0, 0, nonce[2][5]>>, nonce, cipher>>

Plain(t, v) == [i \in 1 .. t.size |-> PlainCell(t.id, v, t.ver, i)]
Cipher(t, v, n) == [i \in 1 .. t.size |-> CipherCell(n, t.id, v, t.ver, i)]

CellsAt(off, n) == SubSeq(view.cells, off, off + n - 1)

\* The cells of an entry's slot.
SlotCells(e) == e.off .. e.off + e.cap - 1

NonceOf(c) == c[2][5]

\* random_now(): sixteen random bytes, taken to differ from any nonce left in
\* the slot they are written to.
FreshNonce(e) ==
  CHOOSE n \in 1 .. 2 * e.cap + 1 :
    /\ \A p \in SlotCells(e) : n # NonceOf(disk.cells[p]) /\ n # NonceOf(view.cells[p])
    /\ \A m \in 1 .. n - 1 : \E p \in SlotCells(e) :
          m = NonceOf(disk.cells[p]) \/ m = NonceOf(view.cells[p])

----------------------------------------------------------------------------
(* The directory.                                                          *)

NoEntry == [id |-> 0, ver |-> 0, off |-> 1, cap |-> 0, len |-> 0,
            crc |-> <<>>, sealed |-> FALSE]

EmptyEntry(ts, i) ==
  [id |-> ts[i].id, ver |-> ts[i].ver, off |-> Offsets(ts)[i],
   cap |-> Slot(ts[i]), len |-> 0, crc |-> <<>>, sealed |-> ts[i].secret]

EmptyDirectory(ts) == [i \in 1 .. Len(ts) |-> EmptyEntry(ts, i)]

Has(dir, id) == \E i \in DOMAIN dir : dir[i].id = id

\* find_entry: the first entry that carries the id.
Find(dir, id) ==
  CHOOSE i \in DOMAIN dir :
    dir[i].id = id /\ \A j \in 1 .. i - 1 : dir[j].id # id

\* geometry_matches
GeometryMatches(dir, ts) ==
  /\ Len(dir) = Len(ts)
  /\ \A i \in DOMAIN ts :
       Has(dir, ts[i].id) /\ dir[Find(dir, ts[i].id)].cap = Slot(ts[i])

\* a slip: the record is carried whether or not it fits
CarriedUnfit(old, e) ==
  Has(old, e.id) /\ LET o == old[Find(old, e.id)] IN Stored(o) # 0 /\ o.sealed = e.sealed

\* Whether repack carries the record of an old directory into a new slot.
Carried(old, e) ==
  /\ Has(old, e.id)
  /\ LET o == old[Find(old, e.id)]
     IN  Stored(o) # 0 /\ o.sealed = e.sealed /\ Stored(o) <= e.cap

\* a slip: the old offset is carried along
RepackedInPlace(old, e) ==
  IF Carried(old, e)
  THEN LET o == old[Find(old, e.id)] IN [o EXCEPT !.cap = e.cap]
  ELSE e

RepackedEntry(old, e) ==
  IF Carried(old, e)
  THEN LET o == old[Find(old, e.id)]
       IN  [e EXCEPT !.len = o.len, !.crc = o.crc, !.ver = o.ver]
  ELSE e

RepackedDirectory(old, ts) ==
  [i \in 1 .. Len(ts) |-> RepackedEntry(old, EmptyEntry(ts, i))]

----------------------------------------------------------------------------
(* Store calls.                                                            *)

WriteCells(off, data) == [call |-> "cells", at |-> off, data |-> data, entry |-> NoEntry]
WriteEntry(i, e) == [call |-> "entry", at |-> i, data |-> <<>>, entry |-> e]
WriteSuper(n) == [call |-> "super", at |-> n, data |-> <<>>, entry |-> NoEntry]
Flush == [call |-> "flush", at |-> 0, data |-> <<>>, entry |-> NoEntry]

WriteDirectory(dir) ==
  [i \in 1 .. Len(dir) |-> WriteEntry(i, dir[i])]
    \o <<WriteSuper(Len(dir)), Flush>>

\* The records that change offset, each read before the first is written.
Moves(old, dir) ==
  LET from(i) == old[Find(old, dir[i].id)]
      moved(i) == Carried(old, dir[i]) /\ from(i).off # dir[i].off
      lifted[i \in 0 .. Len(dir)] ==
        IF i = 0 THEN <<>>
        ELSE IF moved(i)
        THEN Append(lifted[i - 1],
                    WriteCells(dir[i].off, CellsAt(from(i).off, Stored(from(i)))))
        ELSE lifted[i - 1]
  IN  lifted[Len(dir)]

\* seal_record: the nonce, the ciphertext a chunk at a time, then the tag.
SealCalls(e, t, v, n) ==
  <<WriteCells(e.off, <<NonceCell(n)>>)>>
    \o [i \in 1 .. t.size |-> WriteCells(e.off + i, <<Cipher(t, v, n)[i]>>)]
    \o <<WriteCells(e.off + 1 + t.size, <<TagCell(NonceCell(n), Cipher(t, v, n))>>)>>

\* a slip: nothing is flushed
RecordCallsStaged(i, e, t, v, n) ==
  LET written ==
        [e EXCEPT !.len = t.size, !.ver = t.ver,
                  !.crc = IF e.sealed THEN <<>> ELSE Plain(t, v)]
  IN  (IF e.sealed THEN SealCalls(e, t, v, n) ELSE <<WriteCells(e.off, Plain(t, v))>>)
        \o <<WriteEntry(i, written)>>

\* write_record: the payload, the entry that describes it, the flush.
RecordCalls(i, e, t, v, n) ==
  LET written ==
        [e EXCEPT !.len = t.size, !.ver = t.ver,
                  !.crc = IF e.sealed THEN <<>> ELSE Plain(t, v)]
  IN  (IF e.sealed THEN SealCalls(e, t, v, n) ELSE <<WriteCells(e.off, Plain(t, v))>>)
        \o <<WriteEntry(i, written), Flush>>

ClearCalls(i, e) ==
  <<WriteEntry(i, [e EXCEPT !.len = 0, !.crc = <<>>]), Flush>>

\* What a store holds once a call has been made on it.
Written(s, c) ==
  CASE c.call = "cells" ->
         [s EXCEPT !.cells = [p \in 1 .. Capacity |->
            IF p \in c.at .. c.at + Len(c.data) - 1
            THEN c.data[p - c.at + 1] ELSE s.cells[p]]]
    [] c.call = "entry" -> [s EXCEPT !.dir[c.at] = c.entry]
    [] c.call = "super" -> [s EXCEPT !.super = c.at]
    [] OTHER -> s

\* The container takes each write as it is made; the eeprom stages it in RAM
\* until the flush commits it.
Persists(c) == medium = "fs" \/ c.call = "flush"

----------------------------------------------------------------------------
(* read_record.                                                            *)

Result(st, id, v, ver) == [st |-> st, id |-> id, v |-> v, ver |-> ver]
Empty == Result("empty", 0, 0, 0)
Damaged == Result("damaged", 0, 0, 0)
Holds(t, v) == Result("ok", t.id, v, t.ver)

\* a slip: the length stands for the checksum
PlainVerifiesLength(e) == e.len = Len(e.crc)

\* verify_plain
PlainVerifies(e) == CellsAt(e.off, e.len) = e.crc

\* verify_sealed: the tag is over the nonce and the ciphertext.
SealVerifies(e) ==
  view.cells[e.off + 1 + e.len] = TagCell(view.cells[e.off], CellsAt(e.off + 1, e.len))

Verifies(e) == IF e.sealed THEN SealVerifies(e) ELSE PlainVerifies(e)

\* read_record and unseal_record: the version comes from the entry, the value
\* from the payload.
FirstCell(e) == view.cells[IF e.sealed THEN e.off + 1 ELSE e.off]

ReadIn(dir, id) ==
  LET e == dir[Find(dir, id)]
  IN  CASE e.len = 0 -> Empty
        [] e.len # 0 /\ Verifies(e) ->
             Result("ok", FirstCell(e)[2][1], FirstCell(e)[2][2], e.ver)
        [] OTHER -> Damaged

Read(id) == ReadIn(ram, id)

----------------------------------------------------------------------------
BlankStore ==
  [super |-> 0, dir |-> [i \in 1 .. MaxTables |-> NoEntry],
   cells |-> [p \in 1 .. Capacity |-> Blank]]

Init ==
  /\ medium \in Media
  /\ disk = BlankStore /\ view = BlankStore
  /\ tables = <<>> /\ ram = <<>> /\ status = "off" /\ job = "none" /\ todo = <<>>
  /\ may = [id \in Ids |-> {Empty}] /\ goal = may
  /\ whole = TRUE /\ requests = 0 /\ faults = 0

\* A torn operation on the container may leave what it was writing unreadable.
Torn == IF medium = "fs" THEN {Damaged} ELSE {}

Stay == job = "none" /\ UNCHANGED <<medium, disk, view>>

\* read_superblock finds none: format() lays an empty directory down.
Format(ts) ==
  /\ view.super = 0
  /\ ram' = EmptyDirectory(ts) /\ status' = "mounting" /\ job' = "format"
  /\ todo' = WriteDirectory(EmptyDirectory(ts))
  /\ may' = [id \in Ids |-> {Empty}] /\ goal' = may'
  /\ UNCHANGED <<whole, faults>>

Directory == SubSeq(view.dir, 1, view.super)

InBounds(e) == e.off + e.cap - 1 <= Capacity /\ e.len <= e.cap

\* read_superblock and read_directory accept what they find.
Readable == view.super # 0 /\ \A i \in DOMAIN Directory : InBounds(Directory[i])

\* Whether a read may return r.  A seal does not cover the version, so on the
\* container a torn write may pair the new payload with the old version.
Entitled(id, r) ==
  \E m \in may[id] : /\ m.st = r.st /\ m.id = r.id /\ m.v = r.v
                      /\ medium = "eeprom" => m.ver = r.ver

\* A boot settles what an interrupted operation left open: what a record reads
\* as then is what it is from then on.
Settled(dir) ==
  [id \in Ids |-> CASE ~whole -> {}
                   [] whole /\ Has(dir, id) -> {r \in {ReadIn(dir, id)} : Entitled(id, r)}
                   [] OTHER -> {Empty}]

\* The stored geometry is the firmware's: nothing to write.
Adopt(ts) ==
  /\ Readable /\ GeometryMatches(Directory, ts)
  /\ ram' = Directory /\ status' = "mounted"
  /\ may' = Settled(Directory) /\ goal' = may'
  /\ UNCHANGED <<job, todo, whole, faults>>

\* What a read is entitled to once a repack has ended.
MayAfterRepack(old, dir) ==
  [id \in Ids |-> IF Has(dir, id) /\ Carried(old, dir[Find(dir, id)])
                  THEN Settled(old)[id] ELSE {Empty}]

\* repack()
Repack(ts) ==
  /\ Readable /\ ~GeometryMatches(Directory, ts)
  /\ LET new == RepackedDirectory(Directory, ts)
     IN  /\ ram' = new /\ status' = "mounting" /\ job' = "repack"
         /\ todo' = Moves(Directory, EmptyDirectory(ts)) \o WriteDirectory(new)
         /\ goal' = MayAfterRepack(Directory, EmptyDirectory(ts))
         /\ may' = [id \in Ids |-> Settled(Directory)[id] \cup goal'[id] \cup Torn]
  /\ UNCHANGED <<whole, faults>>

\* repack() with no memory for the records it has to lift: mount() returns an
\* error with m_mounted set and the new directory in RAM.  On the container the
\* service turns to the eeprom instead; on the eeprom the layout stays in use.
RepackStarved(ts) ==
  /\ HeapFails /\ faults < MaxFaults /\ faults' = faults + 1
  /\ Readable /\ ~GeometryMatches(Directory, ts)
  /\ Moves(Directory, EmptyDirectory(ts)) # <<>>
  /\ ram' = RepackedDirectory(Directory, ts)
  /\ status' = IF medium = "fs" THEN "failed" ELSE "mounted"
  /\ whole' = (whole /\ medium = "fs")
  /\ UNCHANGED <<job, todo, may, goal>>

\* A boot of some firmware: resolve_tiers() opens the store and mounts it.
\* set_firmware_version and set_launch_year, called after a format, write the
\* superblock again with the same count: nothing the model keeps changes.
Boot ==
  /\ status = "off" /\ Stay /\ UNCHANGED requests
  /\ \E ts \in Firmwares :
       /\ tables' = ts
       /\ \/ Format(ts)
          \/ Adopt(ts)
          \/ Repack(ts)
          \/ RepackStarved(ts)

\* DatabaseTable::set -> write_record
WriteRecord ==
  /\ status = "mounted" /\ Stay
  /\ requests < MaxRequests /\ requests' = requests + 1
  /\ \E k \in DOMAIN tables, v \in Values :
       LET t == tables[k]
           i == Find(ram, t.id)
           e == ram[i]
           n == FreshNonce(e)
       IN  /\ Has(ram, t.id)
           /\ t.size + (IF e.sealed THEN SealOverhead ELSE 0) <= e.cap
           /\ job' = "record" /\ todo' = RecordCalls(i, e, t, v, n)
           /\ goal' = [may EXCEPT ![t.id] = {Holds(t, v)}]
           /\ may' = [may EXCEPT ![t.id] = @ \cup {Holds(t, v)} \cup Torn]
  /\ UNCHANGED <<tables, ram, status, whole, faults>>

\* DatabaseTable::clear -> clear_record
ClearRecord ==
  /\ status = "mounted" /\ Stay
  /\ requests < MaxRequests /\ requests' = requests + 1
  /\ \E k \in DOMAIN tables :
       LET id == tables[k].id
           i == Find(ram, id)
       IN  /\ Has(ram, id)
           /\ job' = "record" /\ todo' = ClearCalls(i, ram[i])
           /\ goal' = [may EXCEPT ![id] = {Empty}]
           /\ may' = [may EXCEPT ![id] = @ \cup {Empty}]
  /\ UNCHANGED <<tables, ram, status, whole, faults>>

\* write_entry() has already changed m_directory when it reaches the store.
RamAfter(c) == IF c.call = "entry" THEN [ram EXCEPT ![c.at] = c.entry] ELSE ram

\* A store call succeeds.
StoreCall ==
  /\ todo # <<>>
  /\ LET c == Head(todo)
         last == Tail(todo) = <<>>
     IN  /\ view' = Written(view, c)
         /\ disk' = IF Persists(c) THEN Written(view, c) ELSE disk
         /\ ram' = RamAfter(c)
         /\ todo' = Tail(todo)
         /\ job' = IF last THEN "none" ELSE job
         /\ status' = IF last THEN "mounted" ELSE status
         /\ may' = IF last THEN goal ELSE may
  /\ UNCHANGED <<medium, tables, goal, whole, requests, faults>>

\* A container write fails.  repack() does not look at what its moves return;
\* any other failure ends the operation, and ends a mount on the container.
StoreFails ==
  /\ WritesFail /\ faults < MaxFaults /\ faults' = faults + 1
  /\ medium = "fs" /\ todo # <<>> /\ Head(todo).call # "flush"
  /\ ram' = RamAfter(Head(todo))
  /\ whole' = (whole /\ job # "repack")
  /\ \/ /\ job = "repack" /\ Head(todo).call = "cells"
        /\ todo' = Tail(todo) /\ UNCHANGED <<job, status>>
     \/ /\ ~(job = "repack" /\ Head(todo).call = "cells")
        /\ todo' = <<>> /\ job' = "none"
        /\ status' = IF job = "record" THEN status ELSE "failed"
  /\ goal' = IF todo' = <<>> THEN may ELSE goal
  /\ UNCHANGED <<medium, disk, view, tables, may, requests>>

\* The power goes, or the device restarts: RAM is lost, staged writes with it.
PowerLoss ==
  /\ status # "off"
  /\ job # "none" => faults < MaxFaults
  /\ faults' = IF job = "none" THEN faults ELSE faults + 1
  /\ view' = disk /\ ram' = <<>> /\ tables' = <<>>
  /\ status' = "off" /\ job' = "none" /\ todo' = <<>>
  /\ whole' = (whole /\ ~(medium = "fs" /\ job = "repack"))
  /\ goal' = may
  /\ UNCHANGED <<medium, disk, may, requests>>

Next == Boot \/ WriteRecord \/ ClearRecord \/ StoreCall \/ StoreFails \/ PowerLoss

Spec == Init /\ [][Next]_vars

----------------------------------------------------------------------------
(* Properties.                                                             *)

IsStore(s) ==
  /\ DOMAIN s = {"super", "dir", "cells"}
  /\ s.super \in 0 .. MaxTables
  /\ DOMAIN s.dir = 1 .. MaxTables
  /\ DOMAIN s.cells = 1 .. Capacity
  /\ \A i \in 1 .. MaxTables : s.dir[i].id \in Ids \cup {0} /\ InBounds(s.dir[i])

\* The state has its type; in particular no entry, in RAM or on the medium,
\* ever describes bytes outside its slot or a slot outside the medium
\* (read_directory's PDI_ERR_CORRUPT is never met).
DbTypeOK ==
  /\ IsStore(disk) /\ IsStore(view)
  /\ Len(ram) <= MaxTables /\ \A i \in DOMAIN ram : InBounds(ram[i])
  /\ \A i \in DOMAIN ram : Stored(ram[i]) <= ram[i].cap
  /\ status \in {"off", "mounting", "mounted", "failed"}
  /\ job \in {"none", "format", "repack", "record"}
  /\ whole \in BOOLEAN

Ready == status = "mounted" /\ job = "none"

Apart == \A i, j \in DOMAIN ram : i # j => SlotCells(ram[i]) \cap SlotCells(ram[j]) = {}

\* While no repack was cut short, the slots of a mounted layout never share a
\* byte, whatever firmwares the device went through and wherever it was reset
\* (format, repack, geometry_matches).
SlotsDisjoint == Ready /\ whole => Apart

\* While no repack was cut short, read_record returns, for every table, the
\* last value stored or cleared with the version that stored it; if the power
\* went or a write failed inside that very operation, then the value before or
\* after it, and on the container alone possibly an error.  Records of other
\* tables are never affected, and a repack loses nothing that still fits.
ReadsAllowed ==
  Ready /\ whole => \A k \in DOMAIN tables : Entitled(tables[k].id, Read(tables[k].id))

\* Whatever was cut short and whatever overlaps, a record that read_record
\* returns is one that was stored for that very table, whole: never another
\* table's bytes and never parts of two stores (verify_plain, verify_sealed).
ReadsGenuine ==
  Ready => \A k \in DOMAIN tables :
    LET e == ram[Find(ram, tables[k].id)]
        payload == CellsAt(IF e.sealed THEN e.off + 1 ELSE e.off, e.len)
    IN  e.len # 0 /\ Verifies(e) =>
          \A i \in 1 .. e.len : /\ payload[i][2][1] = tables[k].id
                                /\ payload[i][2][4] = i
                                /\ payload[i][2][2] = payload[1][2][2]
                                /\ payload[i][2][3] = payload[1][2][3]

\* DbLayout.h:137: read_record tells the version the payload was written by.
VersionTold ==
  Ready => \A k \in DOMAIN tables :
             LET e == ram[Find(ram, tables[k].id)]
             IN  e.len # 0 /\ Verifies(e) => e.ver = FirstCell(e)[2][3]

\* README.md:1061: a struct that grows does not push a neighbour into it.
NeighboursApart == Ready => Apart
=============================================================================
