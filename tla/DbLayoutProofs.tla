--------------------------- MODULE DbLayoutProofs ---------------------------
(***************************************************************************)
(* The record store (DbLayout) for every list of tables, capacity, set of  *)
(* values and number of boots, records and faults.                         *)
(*                                                                         *)
(* First, what it writes is well formed: the directories it lays down and  *)
(* carries over, and the store calls of each operation.                    *)
(*                                                                         *)
(* Genuine carries the types and ReadsGenuine: an entry, on the medium or  *)
(* in RAM, describes a record of its own table inside its slot; a tag      *)
(* authenticates one whole ciphertext; and the calls still to be made      *)
(* write nothing else.  It says nothing of where slots are, so it survives *)
(* a repack that was cut short.                                            *)
(*                                                                         *)
(* Geometry carries SlotsDisjoint: while no repack was cut short, the      *)
(* directory on the medium is laid out as some firmware's.  A record       *)
(* leaves every slot where it is.  format() and repack() move the slots,   *)
(* so in between it says that what is not on the store yet is among the    *)
(* calls left, entries ahead of the superblock; a format that is cut short *)
(* is then found again as no layout at all.                                *)
(***************************************************************************)
EXTENDS DbLayout, SequenceTheorems, WellFoundedInduction, TLAPS

\* The tables of any firmware the device may run.
Known == UNION {{ts[i] : i \in 1 .. Len(ts)} : ts \in Firmwares}

\* What a plain entry may carry as its checksum.
Checksums == {<<>>} \cup {Plain(t, v) : t \in Known, v \in Values}

Entry ==
  [id : Ids \cup {0}, ver : Nat, off : Nat \ {0}, cap : Nat, len : Nat,
   crc : Checksums, sealed : BOOLEAN]

\* The record an entry describes is one of its table.
Describes(e) ==
  e.len # 0 =>
    \E t \in Known : /\ t.id = e.id /\ t.size = e.len
                     /\ IF e.sealed THEN t.secret
                        ELSE \E v \in Values : e.crc = Plain(t, v)

\* The record stays in its slot, and the slot on the medium.
Fits(e) == e.off + e.cap - 1 <= Capacity /\ Stored(e) <= e.cap

\* The entries that may stand in a directory.
Entries == {e \in Entry : Describes(e) /\ Fits(e)}

\* A tag authenticates the ciphertext of a table that is kept sealed.
TagGenuine(c) ==
  c[1] = "tag" =>
    \E t \in Known, v \in Values : t.secret /\ c[4] = Cipher(t, v, NonceOf(c))

\* What a store may hold: good entries and, under any tag, a sealed record.
StoreGenuine(s) ==
  /\ s.super \in 0 .. MaxTables
  /\ DOMAIN s = {"super", "dir", "cells"}
  /\ s.dir \in [1 .. MaxTables -> Entries]
  /\ DOMAIN s.cells = 1 .. Capacity
  /\ \A p \in 1 .. Capacity : TagGenuine(s.cells[p])

\* A call writes good cells, or a good entry into the slot it has in dir.
CallGenuine(c, dir) ==
  /\ c.call \in {"cells", "entry", "super", "flush"}
  /\ c.call = "cells" => /\ c.at \in Nat /\ Len(c.data) \in Nat
                         /\ \A j \in 1 .. Len(c.data) : TagGenuine(c.data[j])
  /\ c.call = "entry" => /\ c.at \in 1 .. Len(dir) /\ c.entry \in Entries
                         /\ c.entry.id = dir[c.at].id
                         /\ c.entry.cap = dir[c.at].cap
                         /\ c.entry.off = dir[c.at].off
  /\ c.call = "super" => c.at \in 0 .. MaxTables

\* s is a sequence, whatever its elements are.
IsQueue(s) == s \in Seq({s[k] : k \in 1 .. Len(s)})

\* The flush of an operation is its last call.
FlushLast(s) == \A k \in 1 .. Len(s) : s[k].call = "flush" <=> k = Len(s)

----------------------------------------------------------------------------
(* Offsets.                                                                *)

\* A nonempty set of naturals has a least element.
LEMMA LeastNat ==
  ASSUME NEW S, S \subseteq Nat, S # {}
  PROVE  \E m \in S : \A k \in S : m <= k
<1> DEFINE R == {p \in Nat \X Nat : p[1] < p[2]}
<1>1. IsWellFoundedOn(R, Nat)
  BY NatLessThanWellFounded DEF OpToRel
<1> HIDE DEF R
<1>2. PICK m \in S : \A k \in S : ~(<<k, m>> \in R)
  BY Zenon, <1>1, WFMin
<1>3. \A k \in S : ~(k < m)
  BY Zenon, <1>2 DEF R
<1> QED
  BY <1>3

TableRec == [id : Ids, ver : Nat, size : Nat, secret : BOOLEAN]

\* A firmware's list holds at most MaxTables tables, each with a slot of some size.
LEMMA FirmwareTables ==
  ASSUME NEW ts \in Firmwares
  PROVE  /\ ts \in Seq(TableRec) /\ Len(ts) \in Nat /\ Len(ts) \in 1 .. MaxTables
         /\ DOMAIN ts = 1 .. Len(ts)
         /\ \A i \in 1 .. Len(ts) : /\ ts[i] \in TableRec /\ ts[i] \in Known
                                     /\ Slot(ts[i]) \in Nat
<1>1. ts \in Seq(TableRec) /\ Len(ts) \in 1 .. MaxTables /\ MaxTables \in Nat
  BY Zenon, DbConstants, FirmwaresFit DEF TableRec
<1>2. \A i \in 1 .. Len(ts) : ts[i] \in TableRec
  BY <1>1
<1>3. \A i \in 1 .. Len(ts) : ts[i] \in Known
  BY DEF Known
<1>4. \A t \in TableRec : Slot(t) \in Nat
  BY DEF TableRec, Slot, SealOverhead
<1> QED
  BY <1>1, <1>2, <1>3, <1>4, LenProperties

\* The recursive definition of Offsets does define a function.
LEMMA OffsetsExist ==
  ASSUME NEW ts \in Firmwares
  PROVE  \E f : f = [i \in 1 .. Len(ts) |-> IF i = 1 THEN 1 ELSE f[i - 1] + Slot(ts[i - 1])]
<1> DEFINE Upto(k, f) == f = [i \in 1 .. k |-> IF i = 1 THEN 1 ELSE f[i - 1] + Slot(ts[i - 1])]
           Bad == {k \in Nat : ~ \E f : Upto(k, f)}
<1>1. Len(ts) \in Nat
  BY FirmwareTables
<1>2. Bad = {}
  <2> SUFFICES ASSUME Bad # {} PROVE FALSE
    OBVIOUS
  <2>1. PICK m \in Bad : \A k \in Bad : m <= k
    BY Zenon, LeastNat
  <2>2. m # 0
    <3>1. Upto(0, <<>>)
      OBVIOUS
    <3> QED
      BY Zenon, <3>1
  <2>3. m - 1 \in Nat /\ m - 1 \notin Bad
    <3>1. m \in Nat
      OBVIOUS
    <3> HIDE DEF Bad
    <3> QED
      BY <3>1, <2>1, <2>2
  <2>4. PICK g : Upto(m - 1, g)
    BY <2>3
  <2> DEFINE h == [i \in 1 .. m |-> IF i = m THEN IF i = 1 THEN 1 ELSE g[i - 1] + Slot(ts[i - 1]) ELSE g[i]]
  <2>5. \A i \in 1 .. m : i # 1 => h[i - 1] = g[i - 1]
    BY <2>1
  <2>6. \A i \in 1 .. m : h[i] = IF i = 1 THEN 1 ELSE h[i - 1] + Slot(ts[i - 1])
    <3> SUFFICES ASSUME NEW i \in 1 .. m PROVE h[i] = IF i = 1 THEN 1 ELSE h[i - 1] + Slot(ts[i - 1])
      OBVIOUS
    <3>1. CASE i = m
      BY <3>1, <2>5
    <3>2. CASE i # m
      <4>1. i \in 1 .. m - 1
        BY <3>2, <2>1
      <4>2. g[i] = IF i = 1 THEN 1 ELSE g[i - 1] + Slot(ts[i - 1])
        BY <4>1, <2>4
      <4> QED
        BY <4>2, <3>2, <2>5
    <3> QED
      BY <3>1, <3>2
  <2>7. Upto(m, h)
    BY <2>6
  <2> QED
    BY Zenon, <2>7, <2>1
<1> QED
  BY <1>1, <1>2

\* What db_slot_for and the packing loop of format() compute, one table at a time.
LEMMA OffsetsStep ==
  ASSUME NEW ts \in Firmwares, NEW i \in 1 .. Len(ts)
  PROVE  Offsets(ts)[i] = IF i = 1 THEN 1 ELSE Offsets(ts)[i - 1] + Slot(ts[i - 1])
<1> DEFINE E(f) == f = [k \in 1 .. Len(ts) |-> IF k = 1 THEN 1 ELSE f[k - 1] + Slot(ts[k - 1])]
<1>1. Offsets(ts) = CHOOSE f : E(f)
  BY DEF Offsets
<1>2. \E f : E(f)
  BY OffsetsExist
<1>3. E(Offsets(ts))
  BY Zenon, <1>1, <1>2
<1> QED
  BY <1>3

\* Offsets are positive: the payload area starts at cell 1.
LEMMA OffsetsNat ==
  ASSUME NEW ts \in Firmwares
  PROVE  \A i \in 1 .. Len(ts) : Offsets(ts)[i] \in Nat \ {0}
<1> DEFINE Bad == {i \in 1 .. Len(ts) : Offsets(ts)[i] \notin Nat \ {0}}
<1> SUFFICES ASSUME Bad # {} PROVE FALSE
  OBVIOUS
<1>0. Len(ts) \in Nat /\ \A i \in 1 .. Len(ts) : Slot(ts[i]) \in Nat
  BY FirmwareTables
<1>1. PICK m \in Bad : \A k \in Bad : m <= k
  <2>1. Bad \subseteq Nat
    OBVIOUS
  <2> HIDE DEF Bad
  <2> QED
    BY Zenon, LeastNat, <2>1
<1>2. CASE m = 1
  BY <1>2, <1>1, OffsetsStep
<1>3. CASE m # 1
  <2>1. m - 1 \in 1 .. Len(ts) /\ m - 1 \notin Bad
    BY <1>3, <1>1, <1>0
  <2>2. Offsets(ts)[m - 1] \in Nat \ {0} /\ Slot(ts[m - 1]) \in Nat
    BY <2>1, <1>0
  <2>3. Offsets(ts)[m] = Offsets(ts)[m - 1] + Slot(ts[m - 1])
    BY <1>3, OffsetsStep
  <2> QED
    BY <2>2, <2>3
<1> QED
  BY <1>2, <1>3

\* A slot ends before any later one begins.
LEMMA SlotsInOrder ==
  ASSUME NEW ts \in Firmwares, NEW i \in 1 .. Len(ts)
  PROVE  \A j \in 1 .. Len(ts) : i < j => Offsets(ts)[i] + Slot(ts[i]) <= Offsets(ts)[j]
<1> DEFINE Bad == {j \in 1 .. Len(ts) : i < j /\ ~(Offsets(ts)[i] + Slot(ts[i]) <= Offsets(ts)[j])}
<1> SUFFICES ASSUME Bad # {} PROVE FALSE
  OBVIOUS
<1>0. /\ Len(ts) \in Nat
      /\ \A k \in 1 .. Len(ts) : Slot(ts[k]) \in Nat /\ Offsets(ts)[k] \in Nat
  BY FirmwareTables, OffsetsNat
<1>1. PICK m \in Bad : \A k \in Bad : m <= k
  <2>1. Bad \subseteq Nat
    OBVIOUS
  <2> HIDE DEF Bad
  <2> QED
    BY Zenon, LeastNat, <2>1
<1>2. m - 1 \in 1 .. Len(ts) /\ m - 1 \notin Bad /\ m # 1 /\ i <= m - 1
  BY <1>1, <1>0
<1>3. Offsets(ts)[m] = Offsets(ts)[m - 1] + Slot(ts[m - 1])
  BY <1>2, OffsetsStep
<1>4. i = m - 1 \/ Offsets(ts)[i] + Slot(ts[i]) <= Offsets(ts)[m - 1]
  BY <1>2
<1> HIDE DEF Bad
<1>5. Offsets(ts)[i] + Slot(ts[i]) <= Offsets(ts)[m]
  BY <1>0, <1>2, <1>3, <1>4
<1> QED
  BY <1>1, <1>5 DEF Bad

----------------------------------------------------------------------------
(* Directories.                                                            *)

\* find_entry returns the first entry that carries the id.
LEMMA FindFirst ==
  ASSUME NEW dir, NEW n \in Nat, DOMAIN dir = 1 .. n, NEW id, Has(dir, id)
  PROVE  /\ Find(dir, id) \in 1 .. n
         /\ dir[Find(dir, id)].id = id
         /\ \A j \in 1 .. Find(dir, id) - 1 : dir[j].id # id
<1> DEFINE S == {i \in 1 .. n : dir[i].id = id}
<1>1. S \subseteq Nat /\ S # {}
  BY DEF Has
<1>2. PICK m \in S : \A k \in S : m <= k
  <2> HIDE DEF S
  <2> QED
    BY Zenon, LeastNat, <1>1
<1>3. m \in DOMAIN dir /\ dir[m].id = id /\ \A j \in 1 .. m - 1 : dir[j].id # id
  BY <1>2
<1> QED
  BY <1>3 DEF Find

\* What find_entry returns depends on the ids alone.
LEMMA FindSame ==
  ASSUME NEW d, NEW e, NEW n \in Nat, DOMAIN d = 1 .. n, DOMAIN e = 1 .. n,
         \A i \in 1 .. n : d[i].id = e[i].id,
         NEW id, Has(d, id)
  PROVE  Has(e, id) /\ Find(e, id) = Find(d, id)
<1>1. Has(e, id)
  BY DEF Has
<1>2. /\ Find(d, id) \in 1 .. n /\ d[Find(d, id)].id = id
      /\ \A j \in 1 .. Find(d, id) - 1 : d[j].id # id
  BY FindFirst
<1>3. /\ Find(e, id) \in 1 .. n /\ e[Find(e, id)].id = id
      /\ \A j \in 1 .. Find(e, id) - 1 : e[j].id # id
  BY <1>1, FindFirst
<1>4. ~(Find(d, id) < Find(e, id)) /\ ~(Find(e, id) < Find(d, id))
  BY <1>2, <1>3
<1> QED
  BY <1>1, <1>2, <1>3, <1>4

\* geometry_matches depends on ids and slot lengths alone.
LEMMA MatchKept ==
  ASSUME NEW d, NEW e, NEW n \in Nat, DOMAIN d = 1 .. n, DOMAIN e = 1 .. n,
         Len(d) = Len(e),
         \A i \in 1 .. n : d[i].id = e[i].id /\ d[i].cap = e[i].cap,
         NEW ts, GeometryMatches(d, ts)
  PROVE  GeometryMatches(e, ts)
<1>1. Len(e) = Len(ts)
  BY DEF GeometryMatches
<1>2. ASSUME NEW i \in DOMAIN ts
      PROVE  Has(e, ts[i].id) /\ e[Find(e, ts[i].id)].cap = Slot(ts[i])
  <2>1. Has(d, ts[i].id) /\ d[Find(d, ts[i].id)].cap = Slot(ts[i])
    BY DEF GeometryMatches
  <2>2. Has(e, ts[i].id) /\ Find(e, ts[i].id) = Find(d, ts[i].id)
    BY <2>1, FindSame
  <2>3. Find(d, ts[i].id) \in 1 .. n
    BY <2>1, FindFirst
  <2> QED
    BY <2>1, <2>2, <2>3
<1> QED
  BY <1>1, <1>2 DEF GeometryMatches

\* A directory that carries a firmware's tables in order has its geometry.
LEMMA MatchesOwn ==
  ASSUME NEW ts \in Firmwares, NEW d, DOMAIN d = 1 .. Len(ts), Len(d) = Len(ts),
         \A i \in 1 .. Len(ts) : d[i].id = ts[i].id /\ d[i].cap = Slot(ts[i])
  PROVE  GeometryMatches(d, ts)
<1>0. Len(ts) \in Nat /\ DOMAIN ts = 1 .. Len(ts)
  BY FirmwareTables
<1>1. ASSUME NEW i \in DOMAIN ts
      PROVE  Has(d, ts[i].id) /\ d[Find(d, ts[i].id)].cap = Slot(ts[i])
  <2>1. Has(d, ts[i].id)
    BY <1>0 DEF Has
  <2>2. Find(d, ts[i].id) \in 1 .. Len(ts) /\ d[Find(d, ts[i].id)].id = ts[i].id
    BY <1>0, <2>1, FindFirst
  <2>3. Find(d, ts[i].id) = i
    BY <1>0, <2>2, FirmwaresFit
  <2> QED
    BY <1>0, <2>1, <2>3
<1> QED
  BY <1>1 DEF GeometryMatches

\* An empty entry, as format() makes it, fits the medium.
LEMMA EmptyEntryGood ==
  ASSUME NEW ts \in Firmwares, NEW i \in 1 .. Len(ts)
  PROVE  /\ EmptyEntry(ts, i) \in Entries
         /\ EmptyEntry(ts, i).id = ts[i].id
         /\ EmptyEntry(ts, i).off = Offsets(ts)[i]
         /\ EmptyEntry(ts, i).cap = Slot(ts[i])
<1>1. ts[i] \in TableRec /\ Slot(ts[i]) \in Nat
  BY FirmwareTables
<1>2. Offsets(ts)[i] \in Nat \ {0} /\ Offsets(ts)[i] + Slot(ts[i]) - 1 <= Capacity
  BY OffsetsNat, FirmwaresFit
<1>3. EmptyEntry(ts, i) \in Entry
  BY <1>1, <1>2 DEF EmptyEntry, Entry, Checksums, TableRec
<1>4. Describes(EmptyEntry(ts, i)) /\ Fits(EmptyEntry(ts, i))
  BY <1>1, <1>2 DEF EmptyEntry, Describes, Fits, Stored
<1> QED
  BY <1>3, <1>4 DEF Entries, EmptyEntry

\* The unused entry of a blank directory describes nothing.
LEMMA NoEntryGood == NoEntry \in Entries
<1>1. NoEntry \in Entry
  BY DEF NoEntry, Entry, Checksums
<1>2. Describes(NoEntry) /\ Fits(NoEntry)
  BY DbConstants DEF NoEntry, Describes, Fits, Stored
<1> QED
  BY <1>1, <1>2 DEF Entries

\* repack() gives a table its new slot, whatever it carries into it, and an
\* entry that describes the record it carries.
LEMMA RepackedEntryGood ==
  ASSUME NEW old \in Seq(Entries), NEW e \in Entries
  PROVE  /\ RepackedEntry(old, e) \in Entries
         /\ RepackedEntry(old, e).id = e.id
         /\ RepackedEntry(old, e).off = e.off
         /\ RepackedEntry(old, e).cap = e.cap
<1>1. CASE ~Carried(old, e)
  BY <1>1 DEF RepackedEntry
<1>2. CASE Carried(old, e)
  <2> DEFINE o == old[Find(old, e.id)]
             r == [e EXCEPT !.len = o.len, !.crc = o.crc, !.ver = o.ver]
  <2>1. Has(old, e.id) /\ o.sealed = e.sealed /\ Stored(o) <= e.cap
    BY <1>2 DEF Carried
  <2>2. Len(old) \in Nat /\ DOMAIN old = 1 .. Len(old)
    BY LenProperties
  <2>3. Find(old, e.id) \in 1 .. Len(old) /\ o.id = e.id
    BY <2>1, <2>2, FindFirst
  <2>4. o \in Entries
    BY <2>2, <2>3
  <2>5. RepackedEntry(old, e) = r
    BY <1>2 DEF RepackedEntry
  <2> HIDE DEF o
  <2>6. e \in Entry /\ o \in Entry /\ Fits(e) /\ Describes(o)
    BY <2>4 DEF Entries
  <2>7. /\ r \in Entry /\ r.id = e.id /\ r.off = e.off /\ r.cap = e.cap
        /\ r.sealed = e.sealed /\ r.len = o.len /\ r.crc = o.crc
    BY Zenon, <2>6 DEF Entry
  <2> HIDE DEF r
  <2>8. Fits(r)
    BY <2>1, <2>6, <2>7 DEF Fits, Stored
  <2>9. Describes(r)
    BY <2>1, <2>3, <2>6, <2>7 DEF Describes
  <2> QED
    BY <2>5, <2>7, <2>8, <2>9 DEF Entries
<1> QED
  BY <1>1, <1>2

----------------------------------------------------------------------------
(* Store calls.                                                            *)

\* Store w is what call c makes of the number and the entries in store s.
Wrote(s, c, w) ==
  /\ w.super = IF c.call = "super" THEN c.at ELSE s.super
  /\ \A i \in 1 .. MaxTables :
       w.dir[i] = IF c.call = "entry" /\ i = c.at THEN c.entry ELSE s.dir[i]

\* What one call of the store leaves behind.
LEMMA WrittenStore ==
  ASSUME NEW s, StoreGenuine(s), NEW c, NEW r, CallGenuine(c, r),
         c.call = "entry" => c.at \in 1 .. MaxTables
  PROVE  StoreGenuine(Written(s, c)) /\ Wrote(s, c, Written(s, c))
<1>0. /\ c.call \in {"cells", "entry", "super", "flush"}
      /\ DOMAIN s = {"super", "dir", "cells"}
  BY DEF CallGenuine, StoreGenuine
<1>1. CASE c.call = "cells"
  <2> DEFINE new == [p \in 1 .. Capacity |->
                       IF p \in c.at .. c.at + Len(c.data) - 1
                       THEN c.data[p - c.at + 1] ELSE s.cells[p]]
             w == [s EXCEPT !.cells = new]
  <2>1. Written(s, c) = w
    BY <1>1 DEF Written
  <2>2. \A p \in 1 .. Capacity : TagGenuine(new[p])
    <3> SUFFICES ASSUME NEW p \in 1 .. Capacity PROVE TagGenuine(new[p])
      OBVIOUS
    <3>1. TagGenuine(s.cells[p])
      BY DEF StoreGenuine
    <3>2. c.at \in Nat /\ Len(c.data) \in Nat /\ \A j \in 1 .. Len(c.data) : TagGenuine(c.data[j])
      BY <1>1 DEF CallGenuine
    <3>3. CASE p \in c.at .. c.at + Len(c.data) - 1
      <4>1. p - c.at + 1 \in 1 .. Len(c.data) /\ new[p] = c.data[p - c.at + 1]
        BY <3>2, <3>3, DbConstants
      <4> QED
        BY <4>1, <3>2
    <3>4. CASE p \notin c.at .. c.at + Len(c.data) - 1
      BY <3>1, <3>4
    <3> QED
      BY <3>3, <3>4
  <2>3. DOMAIN new = 1 .. Capacity
    OBVIOUS
  <2> HIDE DEF new
  <2>4. w.cells = new /\ w.super = s.super /\ w.dir = s.dir /\ DOMAIN w = DOMAIN s
    BY <1>0
  <2> HIDE DEF w
  <2> QED
    BY <1>1, <2>1, <2>2, <2>3, <2>4 DEF StoreGenuine, Wrote
<1>2. CASE c.call = "entry"
  <2> DEFINE w == [s EXCEPT !.dir[c.at] = c.entry]
  <2>1. Written(s, c) = w
    BY <1>2 DEF Written
  <2>2. s.dir \in [1 .. MaxTables -> Entries] /\ c.entry \in Entries
    BY <1>2 DEF StoreGenuine, CallGenuine
  <2>3. /\ w.cells = s.cells /\ w.super = s.super /\ DOMAIN w = DOMAIN s
        /\ w.dir = [s.dir EXCEPT ![c.at] = c.entry]
    BY <1>0
  <2> HIDE DEF w
  <2>4. w.dir \in [1 .. MaxTables -> Entries]
    BY Zenon, <2>2, <2>3
  <2>5. \A i \in 1 .. MaxTables : w.dir[i] = IF i = c.at THEN c.entry ELSE s.dir[i]
    BY Zenon, <2>2, <2>3
  <2> QED
    BY <1>2, <2>1, <2>3, <2>4, <2>5 DEF StoreGenuine, Wrote
<1>3. CASE c.call = "super"
  <2> DEFINE w == [s EXCEPT !.super = c.at]
  <2>1. Written(s, c) = w
    BY <1>3 DEF Written
  <2>2. c.at \in 0 .. MaxTables
    BY <1>3 DEF CallGenuine
  <2>3. w.cells = s.cells /\ w.super = c.at /\ w.dir = s.dir /\ DOMAIN w = DOMAIN s
    BY <1>0
  <2> HIDE DEF w
  <2> QED
    BY <1>3, <2>1, <2>2, <2>3 DEF StoreGenuine, Wrote
<1>4. CASE c.call = "flush"
  BY <1>4 DEF Written, Wrote
<1> QED
  BY <1>0, <1>1, <1>2, <1>3, <1>4

\* A sequence over any set is a queue.
LEMMA QueueOf ==
  ASSUME NEW S, NEW s \in Seq(S)
  PROVE  IsQueue(s) /\ Len(s) \in Nat /\ DOMAIN s = 1 .. Len(s)
  BY SeqOfRange, RangeEquality, LenProperties DEF IsQueue

\* What is left of a queue once its first call was made.
LEMMA QueueTail ==
  ASSUME NEW s, IsQueue(s), s # <<>>
  PROVE  /\ IsQueue(Tail(s)) /\ Len(s) \in Nat \ {0} /\ Len(Tail(s)) = Len(s) - 1
         /\ Head(s) = s[1]
         /\ \A i \in 1 .. Len(s) - 1 : Tail(s)[i] = s[i + 1]
<1>1. PICK S : s \in Seq(S)
  BY DEF IsQueue
<1>2. /\ Tail(s) \in Seq(S) /\ Len(Tail(s)) = Len(s) - 1
      /\ \A i \in 1 .. Len(Tail(s)) : Tail(s)[i] = s[i + 1]
  BY <1>1, HeadTailProperties
<1>3. Len(s) \in Nat \ {0} /\ Head(s) = s[1]
  BY <1>1
<1> QED
  BY Zenon, <1>2, <1>3, QueueOf

\* One queue after another.
LEMMA QueueJoin ==
  ASSUME NEW s, IsQueue(s), NEW t, IsQueue(t)
  PROVE  /\ IsQueue(s \o t) /\ Len(s) \in Nat /\ Len(t) \in Nat
         /\ Len(s \o t) = Len(s) + Len(t)
         /\ \A i \in 1 .. Len(s) : (s \o t)[i] = s[i]
         /\ \A i \in 1 .. Len(t) : (s \o t)[Len(s) + i] = t[i]
<1> DEFINE S == {s[k] : k \in 1 .. Len(s)} \cup {t[k] : k \in 1 .. Len(t)}
<1>1. s \in Seq({s[k] : k \in 1 .. Len(s)}) /\ t \in Seq({t[k] : k \in 1 .. Len(t)})
  BY DEF IsQueue
<1>2. s \in Seq(S) /\ t \in Seq(S)
  BY <1>1, SeqMonotonic
<1> HIDE DEF S
<1>3. /\ s \o t \in Seq(S) /\ Len(s \o t) = Len(s) + Len(t)
      /\ \A i \in 1 .. Len(s) + Len(t) : (s \o t)[i] = IF i <= Len(s) THEN s[i] ELSE t[i - Len(s)]
  BY <1>2, ConcatProperties
<1>4. Len(s) \in Nat /\ Len(t) \in Nat
  BY <1>2
<1>5. \A i \in 1 .. Len(s) : (s \o t)[i] = s[i]
  BY <1>3, <1>4
<1>6. \A i \in 1 .. Len(t) : (s \o t)[Len(s) + i] = t[i]
  BY <1>3, <1>4
<1> QED
  BY Zenon, <1>3, <1>4, <1>5, <1>6, QueueOf

\* write_directory: every entry in order, the superblock, the flush.
LEMMA DirectoryCalls ==
  ASSUME NEW d, Len(d) \in Nat
  PROVE  LET w == WriteDirectory(d) IN
         /\ IsQueue(w) /\ Len(w) = Len(d) + 2
         /\ \A k \in 1 .. Len(d) : w[k] = WriteEntry(k, d[k])
         /\ w[Len(d) + 1] = WriteSuper(Len(d))
         /\ w[Len(d) + 2] = Flush
<1> DEFINE s == [i \in 1 .. Len(d) |-> WriteEntry(i, d[i])]
           t == <<WriteSuper(Len(d)), Flush>>
<1>1. IsQueue(s) /\ Len(s) = Len(d) /\ \A k \in 1 .. Len(d) : s[k] = WriteEntry(k, d[k])
  <2>1. s \in Seq({WriteEntry(i, d[i]) : i \in 1 .. Len(d)}) /\ Len(s) = Len(d)
    OBVIOUS
  <2> QED
    BY Zenon, <2>1, QueueOf
<1>2. IsQueue(t) /\ Len(t) = 2 /\ t[1] = WriteSuper(Len(d)) /\ t[2] = Flush
  <2>1. t \in Seq({WriteSuper(Len(d)), Flush})
    OBVIOUS
  <2> QED
    BY Zenon, <2>1, QueueOf
<1>3. WriteDirectory(d) = s \o t
  BY DEF WriteDirectory
<1> HIDE DEF s, t
<1>0. IsQueue(s) /\ IsQueue(t)
  BY <1>1, <1>2
<1>4. IsQueue(s \o t)
  BY <1>0, QueueJoin
<1>5. Len(s \o t) = Len(s) + Len(t)
  BY <1>0, QueueJoin
<1>6. \A k \in 1 .. Len(s) : (s \o t)[k] = s[k]
  BY <1>0, QueueJoin
<1>7. \A k \in 1 .. Len(t) : (s \o t)[Len(s) + k] = t[k]
  BY <1>0, QueueJoin
<1> DEFINE w == s \o t
<1> HIDE DEF w
<1>8. w[Len(d) + 1] = t[1] /\ w[Len(d) + 2] = t[2]
  <2>1. \A k \in 1 .. Len(t) : w[Len(d) + k] = t[k]
    BY <1>1, <1>7 DEF w
  <2>2. 1 \in 1 .. Len(t) /\ 2 \in 1 .. Len(t)
    BY <1>2
  <2> QED
    BY <2>1, <2>2
<1> QED
  BY <1>1, <1>2, <1>3, <1>4, <1>5, <1>6, <1>8 DEF w

\* A record that repack() lifts is written as it was read: its cells are cells
\* of the medium.
LEMMA LiftGood ==
  ASSUME StoreGenuine(view), NEW o \in Entries, NEW at \in Nat, NEW r
  PROVE  LET c == WriteCells(at, CellsAt(o.off, Stored(o)))
         IN  c.call = "cells" /\ CallGenuine(c, r)
<1> DEFINE n == Stored(o)
           data == CellsAt(o.off, n)
           S == {view.cells[p] : p \in 1 .. Capacity}
<1>1. o.off \in Nat \ {0} /\ o.cap \in Nat /\ n \in Nat /\ o.off + n - 1 <= Capacity
  BY DbConstants DEF Entries, Entry, Fits, Stored, SealOverhead
<1> HIDE DEF n
<1>2. \A i \in o.off .. o.off + n - 1 : view.cells[i] \in S
  BY <1>1, DbConstants
<1> HIDE DEF S
<1>3. /\ data \in Seq(S)
      /\ Len(data) = IF o.off <= o.off + n - 1 THEN n ELSE 0
  BY <1>1, <1>2, SubSeqProperties DEF CellsAt
<1>4. \A c \in S : TagGenuine(c)
  BY DEF S, StoreGenuine
<1>5. Len(data) \in Nat /\ \A j \in 1 .. Len(data) : TagGenuine(data[j])
  BY <1>3, <1>4
<1> HIDE DEF data
<1> QED
  BY <1>5 DEF WriteCells, CallGenuine, n, data

\* The moves of a repack are writes of whole records and nothing else.
LEMMA MovesGood ==
  ASSUME StoreGenuine(view), NEW old \in Seq(Entries), NEW dir \in Seq(Entries), NEW r
  PROVE  /\ IsQueue(Moves(old, dir))
         /\ \A k \in 1 .. Len(Moves(old, dir)) :
              Moves(old, dir)[k].call = "cells" /\ CallGenuine(Moves(old, dir)[k], r)
<1> DEFINE from(i) == old[Find(old, dir[i].id)]
           moved(i) == Carried(old, dir[i]) /\ from(i).off # dir[i].off
           w(i) == WriteCells(dir[i].off, CellsAt(from(i).off, Stored(from(i))))
           H(i, x) == IF moved(i) THEN Append(x, w(i)) ELSE x
           Upto(k, f) == f = [i \in 0 .. k |-> IF i = 0 THEN <<>> ELSE H(i, f[i - 1])]
           Good(s) == /\ IsQueue(s)
                      /\ \A k \in 1 .. Len(s) : s[k].call = "cells" /\ CallGenuine(s[k], r)
           n == Len(dir)
<1>0. n \in Nat /\ DOMAIN dir = 1 .. n /\ Len(old) \in Nat /\ DOMAIN old = 1 .. Len(old)
  BY LenProperties
<1>1. \A i \in 1 .. n : moved(i) => w(i).call = "cells" /\ CallGenuine(w(i), r)
  <2> SUFFICES ASSUME NEW i \in 1 .. n, moved(i) PROVE w(i).call = "cells" /\ CallGenuine(w(i), r)
    OBVIOUS
  <2>1. Find(old, dir[i].id) \in 1 .. Len(old)
    BY Zenon, <1>0, FindFirst DEF Carried
  <2>2. from(i) \in Entries /\ dir[i] \in Entries
    BY <1>0, <2>1
  <2>3. dir[i].off \in Nat
    BY <2>2 DEF Entries, Entry
  <2> QED
    BY Zenon, <2>2, <2>3, LiftGood
<1>2. Moves(old, dir) = (CHOOSE f : Upto(n, f))[n]
  BY DEF Moves
<1> HIDE DEF moved, w, n
<1>3. \E f : Upto(n, f)
  <2> DEFINE Bad == {k \in Nat : ~ \E f : Upto(k, f)}
  <2>1. SUFFICES ASSUME Bad # {} PROVE FALSE
    BY Zenon, <1>0
  <2>2. PICK m \in Bad : \A k \in Bad : m <= k
    <3>1. Bad \subseteq Nat
      OBVIOUS
    <3> HIDE DEF Bad
    <3> QED
      BY Zenon, LeastNat, <2>1, <3>1
  <2>3. m \in Nat
    OBVIOUS
  <2>4. m # 0
    <3>1. Upto(0, [i \in 0 .. 0 |-> <<>>])
      OBVIOUS
    <3> QED
      BY Zenon, <3>1
  <2>5. m - 1 \in Nat /\ m - 1 \notin Bad
    <3> HIDE DEF Bad
    <3> QED
      BY <2>2, <2>3, <2>4
  <2>6. PICK g : Upto(m - 1, g)
    BY <2>5
  <2> HIDE DEF H
  <2> DEFINE h == [i \in 0 .. m |-> IF i = m THEN H(m, g[m - 1]) ELSE g[i]]
  <2>7. \A i \in 0 .. m : h[i] = IF i = 0 THEN <<>> ELSE H(i, h[i - 1])
    <3> SUFFICES ASSUME NEW i \in 0 .. m PROVE h[i] = IF i = 0 THEN <<>> ELSE H(i, h[i - 1])
      BY Zenon
    <3>1. CASE i = m
      <4>1. h[i - 1] = g[m - 1] /\ h[i] = H(m, g[m - 1])
        BY <3>1, <2>3, <2>4
      <4> QED
        BY <4>1, <3>1, <2>4
    <3>2. CASE i # m
      <4>1. i \in 0 .. m - 1 /\ h[i] = g[i] /\ (i # 0 => h[i - 1] = g[i - 1])
        BY <3>2, <2>3
      <4>2. g[i] = IF i = 0 THEN <<>> ELSE H(i, g[i - 1])
        BY <4>1, <2>6
      <4> QED
        BY <4>1, <4>2
    <3> QED
      BY <3>1, <3>2
  <2>8. Upto(m, h)
    BY <2>7
  <2> QED
    BY Zenon, <2>8, <2>2
<1>4. PICK f : f = (CHOOSE g : Upto(n, g)) /\ Upto(n, f)
  BY Zenon, <1>3
<1>5. \A i \in 1 .. n : Good(f[i - 1]) => Good(H(i, f[i - 1]))
  <2> SUFFICES ASSUME NEW i \in 1 .. n, NEW s, Good(s) PROVE Good(H(i, s))
    BY Zenon
  <2>1. CASE moved(i)
    <3> DEFINE S == {s[k] : k \in 1 .. Len(s)} \cup {w(i)}
    <3>1. s \in Seq(S) /\ w(i) \in S
      BY SeqMonotonic DEF IsQueue
    <3> HIDE DEF S
    <3>2. /\ Append(s, w(i)) \in Seq(S) /\ Len(Append(s, w(i))) = Len(s) + 1
          /\ \A k \in 1 .. Len(s) : Append(s, w(i))[k] = s[k]
          /\ Append(s, w(i))[Len(s) + 1] = w(i)
      BY <3>1, AppendProperties
    <3>3. IsQueue(Append(s, w(i))) /\ Len(s) \in Nat
      BY Zenon, <3>1, <3>2, QueueOf
    <3>4. \A k \in 1 .. Len(s) + 1 : Append(s, w(i))[k].call = "cells" /\ CallGenuine(Append(s, w(i))[k], r)
      BY <3>2, <3>3, <2>1, <1>1
    <3> QED
      BY <3>2, <3>3, <3>4, <2>1
  <2> QED
    BY <2>1
<1>6. Good(f[n])
  <2> DEFINE Bad == {k \in 0 .. n : ~Good(f[k])}
  <2>1. Good(<<>>)
    <3>1. IsQueue(<<>>) /\ Len(<<>>) = 0
      BY Zenon, QueueOf, EmptySeq
    <3> QED
      BY <3>1
  <2> HIDE DEF Good, H
  <2>2. SUFFICES ASSUME Bad # {} PROVE FALSE
    BY <1>0 DEF n
  <2>3. PICK m \in Bad : \A k \in Bad : m <= k
    <3>1. Bad \subseteq Nat
      OBVIOUS
    <3> HIDE DEF Bad
    <3> QED
      BY Zenon, LeastNat, <2>2, <3>1
  <2>4. f[m] = IF m = 0 THEN <<>> ELSE H(m, f[m - 1])
    BY Zenon, <1>4
  <2>5. m # 0
    BY <2>1, <2>4
  <2>6. m \in 1 .. n /\ m - 1 \in 0 .. n /\ ~(m <= m - 1)
    BY <2>5, <1>0 DEF n
  <2>7. Good(f[m - 1])
    BY <2>3, <2>6
  <2> QED
    BY <2>4, <2>5, <2>6, <2>7, <1>5
<1>7. Moves(old, dir) = f[n]
  BY <1>2, <1>4
<1> QED
  BY <1>6, <1>7

\* seal_record writes a nonce, a ciphertext and a tag that are a record of the
\* table; the tag is taken over that very nonce and ciphertext.
LEMMA SealGood ==
  ASSUME NEW e \in Entries, NEW t \in Known, t \in TableRec, t.secret, NEW v \in Values, NEW n, NEW r
  PROVE  /\ IsQueue(SealCalls(e, t, v, n))
         /\ \A k \in 1 .. Len(SealCalls(e, t, v, n)) :
              /\ SealCalls(e, t, v, n)[k].call = "cells"
              /\ CallGenuine(SealCalls(e, t, v, n)[k], r)
<1> DEFINE tag == TagCell(NonceCell(n), Cipher(t, v, n))
           a == <<WriteCells(e.off, <<NonceCell(n)>>)>>
           b == [i \in 1 .. t.size |-> WriteCells(e.off + i, <<Cipher(t, v, n)[i]>>)]
           c == <<WriteCells(e.off + 1 + t.size, <<tag>>)>>
           Good(s) == \A k \in 1 .. Len(s) : s[k].call = "cells" /\ CallGenuine(s[k], r)
<1>0. e.off \in Nat /\ t.size \in Nat
  BY DEF Entries, Entry, TableRec
<1>1. ASSUME NEW at \in Nat, NEW x, TagGenuine(x)
      PROVE  WriteCells(at, <<x>>).call = "cells" /\ CallGenuine(WriteCells(at, <<x>>), r)
  BY <1>1 DEF WriteCells, CallGenuine
<1>2. TagGenuine(NonceCell(n))
  BY DEF TagGenuine, NonceCell, Cell
<1>3. \A i \in 1 .. t.size : TagGenuine(Cipher(t, v, n)[i])
  BY DEF TagGenuine, Cipher, CipherCell, Cell
<1>4. TagGenuine(tag)
  <2>1. NonceOf(tag) = n
    BY DEF TagCell, NonceCell, Cell, NonceOf
  <2>2. tag[4] = Cipher(t, v, n)
    BY DEF TagCell
  <2> QED
    BY <2>1, <2>2 DEF TagGenuine
<1> HIDE DEF tag
<1>5. IsQueue(a) /\ Good(a)
  <2>1. a \in Seq({a[1]}) /\ Len(a) = 1
    OBVIOUS
  <2>2. a[1].call = "cells" /\ CallGenuine(a[1], r)
    BY <1>0, <1>1, <1>2
  <2> HIDE DEF a
  <2> QED
    BY <2>1, <2>2, QueueOf
<1>6. IsQueue(b) /\ Good(b)
  <2> DEFINE x(i) == WriteCells(e.off + i, <<Cipher(t, v, n)[i]>>)
  <2>1. b \in Seq({x(i) : i \in 1 .. t.size}) /\ Len(b) = t.size
    <3> HIDE DEF x
    <3>1. b = [i \in 1 .. t.size |-> x(i)]
      BY DEF x
    <3> HIDE DEF b
    <3> QED
      BY <1>0, <3>1
  <2>2. \A i \in 1 .. t.size : b[i].call = "cells" /\ CallGenuine(b[i], r)
    BY <1>0, <1>1, <1>3
  <2> HIDE DEF b
  <2> QED
    BY <2>1, <2>2, QueueOf
<1>7. IsQueue(c) /\ Good(c)
  <2>1. c \in Seq({c[1]}) /\ Len(c) = 1
    OBVIOUS
  <2>2. c[1].call = "cells" /\ CallGenuine(c[1], r)
    BY <1>0, <1>1, <1>4
  <2> HIDE DEF c
  <2> QED
    BY <2>1, <2>2, QueueOf
<1>8. SealCalls(e, t, v, n) = (a \o b) \o c
  BY DEF SealCalls, tag
<1> HIDE DEF a, b, c
<1>9. ASSUME NEW p, NEW q, IsQueue(p), IsQueue(q), Good(p), Good(q)
      PROVE  IsQueue(p \o q) /\ Good(p \o q)
  <2>1. /\ IsQueue(p \o q) /\ Len(p) \in Nat /\ Len(q) \in Nat
        /\ Len(p \o q) = Len(p) + Len(q)
    BY <1>9, QueueJoin
  <2>2. \A i \in 1 .. Len(p) : (p \o q)[i] = p[i]
    BY <1>9, QueueJoin
  <2>3. \A i \in 1 .. Len(q) : (p \o q)[Len(p) + i] = q[i]
    BY <1>9, QueueJoin
  <2> DEFINE w == p \o q
  <2>4. ASSUME NEW k \in 1 .. Len(w)
        PROVE  w[k].call = "cells" /\ CallGenuine(w[k], r)
    <3> HIDE DEF w
    <3>1. CASE k <= Len(p)
      BY <3>1, <2>1, <2>2, <1>9 DEF w
    <3>2. CASE ~(k <= Len(p))
      <4>1. k - Len(p) \in 1 .. Len(q) /\ Len(p) + (k - Len(p)) = k
        BY <3>2, <2>1 DEF w
      <4>2. w[k] = q[k - Len(p)]
        BY <4>1, <2>3 DEF w
      <4> QED
        BY <4>1, <4>2, <1>9
    <3> QED
      BY <3>1, <3>2
  <2> QED
    BY <2>1, <2>4
<1>10. IsQueue(a \o b) /\ Good(a \o b)
  BY <1>5, <1>6, <1>9
<1> QED
  BY Zenon, <1>7, <1>8, <1>9, <1>10

\* The entry write_record leaves.
WrittenEntry(e, t, v) ==
  [e EXCEPT !.len = t.size, !.ver = t.ver, !.crc = IF e.sealed THEN <<>> ELSE Plain(t, v)]

\* It describes the record written.
LEMMA WrittenEntryGood ==
  ASSUME NEW e \in Entries, NEW t \in Known, t \in TableRec, NEW v \in Values,
         t.id = e.id, e.sealed => t.secret,
         t.size + (IF e.sealed THEN SealOverhead ELSE 0) <= e.cap
  PROVE  LET w == WrittenEntry(e, t, v)
         IN  w \in Entries /\ w.id = e.id /\ w.cap = e.cap /\ w.off = e.off
<1> DEFINE crc == IF e.sealed THEN <<>> ELSE Plain(t, v)
           w == [e EXCEPT !.len = t.size, !.ver = t.ver, !.crc = crc]
<1>1. crc \in Checksums
  BY DEF Checksums
<1>2. e \in Entry /\ t.size \in Nat /\ t.ver \in Nat
  BY DEF Entries, TableRec
<1>3. ~e.sealed => crc = Plain(t, v)
  OBVIOUS
<1> HIDE DEF crc
<1>4. /\ w \in Entry /\ w.id = e.id /\ w.cap = e.cap /\ w.off = e.off
      /\ w.len = t.size /\ w.crc = crc /\ w.sealed = e.sealed
  BY Zenon, <1>1, <1>2 DEF Entry
<1> HIDE DEF w
<1>5. Fits(w)
  <2>1. Fits(e) /\ e.cap \in Nat
    BY DEF Entries, Entry
  <2> QED
    BY <2>1, <1>2, <1>4 DEF Fits, Stored, SealOverhead
<1>6. Describes(w)
  BY <1>3, <1>4 DEF Describes
<1> QED
  BY <1>4, <1>5, <1>6 DEF Entries, WrittenEntry, w, crc

\* clear_record: the entry keeps its slot and describes nothing.
LEMMA ClearedEntryGood ==
  ASSUME NEW e \in Entries
  PROVE  LET w == [e EXCEPT !.len = 0, !.crc = <<>>]
         IN  w \in Entries /\ w.id = e.id /\ w.cap = e.cap /\ w.off = e.off
<1> DEFINE w == [e EXCEPT !.len = 0, !.crc = <<>>]
<1>1. <<>> \in Checksums
  BY DEF Checksums
<1>2. e \in Entry /\ Fits(e)
  BY DEF Entries
<1>3. /\ w \in Entry /\ w.id = e.id /\ w.cap = e.cap /\ w.off = e.off /\ w.len = 0
  BY Zenon, <1>1, <1>2 DEF Entry
<1> HIDE DEF w
<1>4. Fits(w)
  BY <1>2, <1>3 DEF Fits, Stored, Entry
<1>5. Describes(w)
  BY <1>3 DEF Describes
<1> QED
  BY <1>3, <1>4, <1>5 DEF Entries, w

\* The calls of an operation on one record, which end in the one flush.
RecordQueue(q) ==
  /\ IsQueue(q) /\ Len(q) \in Nat \ {0}
  /\ \A k \in 1 .. Len(q) : /\ CallGenuine(q[k], ram) /\ q[k].call # "super"
                            /\ q[k].call = "flush" <=> k = Len(q)

\* The entry and the flush that end write_record and clear_record.
LEMMA ClosingCalls ==
  ASSUME NEW i \in 1 .. Len(ram), NEW w \in Entries, w.id = ram[i].id, w.cap = ram[i].cap,
         w.off = ram[i].off
  PROVE  LET z == <<WriteEntry(i, w), Flush>> IN RecordQueue(z) /\ Len(z) = 2
<1> DEFINE z == <<WriteEntry(i, w), Flush>>
<1>1. z \in Seq({z[1], z[2]}) /\ Len(z) = 2
  OBVIOUS
<1>2. CallGenuine(z[1], ram) /\ z[1].call = "entry" /\ CallGenuine(z[2], ram) /\ z[2].call = "flush"
  BY DEF WriteEntry, Flush, CallGenuine
<1> HIDE DEF z
<1>3. IsQueue(z)
  BY <1>1, QueueOf
<1> QED
  BY <1>1, <1>2, <1>3 DEF RecordQueue, z

\* Payload writes ahead of the entry and the flush.
LEMMA PayloadFirst ==
  ASSUME NEW p, IsQueue(p), \A k \in 1 .. Len(p) : p[k].call = "cells" /\ CallGenuine(p[k], ram),
         NEW z, RecordQueue(z)
  PROVE  RecordQueue(p \o z)
<1> DEFINE q == p \o z
<1>1. IsQueue(z) /\ Len(z) \in Nat \ {0}
  BY DEF RecordQueue
<1>2. IsQueue(q) /\ Len(p) \in Nat /\ Len(q) = Len(p) + Len(z)
  BY <1>1, QueueJoin
<1>3. \A i \in 1 .. Len(p) : q[i] = p[i]
  BY <1>1, QueueJoin
<1>4. \A i \in 1 .. Len(z) : q[Len(p) + i] = z[i]
  BY <1>1, QueueJoin
<1> HIDE DEF q
<1>5. ASSUME NEW k \in 1 .. Len(q)
      PROVE  CallGenuine(q[k], ram) /\ q[k].call # "super" /\ (q[k].call = "flush" <=> k = Len(q))
  <2>1. CASE k <= Len(p)
    BY <2>1, <1>1, <1>2, <1>3
  <2>2. CASE ~(k <= Len(p))
    <3>1. k - Len(p) \in 1 .. Len(z) /\ Len(p) + (k - Len(p)) = k
      BY <2>2, <1>1, <1>2
    <3>2. q[k] = z[k - Len(p)]
      BY <3>1, <1>4
    <3>3. k = Len(q) <=> k - Len(p) = Len(z)
      BY <1>1, <1>2
    <3> QED
      BY <3>1, <3>2, <3>3 DEF RecordQueue
  <2> QED
    BY <2>1, <2>2
<1>6. Len(q) \in Nat \ {0}
  BY <1>1, <1>2
<1> QED
  BY <1>2, <1>5, <1>6 DEF RecordQueue, q

\* write_record
LEMMA RecordCallsGood ==
  ASSUME NEW i \in 1 .. Len(ram), ram[i] \in Entries,
         NEW t \in Known, t \in TableRec, NEW v \in Values, NEW n,
         t.id = ram[i].id, ram[i].sealed => t.secret,
         t.size + (IF ram[i].sealed THEN SealOverhead ELSE 0) <= ram[i].cap
  PROVE  RecordQueue(RecordCalls(i, ram[i], t, v, n))
<1> DEFINE e == ram[i]
           w == WrittenEntry(e, t, v)
           z == <<WriteEntry(i, w), Flush>>
           p == IF e.sealed THEN SealCalls(e, t, v, n) ELSE <<WriteCells(e.off, Plain(t, v))>>
<1>1. w \in Entries /\ w.id = e.id /\ w.cap = e.cap /\ w.off = e.off
  <2>1. /\ e \in Entries /\ t.id = e.id /\ (e.sealed => t.secret)
        /\ t.size + (IF e.sealed THEN SealOverhead ELSE 0) <= e.cap
    OBVIOUS
  <2> HIDE DEF e
  <2> QED
    BY <2>1, WrittenEntryGood
<1>2. RecordCalls(i, ram[i], t, v, n) = p \o z
  BY DEF RecordCalls, WrittenEntry
<1> HIDE DEF w
<1>3. RecordQueue(z)
  BY <1>1, ClosingCalls
<1>4. IsQueue(p) /\ \A k \in 1 .. Len(p) : p[k].call = "cells" /\ CallGenuine(p[k], ram)
  <2>1. CASE e.sealed
    <3>1. p = SealCalls(e, t, v, n)
      BY <2>1
    <3> QED
      BY Zenon, <2>1, <3>1, SealGood
  <2>2. CASE ~e.sealed
    <3> DEFINE x == WriteCells(e.off, Plain(t, v))
               y == <<x>>
    <3>1. p = y
      BY <2>2
    <3>2. x.call = "cells" /\ CallGenuine(x, ram)
      <4>1. e.off \in Nat /\ t.size \in Nat
        BY DEF Entries, Entry, TableRec
      <4>2. Len(Plain(t, v)) \in Nat /\ \A j \in 1 .. Len(Plain(t, v)) : TagGenuine(Plain(t, v)[j])
        BY <4>1 DEF Plain, PlainCell, Cell, TagGenuine
      <4> QED
        BY <4>1, <4>2 DEF WriteCells, CallGenuine
    <3> HIDE DEF x
    <3>3. y \in Seq({x}) /\ Len(y) = 1 /\ y[1] = x
      OBVIOUS
    <3> HIDE DEF y, p
    <3> QED
      BY <3>1, <3>2, <3>3, QueueOf
  <2> QED
    BY Zenon, <2>1, <2>2
<1> HIDE DEF p, z
<1> QED
  BY <1>2, <1>3, <1>4, PayloadFirst

\* The calls that lay a directory down: every entry, then the superblock, then
\* the flush.
LayQueue(q, d) ==
  /\ IsQueue(q)
  /\ \A k \in 1 .. Len(q) :
       /\ CallGenuine(q[k], d)
       /\ q[k].call = "flush" <=> k = Len(q)
       /\ q[k].call = "entry" => q[k].entry = d[q[k].at]
       /\ q[k].call = "super" => q[k].at = Len(d)
  /\ \A k, l \in 1 .. Len(q) : q[k].call = "super" /\ q[l].call = "entry" => l < k
  /\ \A i \in 1 .. Len(d) : \E k \in 1 .. Len(q) : q[k].call = "entry" /\ q[k].at = i
  /\ \E k \in 1 .. Len(q) : q[k].call = "super"
  /\ Len(q) \in Nat \ {0}

\* write_directory: each entry once, then the superblock, then the flush.
LEMMA DirectoryLays ==
  ASSUME NEW d \in Seq(Entries), Len(d) <= MaxTables
  PROVE  LayQueue(WriteDirectory(d), d)
<1> DEFINE q == WriteDirectory(d)
           n == Len(d)
<1>0. n \in Nat /\ n \in 0 .. MaxTables /\ \A i \in 1 .. n : d[i] \in Entries
  BY LenProperties, DbConstants
<1>1. /\ IsQueue(q) /\ Len(q) = n + 2
      /\ \A k \in 1 .. n : q[k] = WriteEntry(k, d[k])
      /\ q[n + 1] = WriteSuper(n)
      /\ q[n + 2] = Flush
  BY <1>0, DirectoryCalls
<1> HIDE DEF q
<1>2. \A k \in 1 .. n : /\ q[k].call = "entry" /\ q[k].at = k /\ q[k].entry = d[k]
                        /\ CallGenuine(q[k], d)
  <2> SUFFICES ASSUME NEW k \in 1 .. n
               PROVE  /\ q[k].call = "entry" /\ q[k].at = k /\ q[k].entry = d[k]
                      /\ CallGenuine(q[k], d)
    OBVIOUS
  <2>1. q[k] = WriteEntry(k, d[k]) /\ d[k] \in Entries
    BY <1>0, <1>1
  <2>2. q[k].call = "entry" /\ q[k].at = k /\ q[k].entry = d[k]
    BY <2>1 DEF WriteEntry
  <2> QED
    BY <2>1, <2>2 DEF CallGenuine
<1>3. q[n + 1].call = "super" /\ q[n + 1].at = n /\ CallGenuine(q[n + 1], d)
  BY <1>0, <1>1 DEF WriteSuper, CallGenuine
<1>4. q[n + 2].call = "flush" /\ CallGenuine(q[n + 2], d)
  BY <1>1 DEF Flush, CallGenuine
<1> HIDE DEF n
<1>5. ASSUME NEW k \in 1 .. Len(q) PROVE k \in 1 .. n \/ k = n + 1 \/ k = n + 2
  BY <1>0, <1>1
<1>6. ASSUME NEW k \in 1 .. Len(q)
      PROVE  /\ CallGenuine(q[k], d)
             /\ q[k].call = "flush" <=> k = Len(q)
             /\ q[k].call = "entry" => k <= n /\ q[k].entry = d[q[k].at]
             /\ q[k].call = "super" => k = n + 1 /\ q[k].at = n
  BY <1>0, <1>1, <1>2, <1>3, <1>4, <1>5
<1>7. \A k, l \in 1 .. Len(q) : q[k].call = "super" /\ q[l].call = "entry" => l < k
  BY <1>0, <1>1, <1>6
<1>8. \A i \in 1 .. n : i \in 1 .. Len(q) /\ q[i].call = "entry" /\ q[i].at = i
  BY <1>0, <1>1, <1>2
<1>9. n + 1 \in 1 .. Len(q) /\ Len(q) \in Nat \ {0}
  BY <1>0, <1>1
<1> QED
  BY <1>1, <1>3, <1>6, <1>7, <1>8, <1>9 DEF LayQueue, n, q

\* Moves ahead of them change nothing of that.
LEMMA MovesThenLays ==
  ASSUME NEW d, NEW m, IsQueue(m),
         \A k \in 1 .. Len(m) : m[k].call = "cells" /\ CallGenuine(m[k], d),
         NEW w, LayQueue(w, d)
  PROVE  LayQueue(m \o w, d)
<1> DEFINE q == m \o w
<1>1. IsQueue(w) /\ Len(w) \in Nat \ {0}
  BY DEF LayQueue
<1>2. IsQueue(q) /\ Len(m) \in Nat /\ Len(q) = Len(m) + Len(w)
  BY <1>1, QueueJoin
<1>3. \A i \in 1 .. Len(m) : q[i] = m[i]
  BY <1>1, QueueJoin
<1>4. \A i \in 1 .. Len(w) : q[Len(m) + i] = w[i]
  BY <1>1, QueueJoin
<1> HIDE DEF q
<1>5. \A k \in 1 .. Len(q) : \/ k <= Len(m) /\ q[k] = m[k] /\ k # Len(q)
                             \/ /\ k - Len(m) \in 1 .. Len(w) /\ q[k] = w[k - Len(m)]
                                /\ k = Len(q) <=> k - Len(m) = Len(w)
  <2> SUFFICES ASSUME NEW k \in 1 .. Len(q), ~(k <= Len(m))
               PROVE  /\ k - Len(m) \in 1 .. Len(w) /\ q[k] = w[k - Len(m)]
                      /\ k = Len(q) <=> k - Len(m) = Len(w)
    BY <1>1, <1>2, <1>3
  <2>1. k - Len(m) \in 1 .. Len(w) /\ Len(m) + (k - Len(m)) = k
    BY <1>1, <1>2
  <2>2. q[k] = w[k - Len(m)]
    BY <1>4, <2>1
  <2> QED
    BY <2>1, <2>2, <1>1, <1>2
<1>6. ASSUME NEW k \in 1 .. Len(q)
      PROVE  /\ CallGenuine(q[k], d)
             /\ q[k].call = "flush" <=> k = Len(q)
             /\ q[k].call = "entry" => q[k].entry = d[q[k].at]
             /\ q[k].call = "super" => q[k].at = Len(d)
  <2>1. CASE k <= Len(m) /\ q[k] = m[k] /\ k # Len(q)
    BY <2>1, <1>2
  <2>2. CASE /\ k - Len(m) \in 1 .. Len(w) /\ q[k] = w[k - Len(m)]
             /\ k = Len(q) <=> k - Len(m) = Len(w)
    BY <2>2 DEF LayQueue
  <2> QED
    BY <2>1, <2>2, <1>5
<1>7. ASSUME NEW k \in 1 .. Len(q), NEW l \in 1 .. Len(q), q[k].call = "super", q[l].call = "entry"
      PROVE  l < k
  <2>1. \A j \in 1 .. Len(q) : q[j].call # "cells" =>
           j - Len(m) \in 1 .. Len(w) /\ q[j] = w[j - Len(m)]
    BY <1>5, <1>2
  <2>2. /\ k - Len(m) \in 1 .. Len(w) /\ q[k] = w[k - Len(m)]
        /\ l - Len(m) \in 1 .. Len(w) /\ q[l] = w[l - Len(m)]
    BY <1>7, <2>1
  <2>3. l - Len(m) < k - Len(m)
    BY <1>7, <2>2 DEF LayQueue
  <2> QED
    BY <2>3, <1>2
<1>8. \A j \in 1 .. Len(w) : Len(m) + j \in 1 .. Len(q) /\ q[Len(m) + j] = w[j]
  BY <1>1, <1>2, <1>4
<1>9. ASSUME NEW i \in 1 .. Len(d)
      PROVE  \E k \in 1 .. Len(q) : q[k].call = "entry" /\ q[k].at = i
  <2>1. PICK j \in 1 .. Len(w) : w[j].call = "entry" /\ w[j].at = i
    BY DEF LayQueue
  <2> QED
    BY <2>1, <1>8
<1>10. \E k \in 1 .. Len(q) : q[k].call = "super"
  BY <1>8 DEF LayQueue
<1>11. Len(q) \in Nat \ {0}
  BY <1>1, <1>2
<1> QED
  BY <1>2, <1>6, <1>7, <1>9, <1>10, <1>11 DEF LayQueue, q

-----------------------------------------------------------------------------
(* The invariants *)

\* The inductive invariant behind the types and behind ReadsGenuine.
Genuine ==
  /\ StoreGenuine(disk) /\ StoreGenuine(view)
  /\ ram \in Seq(Entries) /\ Len(ram) <= MaxTables
  /\ IsQueue(todo) /\ \A k \in 1 .. Len(todo) : CallGenuine(todo[k], ram)
  /\ FlushLast(todo)
  /\ status \in {"off", "mounting", "mounted", "failed"}
  /\ job \in {"none", "format", "repack", "record"}
  /\ whole \in BOOLEAN /\ medium \in {"eeprom", "fs"}
  /\ status \in {"mounting", "mounted"} =>
       tables \in Firmwares /\ GeometryMatches(ram, tables)
  /\ todo # <<>> => status \in {"mounting", "mounted"}
  /\ job = "none" <=> todo = <<>>
  /\ status = "mounting" <=> job \in {"format", "repack"}

\* The slots of dir are the ones the tables ts ask for.
Placed(dir, ts) ==
  \A i \in 1 .. Len(ts) : dir[i].off = Offsets(ts)[i] /\ dir[i].cap = Slot(ts[i])

\* The store holds no layout, or one of some firmware.
Laid(s) ==
  s.super = 0 \/ \E ts \in Firmwares : s.super = Len(ts) /\ Placed(s.dir, ts)

\* The store's directory and m_directory agree on every slot.
SameSlots ==
  /\ view.super = Len(ram)
  /\ \A i \in 1 .. Len(ram) : view.dir[i].off = ram[i].off /\ view.dir[i].cap = ram[i].cap

\* The order of the calls left: entries ahead of the superblock.
Ordered ==
  /\ \A k, l \in 1 .. Len(todo) : todo[k].call = "super" /\ todo[l].call = "entry" => l < k
  /\ job = "record" => \A k \in 1 .. Len(todo) : todo[k].call # "super"
  /\ job \in {"format", "repack"} => \A k \in 1 .. Len(todo) :
       /\ todo[k].call = "entry" => todo[k].entry = ram[todo[k].at]
       /\ todo[k].call = "super" => todo[k].at = Len(ram)

\* Some call of that kind is still to be made.
Pending(what) == \E k \in 1 .. Len(todo) : todo[k].call = what

\* A layout half laid: what the store lacks is among the calls left.
Underway ==
  /\ \A i \in 1 .. Len(ram) :
       \/ view.dir[i] = ram[i]
       \/ \E k \in 1 .. Len(todo) : todo[k].call = "entry" /\ todo[k].at = i
  /\ view.super = Len(ram) \/ Pending("super")
  /\ job = "format" => view.super = 0 \/ (view.super = Len(ram) /\ ~Pending("entry"))

\* The inductive invariant behind SlotsDisjoint.
Geometry ==
  /\ Ordered
  /\ job = "none" \/ medium = "fs" => view = disk
  /\ job \in {"format", "repack"} => Underway
  /\ whole =>
       /\ (medium = "fs" /\ job = "repack") \/ Laid(disk)
       /\ status \in {"mounting", "mounted"} =>
            \E ts \in Firmwares : Len(ram) = Len(ts) /\ Placed(ram, ts)
       /\ status = "mounted" => SameSlots

----------------------------------------------------------------------------
(* Genuine is inductive.                                                   *)

\* A blank medium.
LEMMA GenuineInit == Init => Genuine
<1> SUFFICES ASSUME Init PROVE Genuine
  OBVIOUS
<1>1. TagGenuine(Blank)
  BY DEF TagGenuine, Blank, Cell
<1>2. StoreGenuine(BlankStore)
  BY <1>1, NoEntryGood, DbConstants DEF StoreGenuine, BlankStore
<1>3. medium \in {"eeprom", "fs"}
  BY DbConstants DEF Init
<1>4. <<>> \in Seq(Entries) /\ Len(<<>>) = 0 /\ IsQueue(<<>>)
  BY Zenon, EmptySeq, QueueOf
<1> QED
  BY <1>2, <1>3, <1>4, DbConstants DEF Init, Genuine, FlushLast

\* read_directory: what the medium holds, entry by entry.
LEMMA DirectoryRead ==
  ASSUME StoreGenuine(view)
  PROVE  /\ Directory \in Seq(Entries) /\ Len(Directory) = view.super
         /\ Len(Directory) \in Nat /\ Len(Directory) <= MaxTables
         /\ DOMAIN Directory = 1 .. view.super
         /\ \A i \in 1 .. view.super : Directory[i] = view.dir[i]
<1>1. view.super \in Nat /\ view.super <= MaxTables
  BY DbConstants DEF StoreGenuine
<1>2. \A i \in 1 .. view.super : view.dir[i] \in Entries
  BY <1>1, DbConstants DEF StoreGenuine
<1>3. /\ Directory \in Seq(Entries)
      /\ Len(Directory) = IF 1 <= view.super THEN view.super - 1 + 1 ELSE 0
      /\ \A i \in 1 .. view.super - 1 + 1 : Directory[i] = view.dir[1 + i - 1]
  BY <1>1, <1>2, SubSeqProperties DEF Directory
<1>4. Len(Directory) = view.super
  BY <1>1, <1>3
<1>5. \A i \in 1 .. view.super : Directory[i] = view.dir[i]
  BY <1>1, <1>3
<1> QED
  BY <1>1, <1>3, <1>4, <1>5, LenProperties

\* The directories that format() and repack() make are the firmware's.
LEMMA NewDirectory ==
  ASSUME NEW ts \in Firmwares, NEW d,
         \/ d = EmptyDirectory(ts)
         \/ \E old \in Seq(Entries) : d = RepackedDirectory(old, ts)
  PROVE  /\ d \in Seq(Entries) /\ Len(d) = Len(ts) /\ Len(d) \in Nat /\ Len(d) <= MaxTables
         /\ GeometryMatches(d, ts)
         /\ Placed(d, ts)
<1>0. Len(ts) \in Nat /\ Len(ts) \in 1 .. MaxTables
  BY FirmwareTables
<1>1. /\ DOMAIN d = 1 .. Len(ts)
      /\ d = [i \in 1 .. Len(ts) |-> d[i]]
      /\ \A i \in 1 .. Len(ts) : /\ d[i] \in Entries /\ d[i].id = ts[i].id
                                 /\ d[i].off = Offsets(ts)[i] /\ d[i].cap = Slot(ts[i])
  <2>1. CASE d = EmptyDirectory(ts)
    BY <2>1, EmptyEntryGood DEF EmptyDirectory
  <2>2. ASSUME NEW old \in Seq(Entries), d = RepackedDirectory(old, ts)
        PROVE  <1>1!1 /\ <1>1!2 /\ <1>1!3
    <3>1. d = [i \in 1 .. Len(ts) |-> RepackedEntry(old, EmptyEntry(ts, i))]
      BY <2>2 DEF RepackedDirectory
    <3>2. ASSUME NEW i \in 1 .. Len(ts)
          PROVE  /\ d[i] \in Entries /\ d[i].id = ts[i].id
                 /\ d[i].off = Offsets(ts)[i] /\ d[i].cap = Slot(ts[i])
      <4>1. d[i] = RepackedEntry(old, EmptyEntry(ts, i))
        BY <3>1
      <4> QED
        BY <4>1, EmptyEntryGood, RepackedEntryGood
    <3> QED
      BY <3>1, <3>2
  <2> QED
    BY <2>1, <2>2
<1>2. d \in Seq(Entries) /\ Len(d) = Len(ts)
  BY <1>0, <1>1
<1>3. GeometryMatches(d, ts)
  BY <1>1, <1>2, MatchesOwn
<1>4. Placed(d, ts)
  BY <1>1 DEF Placed
<1> QED
  BY <1>0, <1>2, <1>3, <1>4, DbConstants

\* What a boot leaves: nothing of the medium changed, a directory in RAM that
\* is the firmware's, and the calls still to be made.
LEMMA BootLeaves ==
  ASSUME Genuine, NEW ts \in Firmwares, tables' = ts, status = "off", job = "none",
         UNCHANGED <<medium, disk, view>>, Format(ts) \/ Adopt(ts) \/ Repack(ts) \/ RepackStarved(ts)
  PROVE  /\ ram' \in Seq(Entries) /\ Len(ram') \in Nat /\ Len(ram') <= MaxTables
         /\ GeometryMatches(ram', ts)
         /\ \/ /\ job' \in {"format", "repack"} /\ status' = "mounting" /\ whole' = whole
               /\ LayQueue(todo', ram') /\ Len(ram') = Len(ts) /\ Placed(ram', ts)
               /\ job' = "format" => view.super = 0
            \/ /\ Adopt(ts) /\ job' = "none" /\ todo' = todo /\ status' = "mounted" /\ whole' = whole
               /\ ram' = Directory
            \/ /\ job' = "none" /\ todo' = todo
               /\ status' = IF medium = "fs" THEN "failed" ELSE "mounted"
               /\ whole' = (whole /\ medium = "fs")
<1>0. StoreGenuine(view)
  BY DEF Genuine
<1>d. Directory \in Seq(Entries) /\ Len(Directory) \in Nat /\ Len(Directory) <= MaxTables
  BY Zenon, <1>0, DirectoryRead
<1>1. CASE Format(ts)
  <2>1. /\ ram' = EmptyDirectory(ts) /\ todo' = WriteDirectory(ram') /\ view.super = 0
        /\ status' = "mounting" /\ job' = "format" /\ whole' = whole
    BY <1>1 DEF Format
  <2>2. /\ ram' \in Seq(Entries) /\ Len(ram') = Len(ts) /\ Len(ram') \in Nat
        /\ Len(ram') <= MaxTables /\ GeometryMatches(ram', ts) /\ Placed(ram', ts)
    BY <2>1, NewDirectory
  <2>3. LayQueue(todo', ram')
    BY <2>1, <2>2, DirectoryLays
  <2> QED
    BY <2>1, <2>2, <2>3
<1>2. CASE Adopt(ts)
  <2>1. /\ ram' = Directory /\ GeometryMatches(Directory, ts)
        /\ status' = "mounted" /\ job' = "none" /\ todo' = todo /\ whole' = whole
    BY <1>2 DEF Adopt
  <2> QED
    BY <1>2, <2>1, <1>d
<1>3. CASE Repack(ts)
  <2> DEFINE m == Moves(Directory, EmptyDirectory(ts))
  <2>1. /\ ram' = RepackedDirectory(Directory, ts) /\ todo' = m \o WriteDirectory(ram')
        /\ status' = "mounting" /\ job' = "repack" /\ whole' = whole
    BY Zenon, <1>3 DEF Repack
  <2>2. /\ ram' \in Seq(Entries) /\ Len(ram') = Len(ts) /\ Len(ram') \in Nat
        /\ Len(ram') <= MaxTables /\ GeometryMatches(ram', ts) /\ Placed(ram', ts)
    BY <2>1, <1>d, NewDirectory
  <2>3. EmptyDirectory(ts) \in Seq(Entries)
    BY NewDirectory
  <2>4. IsQueue(m) /\ \A k \in 1 .. Len(m) : m[k].call = "cells" /\ CallGenuine(m[k], ram')
    BY Zenon, <1>0, <1>d, <2>3, MovesGood
  <2> HIDE DEF m
  <2>5. LayQueue(WriteDirectory(ram'), ram')
    BY <2>2, DirectoryLays
  <2>6. LayQueue(todo', ram')
    BY Zenon, <2>1, <2>4, <2>5, MovesThenLays
  <2> QED
    BY <2>1, <2>2, <2>6
<1>4. CASE RepackStarved(ts)
  <2>1. /\ ram' = RepackedDirectory(Directory, ts)
        /\ status' = (IF medium = "fs" THEN "failed" ELSE "mounted")
        /\ whole' = (whole /\ medium = "fs")
        /\ job' = "none" /\ todo' = todo
    BY <1>4 DEF RepackStarved
  <2>2. /\ ram' \in Seq(Entries) /\ Len(ram') \in Nat
        /\ Len(ram') <= MaxTables /\ GeometryMatches(ram', ts)
    BY <2>1, <1>d, NewDirectory
  <2> QED
    BY <2>1, <2>2
<1> QED
  BY <1>1, <1>2, <1>3, <1>4

\* mount(): format, adopt, repack, or a repack without memory.
LEMMA GenuineBoot ==
  ASSUME Genuine, Boot
  PROVE  Genuine'
<1>0. status = "off" /\ job = "none" /\ UNCHANGED <<medium, disk, view>>
  BY DEF Boot, Stay
<1>1. PICK ts \in Firmwares :
        tables' = ts /\ (Format(ts) \/ Adopt(ts) \/ Repack(ts) \/ RepackStarved(ts))
  BY DEF Boot
<1>2. /\ ram' \in Seq(Entries) /\ Len(ram') \in Nat /\ Len(ram') <= MaxTables
      /\ GeometryMatches(ram', ts)
      /\ \/ /\ job' \in {"format", "repack"} /\ status' = "mounting" /\ whole' = whole
            /\ LayQueue(todo', ram')
         \/ /\ job' = "none" /\ todo' = todo /\ status' = "mounted" /\ whole' = whole
         \/ /\ job' = "none" /\ todo' = todo
            /\ status' = IF medium = "fs" THEN "failed" ELSE "mounted"
            /\ whole' = (whole /\ medium = "fs")
  BY <1>0, <1>1, BootLeaves
<1>3. StoreGenuine(disk)' /\ StoreGenuine(view)'
  BY <1>0 DEF Genuine
<1>4. todo = <<>> /\ whole \in BOOLEAN /\ medium \in {"eeprom", "fs"}
  BY <1>0 DEF Genuine
<1>5. /\ IsQueue(todo') /\ \A k \in 1 .. Len(todo') : CallGenuine(todo'[k], ram')
      /\ FlushLast(todo')
      /\ job' = "none" <=> todo' = <<>>
  <2>1. CASE job' \in {"format", "repack"} /\ LayQueue(todo', ram')
    <3>1. /\ IsQueue(todo') /\ Len(todo') \in Nat \ {0}
          /\ \A k \in 1 .. Len(todo') : CallGenuine(todo'[k], ram')
          /\ FlushLast(todo')
      BY <2>1 DEF LayQueue, FlushLast
    <3>2. todo' # <<>>
      BY <3>1
    <3> QED
      BY <2>1, <3>1, <3>2
  <2>2. CASE job' = "none" /\ todo' = todo
    <3>1. IsQueue(<<>>) /\ Len(<<>>) = 0
      BY Zenon, EmptySeq, QueueOf
    <3> QED
      BY <2>2, <3>1, <1>4 DEF FlushLast
  <2> QED
    BY <1>2, <2>1, <2>2
<1>6. /\ (status \in {"off", "mounting", "mounted", "failed"})'
      /\ (job \in {"none", "format", "repack", "record"})'
      /\ (whole \in BOOLEAN)' /\ (medium \in {"eeprom", "fs"})'
      /\ (todo # <<>> => status \in {"mounting", "mounted"})'
      /\ (status = "mounting" <=> job \in {"format", "repack"})'
  BY Zenon, <1>0, <1>2, <1>4, <1>5
<1>7. (status \in {"mounting", "mounted"} => tables \in Firmwares /\ GeometryMatches(ram, tables))'
  BY <1>1, <1>2
<1> QED
  BY <1>2, <1>3, <1>5, <1>6, <1>7 DEF Genuine

\* A table of the running firmware has an entry of its own, with its slot.
LEMMA OwnEntry ==
  ASSUME Genuine, status = "mounted", NEW k \in DOMAIN tables
  PROVE  /\ tables[k] \in Known /\ tables[k] \in TableRec
         /\ Find(ram, tables[k].id) \in 1 .. Len(ram)
         /\ ram[Find(ram, tables[k].id)] \in Entries
         /\ ram[Find(ram, tables[k].id)].id = tables[k].id
         /\ ram[Find(ram, tables[k].id)].cap = Slot(tables[k])
<1>1. tables \in Firmwares /\ GeometryMatches(ram, tables) /\ ram \in Seq(Entries)
  BY DEF Genuine
<1>2. tables[k] \in Known /\ tables[k] \in TableRec
  BY <1>1, FirmwareTables
<1>3. Has(ram, tables[k].id) /\ ram[Find(ram, tables[k].id)].cap = Slot(tables[k])
  BY <1>1 DEF GeometryMatches
<1>4. Len(ram) \in Nat /\ DOMAIN ram = 1 .. Len(ram)
  BY <1>1, LenProperties
<1>5. Find(ram, tables[k].id) \in 1 .. Len(ram) /\ ram[Find(ram, tables[k].id)].id = tables[k].id
  BY <1>3, <1>4, FindFirst
<1> QED
  BY <1>1, <1>2, <1>3, <1>5, ElementOfSeq

\* What write_record and clear_record queue.
LEMMA RecordQueued ==
  ASSUME Genuine, WriteRecord \/ ClearRecord
  PROVE  /\ status = "mounted" /\ job = "none" /\ job' = "record" /\ RecordQueue(todo')
         /\ UNCHANGED <<medium, disk, view, tables, ram, status, whole>>
<1>1. CASE WriteRecord
  <2>1. /\ status = "mounted" /\ job = "none"
        /\ UNCHANGED <<medium, disk, view, tables, ram, status, whole>>
    BY Zenon, <1>1 DEF WriteRecord, Stay
  <2>2. PICK k \in DOMAIN tables, v \in Values :
          LET t == tables[k]
              i == Find(ram, t.id)
              e == ram[i]
          IN  /\ t.size + (IF e.sealed THEN SealOverhead ELSE 0) <= e.cap
              /\ job' = "record" /\ todo' = RecordCalls(i, e, t, v, FreshNonce(e))
    BY Zenon, <1>1 DEF WriteRecord
  <2> DEFINE t == tables[k]
             i == Find(ram, t.id)
  <2>3. /\ t \in Known /\ t \in TableRec /\ i \in 1 .. Len(ram) /\ ram[i] \in Entries
        /\ ram[i].id = t.id /\ ram[i].cap = Slot(t)
    BY <2>1, OwnEntry
  <2>4. /\ t.size + (IF ram[i].sealed THEN SealOverhead ELSE 0) <= ram[i].cap
        /\ job' = "record" /\ todo' = RecordCalls(i, ram[i], t, v, FreshNonce(ram[i]))
    BY <2>2
  <2> HIDE DEF t, i
  <2>5. ram[i].sealed => t.secret
    BY <2>3, <2>4 DEF Slot, SealOverhead, TableRec
  <2>6. RecordQueue(RecordCalls(i, ram[i], t, v, FreshNonce(ram[i])))
    BY Zenon, <2>3, <2>4, <2>5, RecordCallsGood
  <2> QED
    BY <2>1, <2>4, <2>6
<1>2. CASE ClearRecord
  <2>1. /\ status = "mounted" /\ job = "none"
        /\ UNCHANGED <<medium, disk, view, tables, ram, status, whole>>
    BY <1>2 DEF ClearRecord, Stay
  <2>2. PICK k \in DOMAIN tables :
          LET i == Find(ram, tables[k].id)
          IN  job' = "record" /\ todo' = ClearCalls(i, ram[i])
    BY <1>2 DEF ClearRecord
  <2> DEFINE i == Find(ram, tables[k].id)
             w == [ram[i] EXCEPT !.len = 0, !.crc = <<>>]
  <2>3. i \in 1 .. Len(ram) /\ ram[i] \in Entries
    BY <2>1, OwnEntry
  <2>4. job' = "record" /\ todo' = <<WriteEntry(i, w), Flush>>
    BY <2>2 DEF ClearCalls
  <2> HIDE DEF i
  <2>5. w \in Entries /\ w.id = ram[i].id /\ w.cap = ram[i].cap /\ w.off = ram[i].off
    BY Zenon, <2>3, ClearedEntryGood
  <2> HIDE DEF w
  <2>6. RecordQueue(<<WriteEntry(i, w), Flush>>)
    BY <2>3, <2>5, ClosingCalls
  <2> QED
    BY <2>1, <2>4, <2>6
<1> QED
  BY <1>1, <1>2

\* write_record and clear_record, up to their first store call.
LEMMA GenuineRecord ==
  ASSUME Genuine, WriteRecord \/ ClearRecord
  PROVE  Genuine'
<1>1. /\ status = "mounted" /\ job' = "record" /\ RecordQueue(todo')
      /\ UNCHANGED <<medium, disk, view, tables, ram, status, whole>>
  BY RecordQueued
<1>2. /\ IsQueue(todo') /\ Len(todo') \in Nat \ {0}
      /\ \A k \in 1 .. Len(todo') : CallGenuine(todo'[k], ram)
      /\ FlushLast(todo')
  BY <1>1 DEF RecordQueue, FlushLast
<1>3. todo' # <<>>
  BY <1>2
<1>4. (StoreGenuine(disk) /\ StoreGenuine(view))'
  BY <1>1 DEF Genuine
<1>5. (status \in {"mounting", "mounted"} => tables \in Firmwares /\ GeometryMatches(ram, tables))'
  BY <1>1 DEF Genuine
<1>6. (IsQueue(todo) /\ (\A k \in 1 .. Len(todo) : CallGenuine(todo[k], ram)) /\ FlushLast(todo))'
  BY <1>1, <1>2
<1>7. (ram \in Seq(Entries) /\ Len(ram) <= MaxTables)'
  BY <1>1 DEF Genuine
<1> QED
  BY <1>1, <1>3, <1>4, <1>5, <1>6, <1>7 DEF Genuine

\* m_directory after a call: an entry is replaced by one of the same table in
\* the same slot.
LEMMA RamKeeps ==
  ASSUME Genuine, todo # <<>>
  PROVE  LET c == todo[1]
             r == RamAfter(c)
         IN  /\ CallGenuine(c, ram) /\ (c.call = "entry" => c.at \in 1 .. MaxTables)
             /\ r \in Seq(Entries) /\ Len(r) = Len(ram) /\ Len(ram) \in Nat
             /\ DOMAIN r = 1 .. Len(ram) /\ DOMAIN ram = 1 .. Len(ram)
             /\ \A i \in 1 .. Len(ram) :
                  /\ r[i] = IF c.call = "entry" /\ i = c.at THEN c.entry ELSE ram[i]
                  /\ r[i].id = ram[i].id /\ r[i].cap = ram[i].cap /\ r[i].off = ram[i].off
<1> DEFINE c == todo[1]
           r == RamAfter(c)
<1>1. IsQueue(todo) /\ ram \in Seq(Entries) /\ Len(ram) <= MaxTables
  BY DEF Genuine
<1>2. Len(todo) \in Nat \ {0}
  BY <1>1, QueueTail
<1>3. CallGenuine(c, ram)
  BY <1>2 DEF Genuine
<1>4. Len(ram) \in Nat /\ DOMAIN ram = 1 .. Len(ram)
  BY <1>1, LenProperties
<1> HIDE DEF c
<1>5. CASE c.call = "entry"
  <2>1. /\ c.at \in 1 .. Len(ram) /\ c.entry \in Entries
        /\ c.entry.id = ram[c.at].id /\ c.entry.cap = ram[c.at].cap /\ c.entry.off = ram[c.at].off
    BY <1>3, <1>5 DEF CallGenuine
  <2>2. r = [ram EXCEPT ![c.at] = c.entry]
    BY <1>5 DEF RamAfter
  <2>3. /\ r \in Seq(Entries) /\ Len(r) = Len(ram)
        /\ \A j \in 1 .. Len(ram) : r[j] = IF j = c.at THEN c.entry ELSE ram[j]
    BY <1>1, <2>1, <2>2, ExceptSeq
  <2>4. c.at \in 1 .. MaxTables
    BY <1>1, <1>4, <2>1, DbConstants
  <2> HIDE DEF r
  <2>5. DOMAIN r = 1 .. Len(ram)
    BY <2>3, LenProperties
  <2> QED
    BY <1>3, <1>4, <1>5, <2>1, <2>3, <2>4, <2>5 DEF c, r
<1>6. CASE c.call # "entry"
  <2>1. r = ram
    BY <1>6 DEF RamAfter
  <2> HIDE DEF r
  <2> QED
    BY <1>1, <1>3, <1>4, <1>6, <2>1 DEF c, r
<1> QED
  BY <1>5, <1>6

\* A call is judged by ids and slots of the directory alone.
LEMMA CallKept ==
  ASSUME NEW c, NEW r, NEW s, CallGenuine(c, r), Len(s) = Len(r),
         \A i \in 1 .. Len(r) : s[i].id = r[i].id /\ s[i].cap = r[i].cap /\ s[i].off = r[i].off
  PROVE  CallGenuine(c, s)
  BY DEF CallGenuine

\* What remains of the calls is still good for the directory in RAM.
LEMMA RestGood ==
  ASSUME Genuine, todo # <<>>, NEW r, r = RamAfter(todo[1])
  PROVE  /\ IsQueue(Tail(todo)) /\ Head(todo) = todo[1]
         /\ Len(todo) \in Nat \ {0} /\ Len(Tail(todo)) = Len(todo) - 1
         /\ \A k \in 1 .. Len(todo) - 1 : Tail(todo)[k] = todo[k + 1]
         /\ \A k \in 1 .. Len(Tail(todo)) : CallGenuine(Tail(todo)[k], r)
         /\ FlushLast(Tail(todo)) /\ (Tail(todo) = <<>> <=> todo[1].call = "flush")
         /\ r \in Seq(Entries) /\ Len(r) <= MaxTables
         /\ \A ts : GeometryMatches(ram, ts) => GeometryMatches(r, ts)
<1>1. IsQueue(todo) /\ FlushLast(todo)
  BY DEF Genuine
<1>2. /\ IsQueue(Tail(todo)) /\ Head(todo) = todo[1]
      /\ Len(todo) \in Nat \ {0} /\ Len(Tail(todo)) = Len(todo) - 1
      /\ \A k \in 1 .. Len(todo) - 1 : Tail(todo)[k] = todo[k + 1]
  BY <1>1, QueueTail
<1>3. /\ r \in Seq(Entries) /\ Len(r) = Len(ram) /\ Len(ram) \in Nat
      /\ DOMAIN r = 1 .. Len(ram) /\ DOMAIN ram = 1 .. Len(ram)
      /\ \A i \in 1 .. Len(ram) :
           r[i].id = ram[i].id /\ r[i].cap = ram[i].cap /\ r[i].off = ram[i].off
  BY RamKeeps
<1>4. ASSUME NEW k \in 1 .. Len(Tail(todo))
      PROVE  CallGenuine(Tail(todo)[k], r)
  <2>1. k + 1 \in 1 .. Len(todo) /\ Tail(todo)[k] = todo[k + 1]
    BY <1>2
  <2>2. CallGenuine(todo[k + 1], ram)
    BY <2>1 DEF Genuine
  <2> QED
    BY <2>1, <2>2, <1>3, CallKept
<1>5. ASSUME NEW ts, GeometryMatches(ram, ts)
      PROVE  GeometryMatches(r, ts)
  BY Zenon, <1>3, <1>5, MatchKept
<1>6. Len(r) <= MaxTables
  BY <1>3 DEF Genuine
<1>7. FlushLast(Tail(todo))
  <2> SUFFICES ASSUME NEW k \in 1 .. Len(Tail(todo))
               PROVE  Tail(todo)[k].call = "flush" <=> k = Len(Tail(todo))
    BY Zenon DEF FlushLast
  <2>1. /\ k + 1 \in 1 .. Len(todo) /\ Tail(todo)[k] = todo[k + 1]
        /\ k + 1 = Len(todo) <=> k = Len(Tail(todo))
    BY <1>2
  <2> QED
    BY <2>1, <1>1 DEF FlushLast
<1>8. Tail(todo) = <<>> <=> todo[1].call = "flush"
  <2>1. Tail(todo) = <<>> <=> Len(Tail(todo)) = 0
    BY Zenon, <1>2, EmptySeq DEF IsQueue
  <2>2. 1 \in 1 .. Len(todo) /\ (Len(Tail(todo)) = 0 <=> 1 = Len(todo))
    BY <1>2
  <2> QED
    BY <2>1, <2>2, <1>1 DEF FlushLast
<1> QED
  BY <1>2, <1>3, <1>4, <1>5, <1>6, <1>7, <1>8

\* A store call that succeeds.
LEMMA GenuineStoreCall ==
  ASSUME Genuine, StoreCall
  PROVE  Genuine'
<1> DEFINE c == todo[1]
<1>1. todo # <<>>
  BY DEF StoreCall
<1>2. /\ CallGenuine(c, ram) /\ (c.call = "entry" => c.at \in 1 .. MaxTables)
  BY <1>1, RamKeeps
<1>3. /\ Head(todo) = c /\ IsQueue(Tail(todo))
      /\ \A k \in 1 .. Len(Tail(todo)) : CallGenuine(Tail(todo)[k], RamAfter(c))
      /\ FlushLast(Tail(todo)) /\ (Tail(todo) = <<>> <=> c.call = "flush")
      /\ RamAfter(c) \in Seq(Entries) /\ Len(RamAfter(c)) <= MaxTables
      /\ \A ts : GeometryMatches(ram, ts) => GeometryMatches(RamAfter(c), ts)
  BY <1>1, RestGood
<1> HIDE DEF c
<1>4. /\ view' = Written(view, c)
      /\ disk' = Written(view, c) \/ disk' = disk
      /\ ram' = RamAfter(c) /\ todo' = Tail(todo)
      /\ job' = (IF todo' = <<>> THEN "none" ELSE job)
      /\ status' = (IF todo' = <<>> THEN "mounted" ELSE status)
      /\ UNCHANGED <<medium, tables, whole>>
  BY <1>3 DEF StoreCall
<1>5. StoreGenuine(view') /\ StoreGenuine(disk')
  <2>1. StoreGenuine(view) /\ StoreGenuine(disk)
    BY DEF Genuine
  <2>2. StoreGenuine(Written(view, c))
    BY <2>1, <1>2, WrittenStore
  <2> QED
    BY <2>1, <2>2, <1>4
<1>6. status \in {"mounting", "mounted"} /\ job # "none"
  BY <1>1 DEF Genuine
<1>7. tables \in Firmwares /\ GeometryMatches(ram', tables)
  BY <1>3, <1>4, <1>6 DEF Genuine
<1>8. /\ (status \in {"off", "mounting", "mounted", "failed"})'
      /\ (job \in {"none", "format", "repack", "record"})'
      /\ (whole \in BOOLEAN)' /\ (medium \in {"eeprom", "fs"})'
      /\ (todo # <<>> => status \in {"mounting", "mounted"})'
      /\ (job = "none" <=> todo = <<>>)'
      /\ (status = "mounting" <=> job \in {"format", "repack"})'
  BY <1>4, <1>6 DEF Genuine
<1>9. (status \in {"mounting", "mounted"} => tables \in Firmwares /\ GeometryMatches(ram, tables))'
  BY <1>4, <1>7
<1>10. (IsQueue(todo) /\ (\A k \in 1 .. Len(todo) : CallGenuine(todo[k], ram)) /\ FlushLast(todo))'
  BY <1>3, <1>4
<1>11. (StoreGenuine(view) /\ StoreGenuine(disk))'
  BY <1>5
<1>12. (ram \in Seq(Entries) /\ Len(ram) <= MaxTables)'
  BY <1>3, <1>4
<1> QED
  BY <1>8, <1>9, <1>10, <1>11, <1>12 DEF Genuine

\* A store call that fails.
LEMMA GenuineStoreFails ==
  ASSUME Genuine, StoreFails
  PROVE  Genuine'
<1> DEFINE c == todo[1]
<1>1. todo # <<>>
  BY DEF StoreFails
<1>3. /\ Head(todo) = c /\ IsQueue(Tail(todo))
      /\ Len(todo) \in Nat \ {0} /\ Len(Tail(todo)) = Len(todo) - 1
      /\ \A k \in 1 .. Len(Tail(todo)) : CallGenuine(Tail(todo)[k], RamAfter(c))
      /\ FlushLast(Tail(todo)) /\ (Tail(todo) = <<>> <=> c.call = "flush")
      /\ RamAfter(c) \in Seq(Entries) /\ Len(RamAfter(c)) <= MaxTables
      /\ \A ts : GeometryMatches(ram, ts) => GeometryMatches(RamAfter(c), ts)
  BY Zenon, <1>1, RestGood
<1> HIDE DEF c
<1>4. /\ ram' = RamAfter(c) /\ UNCHANGED <<medium, disk, view, tables>>
      /\ whole' = (whole /\ job # "repack")
      /\ \/ /\ job = "repack" /\ c.call = "cells" /\ todo' = Tail(todo) /\ UNCHANGED <<job, status>>
         \/ /\ todo' = <<>> /\ job' = "none"
            /\ status' = IF job = "record" THEN status ELSE "failed"
  BY <1>3 DEF StoreFails
<1>5. (StoreGenuine(view) /\ StoreGenuine(disk))'
  BY <1>4 DEF Genuine
<1>6. status \in {"mounting", "mounted"} /\ job # "none" /\ tables \in Firmwares
  BY <1>1 DEF Genuine
<1>7. (status \in {"mounting", "mounted"} => tables \in Firmwares /\ GeometryMatches(ram, tables))'
  <2>1. GeometryMatches(RamAfter(c), tables)
    BY <1>3, <1>6 DEF Genuine
  <2>2. GeometryMatches(ram', tables')
    BY <2>1, <1>4
  <2> QED
    BY <2>2, <1>4, <1>6
<1>8. (IsQueue(todo) /\ (\A k \in 1 .. Len(todo) : CallGenuine(todo[k], ram)) /\ FlushLast(todo))'
  <2>1. CASE todo' = Tail(todo)
    BY <2>1, <1>3, <1>4
  <2>2. CASE todo' = <<>>
    <3>1. IsQueue(<<>>) /\ Len(<<>>) = 0
      BY Zenon, EmptySeq, QueueOf
    <3> QED
      BY <2>2, <3>1 DEF FlushLast
  <2> QED
    BY <1>4, <2>1, <2>2
<1>9. (ram \in Seq(Entries) /\ Len(ram) <= MaxTables)'
  BY <1>3, <1>4
<1>10. todo' = Tail(todo) /\ c.call = "cells" => todo' # <<>>
  BY <1>3
<1>11. /\ (status \in {"off", "mounting", "mounted", "failed"})'
      /\ (job \in {"none", "format", "repack", "record"})'
      /\ (whole \in BOOLEAN)' /\ (medium \in {"eeprom", "fs"})'
      /\ (todo # <<>> => status \in {"mounting", "mounted"})'
      /\ (job = "none" <=> todo = <<>>)'
      /\ (status = "mounting" <=> job \in {"format", "repack"})'
  BY <1>4, <1>6, <1>10 DEF Genuine
<1> QED
  BY <1>5, <1>7, <1>8, <1>9, <1>11 DEF Genuine

\* A power loss leaves what the medium holds.
LEMMA GenuinePowerLoss ==
  ASSUME Genuine, PowerLoss
  PROVE  Genuine'
<1>1. /\ view' = disk /\ disk' = disk /\ ram' = <<>> /\ status' = "off" /\ job' = "none"
      /\ todo' = <<>> /\ medium' = medium
      /\ whole' = (whole /\ ~(medium = "fs" /\ job = "repack"))
  BY DEF PowerLoss
<1>2. (StoreGenuine(view) /\ StoreGenuine(disk))'
  BY <1>1 DEF Genuine
<1>3. <<>> \in Seq(Entries) /\ Len(<<>>) = 0 /\ IsQueue(<<>>)
  BY Zenon, EmptySeq, QueueOf
<1>4. (IsQueue(todo) /\ (\A k \in 1 .. Len(todo) : CallGenuine(todo[k], ram)) /\ FlushLast(todo))'
  BY <1>1, <1>3 DEF IsQueue, FlushLast
<1> QED
  BY <1>1, <1>2, <1>3, <1>4, DbConstants DEF Genuine

\* Every step keeps Genuine.
LEMMA GenuineStep == Genuine /\ [Next]_vars => Genuine'
<1> SUFFICES ASSUME Genuine, [Next]_vars PROVE Genuine'
  OBVIOUS
<1>1. CASE Boot
  BY <1>1, GenuineBoot
<1>2. CASE WriteRecord \/ ClearRecord
  BY <1>2, GenuineRecord
<1>3. CASE StoreCall
  BY <1>3, GenuineStoreCall
<1>4. CASE StoreFails
  BY <1>4, GenuineStoreFails
<1>5. CASE PowerLoss
  BY <1>5, GenuinePowerLoss
<1>6. CASE UNCHANGED vars
  BY <1>6 DEF vars, Genuine
<1> QED
  BY <1>1, <1>2, <1>3, <1>4, <1>5, <1>6 DEF Next

\* The entries of the medium and of m_directory, the cells and the calls still
\* to be made hold only what the code can have written, whatever was cut short.
THEOREM GenuineAlways == Spec => []Genuine
  BY GenuineInit, GenuineStep, PTL DEF Spec

\* A good entry passes the tests of read_directory.
LEMMA EntryInBounds ==
  ASSUME NEW e \in Entries
  PROVE  e.id \in Ids \cup {0} /\ InBounds(e) /\ Stored(e) <= e.cap
<1>1. e \in Entry /\ Fits(e)
  BY DEF Entries
<1> QED
  BY <1>1 DEF Entry, Fits, InBounds, Stored, SealOverhead

\* The state of the store is well typed; read_directory never meets an entry
\* that describes bytes outside its slot or a slot outside the medium.
THEOREM DbTypeCorrect == Spec => []DbTypeOK
<1>1. Genuine => DbTypeOK
  <2> SUFFICES ASSUME Genuine PROVE DbTypeOK
    OBVIOUS
  <2>1. ASSUME NEW s, StoreGenuine(s) PROVE IsStore(s)
    BY Zenon, <2>1, EntryInBounds DEF StoreGenuine, IsStore
  <2>2. \A i \in DOMAIN ram : ram[i] \in Entries
    BY LenProperties DEF Genuine
  <2>3. \A i \in DOMAIN ram : InBounds(ram[i]) /\ Stored(ram[i]) <= ram[i].cap
    BY <2>2, EntryInBounds
  <2> QED
    BY <2>1, <2>3 DEF Genuine, DbTypeOK
<1> QED
  BY <1>1, GenuineAlways, PTL

----------------------------------------------------------------------------
(* What a read returns.                                                    *)

\* verify_sealed accepts only a nonce, ciphertext and tag written together for
\* the table of the entry.
LEMMA SealedGenuine ==
  ASSUME Genuine, NEW e \in Entries, e.sealed, e.len # 0, SealVerifies(e)
  PROVE  \E t \in Known, v \in Values : \E n :
           t.id = e.id /\ t.size = e.len /\ CellsAt(e.off + 1, e.len) = Cipher(t, v, n)
<1> DEFINE p == e.off + 1 + e.len
           c == view.cells[p]
           x == CellsAt(e.off + 1, e.len)
           y == view.cells[e.off]
<1>1. e \in Entry /\ Fits(e) /\ Describes(e)
  BY DEF Entries
<1>2. e.off \in Nat \ {0} /\ e.len \in Nat /\ e.cap \in Nat
  BY <1>1 DEF Entry
<1>3. p \in 1 .. Capacity
  BY <1>1, <1>2, DbConstants DEF Fits, Stored, SealOverhead
<1>4. c = TagCell(y, x)
  BY DEF SealVerifies
<1>5. c[1] = "tag" /\ c[4] = x
  BY <1>4 DEF TagCell
<1>6. TagGenuine(c)
  BY <1>3 DEF Genuine, StoreGenuine
<1> HIDE DEF c
<1>7. PICK t \in Known, v \in Values : t.secret /\ c[4] = Cipher(t, v, NonceOf(c))
  BY <1>5, <1>6 DEF TagGenuine
<1>8. Len(x) = e.len
  BY <1>2 DEF CellsAt
<1>9. t.size \in Nat /\ Len(Cipher(t, v, NonceOf(c))) = t.size
  <2>1. PICK ts \in Firmwares : \E i \in 1 .. Len(ts) : t = ts[i]
    BY DEF Known
  <2>2. t \in TableRec
    BY <2>1, FirmwareTables
  <2> QED
    BY <2>2 DEF TableRec, Cipher
<1> HIDE DEF x
<1>10. x = Cipher(t, v, NonceOf(c)) /\ t.size = e.len
  BY <1>5, <1>7, <1>8, <1>9
<1>11. PICK u \in Known : u.id = e.id /\ u.size = e.len /\ u.secret
  BY <1>1 DEF Describes
<1>12. t.id = u.id
  <2>1. PICK ts \in Firmwares : \E i \in 1 .. Len(ts) : t = ts[i]
    BY DEF Known
  <2>2. PICK i \in 1 .. Len(ts) : t = ts[i]
    BY <2>1
  <2>3. PICK us \in Firmwares : \E j \in 1 .. Len(us) : u = us[j]
    BY DEF Known
  <2>4. PICK j \in 1 .. Len(us) : u = us[j]
    BY <2>3
  <2>5. ts[i].secret /\ us[j].secret /\ ts[i].size = us[j].size
    BY <2>2, <2>4, <1>7, <1>10, <1>11
  <2>6. ts[i].id = us[j].id
    BY Zenon, <2>5, SealedSizesDiffer
  <2> QED
    BY <2>2, <2>4, <2>6
<1> QED
  BY Zenon, <1>10, <1>11, <1>12 DEF x

\* verify_plain accepts only cells that were written together for the table.
LEMMA PlainGenuine ==
  ASSUME Genuine, NEW e \in Entries, ~e.sealed, e.len # 0, PlainVerifies(e)
  PROVE  \E t \in Known, v \in Values :
           t.id = e.id /\ t.size = e.len /\ CellsAt(e.off, e.len) = Plain(t, v)
<1>1. Describes(e)
  BY DEF Entries
<1>2. PICK t \in Known, v \in Values : t.id = e.id /\ t.size = e.len /\ e.crc = Plain(t, v)
  BY <1>1 DEF Describes
<1> QED
  BY <1>2 DEF PlainVerifies

\* A record that read_record returns was stored for that very table, whole:
\* never another table's bytes and never parts of two stores, whatever was cut
\* short and whatever overlaps.
THEOREM ReadsGenuineAlways == Spec => []ReadsGenuine
<1>1. Genuine => ReadsGenuine
  <2> SUFFICES ASSUME Genuine, Ready, NEW k \in DOMAIN tables
               PROVE  LET e == ram[Find(ram, tables[k].id)]
                          payload == CellsAt(IF e.sealed THEN e.off + 1 ELSE e.off, e.len)
                      IN  e.len # 0 /\ Verifies(e) =>
                            \A i \in 1 .. e.len : /\ payload[i][2][1] = tables[k].id
                                                  /\ payload[i][2][4] = i
                                                  /\ payload[i][2][2] = payload[1][2][2]
                                                  /\ payload[i][2][3] = payload[1][2][3]
    BY Zenon DEF ReadsGenuine
  <2> DEFINE e == ram[Find(ram, tables[k].id)]
             pay == CellsAt(IF e.sealed THEN e.off + 1 ELSE e.off, e.len)
  <2> SUFFICES ASSUME e.len # 0, Verifies(e), NEW i \in 1 .. e.len
               PROVE  /\ pay[i][2][1] = tables[k].id
                      /\ pay[i][2][4] = i
                      /\ pay[i][2][2] = pay[1][2][2]
                      /\ pay[i][2][3] = pay[1][2][3]
    BY Zenon
  <2>1. e \in Entries /\ e.id = tables[k].id
    BY Zenon, OwnEntry DEF Ready
  <2> HIDE DEF e
  <2>2. e.len \in Nat /\ i \in 1 .. e.len /\ 1 \in 1 .. e.len
    BY <2>1 DEF Entries, Entry
  <2>3. CASE e.sealed
    <3>0. PICK t \in Known, v \in Values : \E n :
            t.id = e.id /\ t.size = e.len /\ CellsAt(e.off + 1, e.len) = Cipher(t, v, n)
      BY Zenon, <2>1, <2>3, SealedGenuine DEF Verifies
    <3>1. PICK n : t.id = e.id /\ t.size = e.len /\ CellsAt(e.off + 1, e.len) = Cipher(t, v, n)
      BY <3>0
    <3>2. pay = Cipher(t, v, n)
      BY <2>3, <3>1
    <3>3. \A j \in 1 .. e.len : pay[j] = CipherCell(n, t.id, v, t.ver, j)
      BY Zenon, <3>1, <3>2 DEF Cipher
    <3> HIDE DEF pay
    <3>4. \A j \in 1 .. e.len : /\ pay[j][2][1] = t.id /\ pay[j][2][2] = v
                                /\ pay[j][2][3] = t.ver /\ pay[j][2][4] = j
      BY <3>3 DEF CipherCell, Cell
    <3> QED
      BY <2>1, <2>2, <3>1, <3>4
  <2>4. CASE ~e.sealed
    <3>1. PICK t \in Known, v \in Values :
            t.id = e.id /\ t.size = e.len /\ CellsAt(e.off, e.len) = Plain(t, v)
      BY Zenon, <2>1, <2>4, PlainGenuine DEF Verifies
    <3>2. pay = Plain(t, v)
      BY <2>4, <3>1
    <3>3. \A j \in 1 .. e.len : pay[j] = PlainCell(t.id, v, t.ver, j)
      BY Zenon, <3>1, <3>2 DEF Plain
    <3> HIDE DEF pay
    <3>4. \A j \in 1 .. e.len : /\ pay[j][2][1] = t.id /\ pay[j][2][2] = v
                                /\ pay[j][2][3] = t.ver /\ pay[j][2][4] = j
      BY <3>3 DEF PlainCell, Cell
    <3> QED
      BY <2>1, <2>2, <3>1, <3>4
  <2> QED
    BY Zenon, <2>3, <2>4
<1> QED
  BY <1>1, GenuineAlways, PTL

----------------------------------------------------------------------------
(* Geometry is inductive.                                                  *)

\* A blank medium holds no layout.
LEMMA GeometryInit == Init => Geometry
<1> SUFFICES ASSUME Init PROVE Geometry
  OBVIOUS
<1>1. todo = <<>> /\ job = "none" /\ status = "off" /\ view = disk /\ disk.super = 0
  BY DEF Init, BlankStore
<1>2. Len(<<>>) = 0
  BY EmptySeq
<1>3. Ordered
  BY <1>1, <1>2 DEF Ordered
<1> QED
  BY <1>1, <1>3 DEF Geometry, Laid

\* Placed looks at offsets and slot lengths alone.
LEMMA PlacedSame ==
  ASSUME NEW d, NEW e, NEW ts, Placed(d, ts),
         \A i \in 1 .. Len(ts) : e[i].off = d[i].off /\ e[i].cap = d[i].cap
  PROVE  Placed(e, ts)
  BY DEF Placed

\* What an adopted directory promises: the slots are some firmware's.
LEMMA AdoptedPlaced ==
  ASSUME StoreGenuine(view), Readable, Laid(view)
  PROVE  /\ \E ts \in Firmwares : Len(Directory) = Len(ts) /\ Placed(Directory, ts)
         /\ view.super = Len(Directory)
         /\ \A i \in 1 .. Len(Directory) : view.dir[i] = Directory[i]
<1>1. Len(Directory) = view.super /\ \A i \in 1 .. view.super : Directory[i] = view.dir[i]
  BY DirectoryRead
<1>2. view.super # 0
  BY DEF Readable
<1>3. PICK ts \in Firmwares : view.super = Len(ts) /\ Placed(view.dir, ts)
  BY <1>2 DEF Laid
<1>4. Placed(Directory, ts)
  BY <1>1, <1>3, PlacedSame
<1> QED
  BY <1>1, <1>3, <1>4

\* mount(): a format or repack begins, or a directory is adopted as it is.
LEMMA GeometryBoot ==
  ASSUME Genuine, Geometry, Boot
  PROVE  Geometry'
<1>0. status = "off" /\ job = "none" /\ UNCHANGED <<medium, disk, view>>
  BY DEF Boot, Stay
<1>1. PICK ts \in Firmwares :
        tables' = ts /\ (Format(ts) \/ Adopt(ts) \/ Repack(ts) \/ RepackStarved(ts))
  BY DEF Boot
<1>2. todo = <<>> /\ StoreGenuine(view) /\ whole \in BOOLEAN
  BY <1>0 DEF Genuine
<1>3. view = disk /\ (whole => Laid(disk))
  BY <1>0 DEF Geometry
<1>4. view' = disk' /\ (whole => Laid(disk'))
  BY <1>0, <1>3
<1>5. Len(<<>>) = 0
  BY EmptySeq
<1>6. CASE /\ job' \in {"format", "repack"} /\ status' = "mounting" /\ whole' = whole
           /\ LayQueue(todo', ram') /\ Len(ram') = Len(ts) /\ Placed(ram', ts)
           /\ job' = "format" => view.super = 0
  <2>1. Ordered'
    BY <1>6 DEF LayQueue, Ordered
  <2>2. Underway'
    BY Zenon, <1>0, <1>6 DEF LayQueue, Underway, Pending
  <2> QED
    BY <1>4, <1>6, <2>1, <2>2 DEF Geometry
<1>7. CASE /\ Adopt(ts) /\ job' = "none" /\ todo' = todo /\ status' = "mounted"
           /\ whole' = whole /\ ram' = Directory
  <2>1. Ordered'
    BY <1>2, <1>5, <1>7 DEF Ordered
  <2>2. ASSUME whole
        PROVE  SameSlots' /\ \E us \in Firmwares : Len(ram') = Len(us) /\ Placed(ram', us)
    <3>1. /\ \E us \in Firmwares : Len(Directory) = Len(us) /\ Placed(Directory, us)
          /\ view.super = Len(Directory)
          /\ \A i \in 1 .. Len(Directory) : view.dir[i] = Directory[i]
      BY <1>2, <1>3, <1>7, <2>2, AdoptedPlaced DEF Adopt
    <3>2. view' = view /\ ram' = Directory
      BY <1>0, <1>7
    <3> QED
      BY <3>1, <3>2 DEF SameSlots
  <2> QED
    BY <1>4, <1>7, <2>1, <2>2 DEF Geometry
<1>8. CASE /\ job' = "none" /\ todo' = todo
           /\ status' = IF medium = "fs" THEN "failed" ELSE "mounted"
           /\ whole' = (whole /\ medium = "fs")
  <2>1. Ordered'
    BY <1>2, <1>5, <1>8 DEF Ordered
  <2>2. whole' => whole /\ status' = "failed"
    BY Zenon, <1>8
  <2> QED
    BY <1>4, <1>8, <2>1, <2>2 DEF Geometry
<1> QED
  BY <1>0, <1>1, <1>6, <1>7, <1>8, BootLeaves

\* write_record and clear_record queue no superblock.
LEMMA GeometryRecord ==
  ASSUME Genuine, Geometry, WriteRecord \/ ClearRecord
  PROVE  Geometry'
<1>1. /\ status = "mounted" /\ job = "none" /\ job' = "record" /\ RecordQueue(todo')
      /\ UNCHANGED <<medium, disk, view, tables, ram, status, whole>>
  BY RecordQueued
<1>2. Ordered'
  BY <1>1 DEF RecordQueue, Ordered
<1>3. view' = disk' /\ (whole' => /\ Laid(disk)'
                                  /\ \E ts \in Firmwares : Len(ram') = Len(ts) /\ Placed(ram', ts)
                                  /\ SameSlots')
  BY <1>1 DEF Geometry, SameSlots
<1> QED
  BY <1>1, <1>2, <1>3 DEF Geometry

\* After a power loss the medium is what the next boot reads.
LEMMA GeometryPowerLoss ==
  ASSUME Genuine, Geometry, PowerLoss
  PROVE  Geometry'
<1>1. /\ view' = disk /\ disk' = disk /\ status' = "off" /\ job' = "none"
      /\ todo' = <<>> /\ whole' = (whole /\ ~(medium = "fs" /\ job = "repack"))
  BY DEF PowerLoss
<1>2. Len(<<>>) = 0
  BY EmptySeq
<1>3. Ordered'
  BY <1>1, <1>2 DEF Ordered
<1>4. whole' => Laid(disk')
  BY Zenon, <1>1 DEF Geometry
<1> QED
  BY <1>1, <1>3, <1>4 DEF Geometry

\* The calls that remain come in the same order, and format() and repack()
\* leave m_directory as it is.
LEMMA OrderedRest ==
  ASSUME Genuine, Ordered, todo # <<>>, todo' = Tail(todo), ram' = RamAfter(todo[1]),
         job' = job
  PROVE  /\ Ordered'
         /\ job \in {"format", "repack"} => \A i \in 1 .. Len(ram) : ram'[i] = ram[i]
<1> DEFINE c == todo[1]
<1>1. /\ Len(todo) \in Nat \ {0} /\ Len(todo') = Len(todo) - 1
      /\ \A k \in 1 .. Len(todo) - 1 : todo'[k] = todo[k + 1]
  BY Zenon, RestGood
<1>2. \A k \in 1 .. Len(todo') : k + 1 \in 1 .. Len(todo) /\ todo'[k] = todo[k + 1]
  BY <1>1
<1>3. /\ Len(ram') = Len(ram)
      /\ \A i \in 1 .. Len(ram) :
           ram'[i] = IF c.call = "entry" /\ i = c.at THEN c.entry ELSE ram[i]
  BY RamKeeps
<1>4. 1 \in 1 .. Len(todo)
  BY <1>1
<1>5. \A k, l \in 1 .. Len(todo') : todo'[k].call = "super" /\ todo'[l].call = "entry" => l < k
  <2> SUFFICES ASSUME NEW k \in 1 .. Len(todo'), NEW l \in 1 .. Len(todo'),
                      todo'[k].call = "super", todo'[l].call = "entry"
               PROVE  l < k
    OBVIOUS
  <2>1. l + 1 < k + 1
    BY <1>2 DEF Ordered
  <2> QED
    BY <2>1, <1>1
<1>6. job \in {"format", "repack"} => \A i \in 1 .. Len(ram) : ram'[i] = ram[i]
  BY <1>3, <1>4 DEF Ordered
<1>7. ASSUME job \in {"format", "repack"}, NEW k \in 1 .. Len(todo')
      PROVE  /\ todo'[k].call = "entry" => todo'[k].entry = ram'[todo'[k].at]
             /\ todo'[k].call = "super" => todo'[k].at = Len(ram')
  <2>1. k + 1 \in 1 .. Len(todo) /\ todo'[k] = todo[k + 1]
    BY <1>2
  <2>2. /\ todo'[k].call = "entry" => todo'[k].entry = ram[todo'[k].at]
        /\ todo'[k].call = "super" => todo'[k].at = Len(ram)
    BY <1>7, <2>1 DEF Ordered
  <2>3. todo'[k].call = "entry" => todo'[k].at \in 1 .. Len(ram)
    BY <2>1 DEF Genuine, CallGenuine
  <2> QED
    BY <2>2, <2>3, <1>3, <1>6, <1>7
<1>8. job = "record" => \A k \in 1 .. Len(todo') : todo'[k].call # "super"
  BY <1>2 DEF Ordered
<1> QED
  BY <1>5, <1>6, <1>7, <1>8 DEF Ordered

\* A store w that took the call c.
Took(w, c) ==
  /\ w.super = IF c.call = "super" THEN c.at ELSE view.super
  /\ \A i \in 1 .. Len(ram) :
       w.dir[i] = IF c.call = "entry" /\ i = c.at THEN c.entry ELSE view.dir[i]

\* One more call of format() or repack(): what is not on the store is still
\* among the calls left.
LEMMA LayingOn ==
  ASSUME Genuine, Ordered, Underway, job \in {"format", "repack"}, todo # <<>>,
         NEW w, Took(w, todo[1])
  PROVE  /\ \A i \in 1 .. Len(ram) :
              \/ w.dir[i] = ram[i]
              \/ \E k \in 1 .. Len(Tail(todo)) :
                   Tail(todo)[k].call = "entry" /\ Tail(todo)[k].at = i
         /\ w.super = Len(ram) \/ \E k \in 1 .. Len(Tail(todo)) : Tail(todo)[k].call = "super"
         /\ job = "format" =>
              \/ w.super = 0
              \/ /\ w.super = Len(ram)
                 /\ ~ \E k \in 1 .. Len(Tail(todo)) : Tail(todo)[k].call = "entry"
<1> DEFINE c == todo[1]
           q == Tail(todo)
<1>1. /\ Len(todo) \in Nat \ {0} /\ Len(q) = Len(todo) - 1
      /\ \A k \in 1 .. Len(todo) - 1 : q[k] = todo[k + 1]
  BY Zenon, RestGood
<1> HIDE DEF q
<1>2. \A k \in 1 .. Len(todo) : k = 1 \/ (k - 1 \in 1 .. Len(q) /\ q[k - 1] = todo[k])
  BY <1>1
<1>3. \A k \in 1 .. Len(q) : k + 1 \in 1 .. Len(todo) /\ q[k] = todo[k + 1] /\ ~(k + 1 < 1)
  BY <1>1
<1>4. 1 \in 1 .. Len(todo)
  BY <1>1
<1>5. ASSUME NEW i \in 1 .. Len(ram)
      PROVE  w.dir[i] = ram[i] \/ \E k \in 1 .. Len(q) : q[k].call = "entry" /\ q[k].at = i
  <2>1. CASE c.call = "entry" /\ c.at = i
    BY <2>1, <1>4 DEF Took, Ordered
  <2>2. CASE ~(c.call = "entry" /\ c.at = i)
    <3>1. w.dir[i] = view.dir[i]
      BY <2>2 DEF Took
    <3>2. CASE view.dir[i] = ram[i]
      BY <3>1, <3>2
    <3>3. ASSUME NEW k \in 1 .. Len(todo), todo[k].call = "entry", todo[k].at = i
          PROVE  \E l \in 1 .. Len(q) : q[l].call = "entry" /\ q[l].at = i
      BY Zenon, <1>2, <2>2, <3>3
    <3> QED
      BY <3>2, <3>3 DEF Underway
  <2> QED
    BY <2>1, <2>2
<1>6. CASE c.call = "super"
  <2>1. w.super = Len(ram)
    BY <1>4, <1>6 DEF Took, Ordered
  <2>2. ~ \E k \in 1 .. Len(q) : q[k].call = "entry"
    BY <1>3, <1>4, <1>6 DEF Ordered
  <2> QED
    BY <1>5, <2>1, <2>2 DEF q
<1>7. CASE c.call # "super"
  <2>1. w.super = view.super
    BY <1>7 DEF Took
  <2>2. w.super = Len(ram) \/ \E k \in 1 .. Len(q) : q[k].call = "super"
    <3>1. CASE view.super = Len(ram)
      BY <2>1, <3>1
    <3>2. ASSUME NEW k \in 1 .. Len(todo), todo[k].call = "super"
          PROVE  \E l \in 1 .. Len(q) : q[l].call = "super"
      BY <1>2, <1>7, <3>2
    <3> QED
      BY <3>1, <3>2 DEF Underway, Pending
  <2>3. ~Pending("entry") => ~ \E k \in 1 .. Len(q) : q[k].call = "entry"
    BY <1>3 DEF Pending
  <2>4. job = "format" =>
          \/ w.super = 0
          \/ w.super = Len(ram) /\ ~ \E k \in 1 .. Len(q) : q[k].call = "entry"
    BY <2>1, <2>3 DEF Underway
  <2> QED
    BY <1>5, <2>2, <2>4 DEF q
<1> QED
  BY <1>6, <1>7 DEF q

\* A record's call leaves every slot where it is.
LEMMA RecordOn ==
  ASSUME Genuine, Ordered, SameSlots, job = "record", todo # <<>>, NEW w, Took(w, todo[1])
  PROVE  /\ w.super = Len(ram)
         /\ \A i \in 1 .. Len(ram) : w.dir[i].off = ram[i].off /\ w.dir[i].cap = ram[i].cap
<1> DEFINE c == todo[1]
<1>1. Len(todo) \in Nat \ {0}
  BY Zenon, RestGood
<1>2. c.call # "super"
  BY <1>1 DEF Ordered
<1>3. c.call = "entry" => c.entry.off = ram[c.at].off /\ c.entry.cap = ram[c.at].cap
  BY RamKeeps DEF CallGenuine
<1> QED
  BY <1>2, <1>3 DEF Took, SameSlots

\* A store whose directory is laid as ram is laid as some firmware's.
LEMMA LaidAsRam ==
  ASSUME NEW w, w.super = Len(ram),
         \A i \in 1 .. Len(ram) : w.dir[i].off = ram[i].off /\ w.dir[i].cap = ram[i].cap,
         \E ts \in Firmwares : Len(ram) = Len(ts) /\ Placed(ram, ts)
  PROVE  Laid(w)
<1>1. PICK ts \in Firmwares : Len(ram) = Len(ts) /\ Placed(ram, ts)
  OBVIOUS
<1>2. Placed(w.dir, ts)
  BY <1>1, PlacedSame
<1> QED
  BY <1>1, <1>2 DEF Laid

\* A store call that succeeds: the last one of a format or repack leaves the
\* layout of m_directory on the store.
LEMMA GeometryStoreCall ==
  ASSUME Genuine, Geometry, StoreCall
  PROVE  Geometry'
<1> DEFINE c == todo[1]
           w == Written(view, c)
<1>1. todo # <<>>
  BY DEF StoreCall
<1>2. /\ CallGenuine(c, ram) /\ (c.call = "entry" => c.at \in 1 .. MaxTables)
      /\ Len(RamAfter(c)) = Len(ram) /\ Len(ram) \in Nat
      /\ \A i \in 1 .. Len(ram) :
           RamAfter(c)[i].off = ram[i].off /\ RamAfter(c)[i].cap = ram[i].cap
  BY <1>1, RamKeeps
<1>3. Head(todo) = c /\ (Tail(todo) = <<>> <=> c.call = "flush")
  BY <1>1, RestGood
<1>4. Took(w, c)
  <2>1. StoreGenuine(view) /\ Len(ram) <= MaxTables
    BY DEF Genuine
  <2>0. CallGenuine(c, ram) /\ (c.call = "entry" => c.at \in 1 .. MaxTables)
    BY Zenon, <1>2
  <2>2. Wrote(view, c, w)
    BY Zenon, <2>0, <2>1, WrittenStore
  <2>3. \A i \in 1 .. Len(ram) : i \in 1 .. MaxTables
    BY <1>2, <2>1, DbConstants
  <2> QED
    BY Zenon, <2>2, <2>3 DEF Took, Wrote
<1>5. /\ view' = w /\ disk' = (IF Persists(c) THEN w ELSE disk)
      /\ ram' = RamAfter(c) /\ todo' = Tail(todo)
      /\ job' = (IF todo' = <<>> THEN "none" ELSE job)
      /\ status' = (IF todo' = <<>> THEN "mounted" ELSE status)
      /\ UNCHANGED <<medium, tables, whole>>
  BY <1>3 DEF StoreCall
<1>6. /\ job \in {"format", "repack", "record"}
      /\ status = IF job = "record" THEN "mounted" ELSE "mounting"
  BY <1>1 DEF Genuine
<1> HIDE DEF w, c
<1>7. Ordered'
  <2>1. CASE todo' = <<>>
    <3>1. job' = "none" /\ Len(todo') = 0
      BY Zenon, <1>5, <2>1, EmptySeq
    <3> QED
      BY <3>1 DEF Ordered
  <2>2. CASE todo' # <<>>
    BY <1>1, <1>5, <2>2, OrderedRest DEF Geometry, c
  <2> QED
    BY <2>1, <2>2
<1>8. job' = "none" \/ medium = "fs" => view' = disk'
  BY <1>3, <1>5, <1>6 DEF Persists
<1>9. job \in {"format", "repack"} =>
        /\ \A i \in 1 .. Len(ram) :
             \/ w.dir[i] = ram[i]
             \/ \E k \in 1 .. Len(todo') : todo'[k].call = "entry" /\ todo'[k].at = i
        /\ w.super = Len(ram) \/ \E k \in 1 .. Len(todo') : todo'[k].call = "super"
        /\ job = "format" =>
             \/ w.super = 0
             \/ w.super = Len(ram) /\ ~ \E k \in 1 .. Len(todo') : todo'[k].call = "entry"
  <2> SUFFICES ASSUME job \in {"format", "repack"} PROVE <1>9!2
    OBVIOUS
  <2>1. Ordered /\ Underway
    BY DEF Geometry
  <2>2. Took(w, todo[1]) /\ todo' = Tail(todo)
    BY <1>4, <1>5 DEF c
  <2> QED
    BY Zenon, <1>1, <2>1, <2>2, LayingOn
<1>10. job' \in {"format", "repack"} => Underway'
  <2> SUFFICES ASSUME job' \in {"format", "repack"} PROVE Underway'
    OBVIOUS
  <2>1. job' = job
    BY <1>5
  <2>2. \A i \in 1 .. Len(ram) : ram'[i] = ram[i]
    BY <1>1, <1>5, <2>1, OrderedRest DEF Geometry, c
  <2> QED
    BY Zenon, <1>2, <1>5, <1>9, <2>1, <2>2 DEF Underway, Pending
<1>11. ASSUME whole
       PROVE  /\ \E ts \in Firmwares : Len(ram') = Len(ts) /\ Placed(ram', ts)
              /\ \E ts \in Firmwares : Len(ram) = Len(ts) /\ Placed(ram, ts)
  <2>1. PICK ts \in Firmwares : Len(ram) = Len(ts) /\ Placed(ram, ts)
    BY <1>6, <1>11 DEF Geometry
  <2>2. Len(ram') = Len(ts) /\ Placed(ram', ts)
    BY <1>2, <1>5, <2>1, PlacedSame
  <2> QED
    BY <2>1, <2>2
<1>12. ASSUME whole, todo' = <<>> \/ job = "record"
       PROVE  SameSlots' /\ Laid(view')
  <2>1. /\ w.super = Len(ram)
        /\ \A i \in 1 .. Len(ram) : w.dir[i].off = ram[i].off /\ w.dir[i].cap = ram[i].cap
    <3>1. CASE job = "record"
      BY <1>1, <1>4, <1>6, <1>12, <3>1, RecordOn DEF Geometry, c
    <3>2. CASE job # "record"
      <4>1. todo' = <<>> /\ Len(todo') = 0
        BY <1>12, <3>2, EmptySeq
      <4>2. ~ \E k \in 1 .. Len(todo') : TRUE
        BY <4>1
      <4> QED
        BY <1>6, <1>9, <3>2, <4>2
    <3> QED
      BY <3>1, <3>2
  <2>2. Laid(w)
    BY <1>11, <1>12, <2>1, LaidAsRam
  <2> QED
    BY <1>2, <1>5, <2>1, <2>2 DEF SameSlots
<1>13. ASSUME whole, medium = "fs", job = "format"
       PROVE  Laid(view')
  <2>1. CASE w.super = 0
    BY <1>5, <2>1 DEF Laid
  <2>2. CASE w.super = Len(ram) /\ \A i \in 1 .. Len(ram) : w.dir[i] = ram[i]
    BY <1>5, <1>11, <1>13, <2>2, LaidAsRam
  <2> QED
    BY <1>9, <1>13, <2>1, <2>2
<1>14. whole => (medium = "fs" /\ job' = "repack") \/ Laid(disk')
  <2> SUFFICES ASSUME whole PROVE (medium = "fs" /\ job' = "repack") \/ Laid(disk')
    OBVIOUS
  <2>1. CASE medium = "fs"
    <3>1. disk' = view'
      BY <1>8, <2>1
    <3> QED
      BY <1>5, <1>6, <1>12, <1>13, <2>1, <3>1
  <2>2. CASE medium # "fs" /\ todo' = <<>>
    BY <1>5, <1>8, <1>12, <2>2
  <2>3. CASE medium # "fs" /\ todo' # <<>>
    BY <1>3, <1>5, <2>3 DEF Geometry, Persists
  <2> QED
    BY <2>1, <2>2, <2>3
<1>15. whole /\ status' = "mounted" => SameSlots'
  BY <1>5, <1>6, <1>12
<1> QED
  BY <1>5, <1>7, <1>8, <1>10, <1>11, <1>14, <1>15 DEF Geometry

\* A store call that fails ends a record or a format where it stands.
LEMMA GeometryStoreFails ==
  ASSUME Genuine, Geometry, StoreFails
  PROVE  Geometry'
<1> DEFINE c == todo[1]
<1>1. todo # <<>> /\ medium = "fs"
  BY DEF StoreFails
<1>2. /\ Len(RamAfter(c)) = Len(ram) /\ Len(ram) \in Nat
      /\ \A i \in 1 .. Len(ram) :
           RamAfter(c)[i].off = ram[i].off /\ RamAfter(c)[i].cap = ram[i].cap
  BY <1>1, RamKeeps
<1>3. Head(todo) = c
  BY <1>1, RestGood
<1>4. /\ ram' = RamAfter(c) /\ UNCHANGED <<medium, disk, view, tables>>
      /\ whole' = (whole /\ job # "repack")
      /\ \/ /\ job = "repack" /\ c.call = "cells" /\ todo' = Tail(todo) /\ UNCHANGED <<job, status>>
         \/ /\ todo' = <<>> /\ job' = "none"
            /\ status' = IF job = "record" THEN status ELSE "failed"
  BY <1>3 DEF StoreFails
<1> HIDE DEF c
<1>5. view' = disk'
  BY <1>1, <1>4 DEF Geometry
<1>6. CASE job = "repack" /\ c.call = "cells" /\ todo' = Tail(todo) /\ UNCHANGED <<job, status>>
  <2>1. Ordered' /\ \A i \in 1 .. Len(ram) : ram'[i] = ram[i]
    BY <1>1, <1>4, <1>6, OrderedRest DEF Geometry, c
  <2>2. Took(view, c)
    BY <1>6 DEF Took
  <2>3. /\ \A i \in 1 .. Len(ram) :
             \/ view.dir[i] = ram[i]
             \/ \E k \in 1 .. Len(todo') : todo'[k].call = "entry" /\ todo'[k].at = i
        /\ view.super = Len(ram) \/ \E k \in 1 .. Len(todo') : todo'[k].call = "super"
    <3>1. Ordered /\ Underway
      BY <1>6 DEF Geometry
    <3>2. Took(view, todo[1])
      BY <2>2 DEF c
    <3> QED
      BY Zenon, <1>1, <1>6, <3>1, <3>2, LayingOn
  <2>4. Underway'
    BY <1>2, <1>4, <1>6, <2>1, <2>3 DEF Underway, Pending
  <2> QED
    BY Zenon, <1>4, <1>5, <1>6, <2>1, <2>4 DEF Geometry
<1>7. CASE /\ todo' = <<>> /\ job' = "none"
           /\ status' = IF job = "record" THEN status ELSE "failed"
  <2>1. Len(todo') = 0
    BY <1>7, EmptySeq
  <2>2. Ordered'
    BY <1>7, <2>1 DEF Ordered
  <2>3. ASSUME whole'
        PROVE  Laid(disk')
    BY Zenon, <1>4, <2>3 DEF Geometry
  <2>4. ASSUME whole', status' \in {"mounting", "mounted"}
        PROVE  SameSlots' /\ \E ts \in Firmwares : Len(ram') = Len(ts) /\ Placed(ram', ts)
    <3>1. job = "record" /\ status = "mounted" /\ whole
      BY <1>1, <1>4, <1>7, <2>4 DEF Genuine
    <3>2. PICK ts \in Firmwares : Len(ram) = Len(ts) /\ Placed(ram, ts)
      BY <3>1 DEF Geometry
    <3>3. Len(ram') = Len(ts) /\ Placed(ram', ts)
      BY <1>2, <1>4, <3>2, PlacedSame
    <3>4. SameSlots
      BY <3>1 DEF Geometry
    <3>5. SameSlots'
      BY Zenon, <1>2, <1>4, <3>4 DEF SameSlots
    <3> QED
      BY <3>3, <3>5
  <2> QED
    BY <1>5, <1>7, <2>2, <2>3, <2>4 DEF Geometry
<1> QED
  BY <1>4, <1>6, <1>7

\* Every step keeps Geometry.
LEMMA GeometryStep == Genuine /\ Geometry /\ [Next]_vars => Geometry'
<1> SUFFICES ASSUME Genuine, Geometry, [Next]_vars PROVE Geometry'
  OBVIOUS
<1>1. CASE Boot
  BY <1>1, GeometryBoot
<1>2. CASE WriteRecord \/ ClearRecord
  BY <1>2, GeometryRecord
<1>3. CASE StoreCall
  BY <1>3, GeometryStoreCall
<1>4. CASE StoreFails
  BY <1>4, GeometryStoreFails
<1>5. CASE PowerLoss
  BY <1>5, GeometryPowerLoss
<1>6. CASE UNCHANGED vars
  BY Zenon, <1>6 DEF vars, Geometry, Ordered, Underway, Pending, SameSlots
<1> QED
  BY <1>1, <1>2, <1>3, <1>4, <1>5, <1>6 DEF Next

\* Wherever an operation of the store is cut short, short of a repack on the
\* container, the directory the next boot reads is laid out as some firmware's,
\* and m_directory of a mounted layout agrees with it slot by slot.
THEOREM GeometryAlways == Spec => []Geometry
  BY GeometryInit, GeometryStep, GenuineAlways, PTL DEF Spec

\* Two ranges, one of which ends before the other begins.
LEMMA RangesApart ==
  ASSUME NEW a \in Nat, NEW m \in Nat, NEW b \in Nat, NEW n \in Nat,
         a + m <= b \/ b + n <= a
  PROVE  (a .. a + m - 1) \cap (b .. b + n - 1) = {}
  OBVIOUS

\* While no repack was cut short, the slots of a mounted layout share no byte:
\* for every list of tables, medium size and number of boots, faults and
\* records.
THEOREM SlotsDisjointAlways == Spec => []SlotsDisjoint
<1>1. ASSUME Genuine, Geometry
      PROVE  SlotsDisjoint
  <2> SUFFICES ASSUME status = "mounted", whole PROVE Apart
    BY DEF SlotsDisjoint, Ready
  <2>1. PICK ts \in Firmwares : Len(ram) = Len(ts) /\ Placed(ram, ts)
    BY <1>1 DEF Geometry
  <2>2. DOMAIN ram = 1 .. Len(ts) /\ Len(ts) \in Nat
    BY <1>1, <2>1, LenProperties DEF Genuine
  <2>3. \A i \in 1 .. Len(ts) : ram[i].off \in Nat /\ ram[i].cap \in Nat
    BY <2>1, OffsetsNat, FirmwareTables DEF Placed
  <2>4. ASSUME NEW i \in 1 .. Len(ts), NEW j \in 1 .. Len(ts), i < j
        PROVE  ram[i].off + ram[i].cap <= ram[j].off
    BY <2>1, <2>4, SlotsInOrder DEF Placed
  <2>5. ASSUME NEW i \in 1 .. Len(ts), NEW j \in 1 .. Len(ts), i # j
        PROVE  SlotCells(ram[i]) \cap SlotCells(ram[j]) = {}
    <3>1. \/ ram[i].off + ram[i].cap <= ram[j].off
          \/ ram[j].off + ram[j].cap <= ram[i].off
      BY <2>2, <2>4, <2>5
    <3>2. /\ ram[i].off \in Nat /\ ram[i].cap \in Nat
          /\ ram[j].off \in Nat /\ ram[j].cap \in Nat
      BY <2>3
    <3> QED
      BY Zenon, <3>1, <3>2, RangesApart DEF SlotCells
  <2> QED
    BY <2>2, <2>5 DEF Apart
<1> QED
  BY <1>1, GenuineAlways, GeometryAlways, PTL
=============================================================================
