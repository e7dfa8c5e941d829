----------------------------- MODULE HpackTable -----------------------------
(***************************************************************************)
(* The header tables of HPACK as values with one operator per method: the  *)
(* static table as the encoder (table.rs, index_static) and as the decoder *)
(* (decoder.rs, get_static) write it down, the encoder's dynamic table     *)
(* with its Robin Hood index, and the decoder's dynamic table.             *)
(*                                                                         *)
(* A header is a record [name, value, sensitive].  Encoder table:          *)
(*   slots     newest first, [hash, header, next]; next is the index of    *)
(*             the next newer slot with the same name                      *)
(*   indices   0..cap-1 -> Pos [index, hash] or None; `mask` is cap - 1    *)
(*   inserted  number of insertions; a stored index i names the slot at    *)
(*             position i + inserted, both wrap like usize                 *)
(***************************************************************************)
EXTENDS Integers, Sequences, SequencesExt, FiniteSets, FiniteSetsExt, Functions

CONSTANTS
    NameLen,    \* name -> its length, the 32 bytes of an entry included
    ValueLen,   \* value -> its length
    Hash,       \* name -> hash_header()
    RawCap,     \* first size of `indices`, 8 in the code
    Width,      \* number of values of usize, 2^64 in the code
    None

ASSUME TableAssumption ==
    /\ RawCap \in Nat /\ RawCap >= 4
    /\ Width \in Nat \ {0}
    /\ \A n \in DOMAIN NameLen : NameLen[n] \in Nat \ {0} /\ Hash[n] \in Nat
    /\ \A v \in DOMAIN ValueLen : ValueLen[v] \in Nat
    /\ None \notin Nat
    /\ None \notin [index : Nat, hash : Nat]

DYN_OFFSET == 62

HeaderLen(h) == NameLen[h.name] + ValueLen[h.value]

-----------------------------------------------------------------------------
(* Static table.                                                           *)

(* get_static(): name and value of every entry. *)
GetStatic ==
    << <<":authority", "">>, <<":method", "GET">>, <<":method", "POST">>,
       <<":path", "/">>, <<":path", "/index.html">>, <<":scheme", "http">>,
       <<":scheme", "https">>, <<":status", "200">>, <<":status", "204">>,
       <<":status", "206">>, <<":status", "304">>, <<":status", "400">>,
       <<":status", "404">>, <<":status", "500">>, <<"accept-charset", "">>,
       <<"accept-encoding", "gzip, deflate">>, <<"accept-language", "">>,
       <<"accept-ranges", "">>, <<"accept", "">>,
       <<"access-control-allow-origin", "">>, <<"age", "">>, <<"allow", "">>,
       <<"authorization", "">>, <<"cache-control", "">>,
       <<"content-disposition", "">>, <<"content-encoding", "">>,
       <<"content-language", "">>, <<"content-length", "">>,
       <<"content-location", "">>, <<"content-range", "">>,
       <<"content-type", "">>, <<"cookie", "">>, <<"date", "">>,
       <<"etag", "">>, <<"expect", "">>, <<"expires", "">>, <<"from", "">>,
       <<"host", "">>, <<"if-match", "">>, <<"if-modified-since", "">>,
       <<"if-none-match", "">>, <<"if-range", "">>,
       <<"if-unmodified-since", "">>, <<"last-modified", "">>, <<"link", "">>,
       <<"location", "">>, <<"max-forwards", "">>,
       <<"proxy-authenticate", "">>, <<"proxy-authorization", "">>,
       <<"range", "">>, <<"referer", "">>, <<"refresh", "">>,
       <<"retry-after", "">>, <<"server", "">>, <<"set-cookie", "">>,
       <<"strict-transport-security", "">>, <<"transfer-encoding", "">>,
       <<"user-agent", "">>, <<"vary", "">>, <<"via", "">>,
       <<"www-authenticate", "">> >>

(* The arms of index_static(): the values that match in full, and the index *)
(* of a name with another value.                                            *)
StaticValues ==
    { <<":method", "GET", 2>>, <<":method", "POST", 3>>, <<":path", "/", 4>>,
      <<":path", "/index.html", 5>>, <<":scheme", "http", 6>>,
      <<":scheme", "https", 7>>, <<":status", "200", 8>>,
      <<":status", "204", 9>>, <<":status", "206", 10>>,
      <<":status", "304", 11>>, <<":status", "400", 12>>,
      <<":status", "404", 13>>, <<":status", "500", 14>>,
      <<"accept-encoding", "gzip, deflate", 16>> }

StaticNames ==
    { <<":authority", 1>>, <<":method", 2>>, <<":path", 4>>, <<":scheme", 6>>,
      <<":status", 8>>, <<"accept-charset", 15>>, <<"accept-encoding", 16>>,
      <<"accept-language", 17>>, <<"accept-ranges", 18>>, <<"accept", 19>>,
      <<"access-control-allow-origin", 20>>, <<"age", 21>>, <<"allow", 22>>,
      <<"authorization", 23>>, <<"cache-control", 24>>,
      <<"content-disposition", 25>>, <<"content-encoding", 26>>,
      <<"content-language", 27>>, <<"content-length", 28>>,
      <<"content-location", 29>>, <<"content-range", 30>>,
      <<"content-type", 31>>, <<"cookie", 32>>, <<"date", 33>>,
      <<"etag", 34>>, <<"expect", 35>>, <<"expires", 36>>, <<"from", 37>>,
      <<"host", 38>>, <<"if-match", 39>>, <<"if-modified-since", 40>>,
      <<"if-none-match", 41>>, <<"if-range", 42>>,
      <<"if-unmodified-since", 43>>, <<"last-modified", 44>>, <<"link", 45>>,
      <<"location", 46>>, <<"max-forwards", 47>>,
      <<"proxy-authenticate", 48>>, <<"proxy-authorization", 49>>,
      <<"range", 50>>, <<"referer", 51>>, <<"refresh", 52>>,
      <<"retry-after", 53>>, <<"server", 54>>, <<"set-cookie", 55>>,
      <<"strict-transport-security", 56>>, <<"transfer-encoding", 57>>,
      <<"user-agent", 58>>, <<"vary", 59>>, <<"via", 60>>,
      <<"www-authenticate", 61>> }

(* index_static(): None, or the index and whether the value matches too. *)
IndexStatic(name, value) ==
    LET full == {arm \in StaticValues : arm[1] = name /\ arm[2] = value}
        named == {arm \in StaticNames : arm[1] = name}
    IN  IF full # {} THEN [n |-> (CHOOSE arm \in full : TRUE)[3], full |-> TRUE]
        ELSE IF named # {} THEN [n |-> (CHOOSE arm \in named : TRUE)[2], full |-> FALSE]
        ELSE None

(* Header::skip_value_index() *)
SkipValueIndex(h) ==
    h.name \in {"age", "authorization", "content-length", "etag", "if-modified-since",
                "if-none-match", "location", "cookie", "set-cookie", ":path"}

(* Header::value_eq() of two headers with one name; false for two statuses. *)
ValueEq(a, b) == a.name # ":status" /\ a.value = b.value

-----------------------------------------------------------------------------
(* The encoder's table.                                                    *)

NewTable(max) == [indices |-> <<>>, cap |-> 0, slots |-> <<>>, inserted |-> 0, size |-> 0, max |-> max]

Capacity(cap) == cap - (cap \div 4)

(* Wrapping arithmetic of stored indices; positions in `slots` start at 0. *)
RealIdx(t, index) == (index + t.inserted) % Width

StoredIdx(t, real) == (real - t.inserted) % Width

Slot(t, index) == t.slots[RealIdx(t, index) + 1]

(* k places after the desired position of a hash. *)
Probe(t, hash, k) == (hash + k) % t.cap

(* probe_distance() of the entry at `place`. *)
Distance(t, place) == (place - t.indices[place].hash) % t.cap

Free(t, place) == t.indices[place] = None

(* remove_phase_two(): displaced entries after `place` move back by one. *)
RemovePhaseTwo(t, place) ==
    LET At(i) == (place + i) % t.cap
        moved == Min({i \in 0..(t.cap - 1) : Free(t, At(i + 1)) \/ Distance(t, At(i + 1)) = 0})
        Shifted(p) == LET i == (p - place) % t.cap
                      IN  IF i < moved THEN t.indices[At(i + 1)]
                          ELSE IF i = moved THEN None ELSE t.indices[p]
    IN  [t EXCEPT !.indices = [p \in DOMAIN @ |-> Shifted(p)]]

(* evict(): the oldest slot goes, its position is handed to the next slot   *)
(* of the name, to the slot about to be inserted, or is removed.            *)
Evict(t, prev) ==
    LET index == StoredIdx(t, Len(t.slots) - 1)
        slot == Last(t.slots)
        steps == {k \in 0..(t.cap - 1) : LET p == t.indices[Probe(t, slot.hash, k)]
                                         IN  p # None /\ p.index = index}
        place == Probe(t, slot.hash, Min(steps))
        popped == [t EXCEPT !.slots = Front(t.slots), !.size = t.size - HeaderLen(slot.header)]
    IN  IF slot.next # None THEN [popped EXCEPT !.indices[place].index = slot.next]
        ELSE IF index = prev
             THEN [popped EXCEPT !.indices[place].index = StoredIdx(t, -1)]
        ELSE RemovePhaseTwo([popped EXCEPT !.indices[place] = None], place)

(* A turn of the loop of converge() *)
EvictOver(t, prev) == IF t.size <= t.max THEN t ELSE Evict(t, prev)

(* converge(): evict until the size fits. *)
Converge(t, prev) ==
    LET turn[n \in 0..Len(t.slots)] == IF n = 0 THEN t ELSE EvictOver(turn[n - 1], prev)
    IN  turn[Len(t.slots)]

UpdateSize(t, len, prev) == Converge([t EXCEPT !.size = @ + len], prev)

(* insert(): the new slot is the first one. *)
Insert(t, h) ==
    [t EXCEPT !.inserted = (@ + 1) % Width,
              !.slots = <<[hash |-> Hash[h.name], header |-> h, next |-> None]>> \o @]

(* resize() *)
Resize(t, size) ==
    IF size = 0
    THEN [t EXCEPT !.max = 0, !.size = 0, !.slots = <<>>, !.inserted = 0,
                   !.indices = [p \in DOMAIN @ |-> None]]
    ELSE Converge([t EXCEPT !.max = size], None)

(* reinsert_entry_in_order(): to the first free place. *)
Reinsert(t, pos) ==
    LET k == Min({i \in 0..(t.cap - 1) : Free(t, Probe(t, pos.hash, i))})
    IN  IF pos = None THEN t ELSE [t EXCEPT !.indices[Probe(t, pos.hash, k)] = pos]

(* grow(): every entry into the larger index, from the first one that is at *)
(* its own place.                                                           *)
Grow(t, cap) ==
    LET ideal == {p \in 0..(t.cap - 1) : ~Free(t, p) /\ Distance(t, p) = 0}
        first == IF ideal = {} THEN 0 ELSE Min(ideal)
        empty == [t EXCEPT !.cap = cap, !.indices = [p \in 0..(cap - 1) |-> None]]
        turn[n \in 0..t.cap] ==
            IF n = 0 THEN empty ELSE Reinsert(turn[n - 1], t.indices[(first + n - 1) % t.cap])
    IN  turn[t.cap]

(* reserve_one() *)
ReserveOne(t) ==
    IF Len(t.slots) # Capacity(t.cap) THEN t
    ELSE IF t.slots = <<>>
         THEN [t EXCEPT !.cap = RawCap, !.indices = [p \in 0..(RawCap - 1) |-> None]]
    ELSE Grow(t, 2 * t.cap)

(* Index::new() for a header that is not put in the table. *)
NewIndex(statik) ==
    IF statik = None THEN [kind |-> "NotIndexed", idx |-> 0]
    ELSE [kind |-> IF statik.full THEN "Indexed" ELSE "Name", idx |-> statik.n]

Result(t, kind, idx) == [table |-> t, index |-> [kind |-> kind, idx |-> idx]]

(* The slot with stored index `last`, unless it was evicted, gets the newest *)
(* one as the next of its name.                                              *)
LinkNewest(t, last) ==
    LET prev == RealIdx(t, last)
    IN  IF prev < Len(t.slots) THEN [t EXCEPT !.slots[prev + 1].next = StoredIdx(t, 0)] ELSE t

(* index_occupied(): walk the slots of the name from the oldest one.        *)
(* `chain` lists their stored indices.                                      *)
IndexOccupied(t, h, head, statik) ==
    LET chain[n \in 1..Len(t.slots)] ==
            IF n = 1 THEN head ELSE IF chain[n - 1] = None THEN None ELSE Slot(t, chain[n - 1]).next
        links == {n \in DOMAIN chain : chain[n] # None}
        same == {n \in links : ValueEq(Slot(t, chain[n]).header, h)}
        last == chain[Max(links)]
    IN  IF same # {}
        THEN Result(t, "Indexed", RealIdx(t, chain[Min(same)]) + DYN_OFFSET)
        ELSE IF h.sensitive THEN Result(t, "Name", RealIdx(t, last) + DYN_OFFSET)
        ELSE Result(LinkNewest(Insert(UpdateSize(t, HeaderLen(h), last), h), last),
                    "InsertedValue",
                    IF statik # None THEN statik.n ELSE RealIdx(t, last) + DYN_OFFSET)

(* Variant of WalkBack that keeps the place found before the evictions. *)
WalkBackNever(t, hash, dist) == dist

(* After evictions the place of a new entry may be nearer to its desired    *)
(* position than the place found before them.                               *)
WalkBack(t, hash, dist) ==
    Min({d \in 0..dist : \A j \in d..(dist - 1) :
            LET place == Probe(t, hash, j) IN Free(t, place) \/ Distance(t, place) < j})

(* Put the newest slot of `t` at `place` and shift the entries there. *)
PlaceNewest(t, place) ==
    LET At(i) == (place + i) % t.cap
        run == Min({i \in 0..(t.cap - 1) : Free(t, At(i))})
        Shifted(p) == LET i == (p - place) % t.cap
                      IN  IF i = 0 THEN [index |-> StoredIdx(t, 0), hash |-> t.slots[1].hash]
                          ELSE IF i <= run THEN t.indices[At(i - 1)] ELSE t.indices[p]
    IN  [t EXCEPT !.indices = [p \in DOMAIN @ |-> Shifted(p)]]

(* index_vacant(): make room, find the place again if that evicted slots. *)
IndexVacant(t, h, dist, statik) ==
    LET Steps(room) == IF Len(room.slots) < Len(t.slots)
                       THEN WalkBack(room, Hash[h.name], dist) ELSE dist
        Placed(room) == PlaceNewest(Insert(room, h), Probe(t, Hash[h.name], Steps(room)))
    IN  IF h.sensitive THEN [table |-> t, index |-> NewIndex(statik)]
        ELSE Result(Placed(UpdateSize(t, HeaderLen(h), None)),
                    IF statik # None THEN "InsertedValue" ELSE "Inserted",
                    IF statik # None THEN statik.n ELSE 0)

(* The loop of index_dynamic(): probe from the desired position. *)
ProbeLoop(r, h, statik) ==
    LET hash == Hash[h.name]
        At(k) == r.indices[Probe(r, hash, k)]
        Matches(k) == At(k) # None /\ At(k).hash = hash /\ Slot(r, At(k).index).header.name = h.name
        Robbed(k) == At(k) = None \/ Distance(r, Probe(r, hash, k)) < k
        dist == Min({k \in 0..(r.cap - 1) : Robbed(k) \/ Matches(k)})
    IN  IF r.cap = 0 THEN [table |-> r, index |-> NewIndex(statik)]
        ELSE IF Robbed(dist) THEN IndexVacant(r, h, dist, statik)
        ELSE IndexOccupied(r, h, At(dist).index, statik)

(* index_dynamic() *)
IndexDynamic(t, h, statik) ==
    ProbeLoop(IF HeaderLen(h) + t.size < t.max \/ ~h.sensitive THEN ReserveOne(t) ELSE t, h, statik)

(* index() *)
Index(t, h) ==
    LET statik == IndexStatic(h.name, h.value)
    IN  IF \/ SkipValueIndex(h)
           \/ statik # None /\ statik.full
           \/ 4 * HeaderLen(h) > 3 * t.max
        THEN [table |-> t, index |-> NewIndex(statik)]
        ELSE IndexDynamic(t, h, statik)

-----------------------------------------------------------------------------
(* The decoder's table: [entries, size, max], entries newest first.        *)

DecTable(max) == [entries |-> <<>>, size |-> 0, max |-> max]

(* get(): an index without an entry is InvalidTableIndex. *)
DecHas(d, index) == index \in 1..(61 + Len(d.entries))

DecGet(d, index) ==
    IF index <= 61 THEN [name |-> GetStatic[index][1], value |-> GetStatic[index][2]]
    ELSE d.entries[index - 61]

(* A turn of the loops of reserve() and consolidate() *)
DropOver(d, len) ==
    IF d.size + len <= d.max \/ d.entries = <<>> THEN d
    ELSE [d EXCEPT !.entries = Front(d.entries), !.size = d.size - HeaderLen(Last(d.entries))]

(* reserve() and consolidate(): drop the oldest entries until `len` more fit. *)
DecReserve(d, len) ==
    LET turn[n \in 0..Len(d.entries)] == IF n = 0 THEN d ELSE DropOver(turn[n - 1], len)
    IN  turn[Len(d.entries)]

(* insert() *)
DecInsert(d, h) ==
    LET room == DecReserve(d, HeaderLen(h))
    IN  IF room.size + HeaderLen(h) <= room.max
        THEN [room EXCEPT !.entries = <<h>> \o room.entries, !.size = room.size + HeaderLen(h)]
        ELSE room

(* set_max_size() *)
DecSetMaxSize(d, size) == DecReserve([d EXCEPT !.max = size], 0)
=============================================================================
