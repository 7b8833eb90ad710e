------------------------ MODULE TemplateCacheProofs ------------------------
(***************************************************************************)
(* Proofs about TemplateCache, for every set of keys, rows and slots    *)
(* and every number of edits and failures.                                 *)
(***************************************************************************)
EXTENDS TemplateCache, TLAPS

\* Slots that are busy know what they are busy with.
Shape ==
    /\ \A r \in Readers : reader[r].pc # "idle" => reader[r].key \in Keys
    /\ \A r \in Readers : reader[r].pc = "set" => reader[r].row \in Row
    /\ \A w \in Writers : writer[w].pc # "idle" =>
           writer[w].id \in Ids /\ writer[w].row \in Row

\* A row of the table is among those its key has had.
TableIsStored == \A i \in Ids : table[i] # None => table[i] \in stored[Key(table[i])]

\* What a render has in hand is the row of its key, or is excused.
Known(k, row) == row = Found(k) \/ <<k, row>> \in excused
HandsAreKnown ==
    \A r \in Readers : reader[r].pc = "set" =>
        /\ reader[r].row \in stored[reader[r].key]
        /\ Known(reader[r].key, reader[r].row)

\* So is what is cached, but for an edit on its way to invalidate it.
Pending(k) == \E w \in Writers : writer[w].pc = "del" /\ Key(writer[w].row) = k
CacheIsKnown ==
    \A k \in Keys : cache[k] # None => Known(k, cache[k]) \/ Pending(k)

\* While no edits have overlapped, the one that is under way goes on from the
\* row as it is.
EditsAreInTurn ==
    /\ \A i \in Ids : table[i] = None <=> asked[i] = None
    /\ ~raced => \A w \in Writers : writer[w].pc = "save" =>
           /\ table[writer[w].id] # None =>
                  writer[w].row = Bumped(assign(table[writer[w].id], Dto(writer[w].patch)))
           /\ \A v \in Writers \ {w} : writer[v].pc = "save" => writer[v].id # writer[w].id

IInv == TypeOK /\ Shape /\ TableIsStored /\ HandsAreKnown /\ CachedWasStored
          /\ CacheIsKnown /\ EditsAreInTurn
          /\ EditsAddUp
-----------------------------------------------------------------------------
(* Rows, and what a patch makes of them. *)

LEMMA KeyType == \A row \in Row : Key(row) \in Keys
  BY DEF Row, Key, Keys

\* The fields of a row after a patch, with or without the defaults.
LEMMA Assigned ==
  ASSUME NEW row \in Row, NEW p \in Patch
  PROVE  /\ Bumped(assign(row, p)) \in Row /\ Bumped(assign(row, p)).version = row.version + 1
         /\ Bumped(assign(row, p)).slot = IF p.slot = None THEN row.slot ELSE p.slot
         /\ Bumped(assign(row, p)).locale = IF p.locale = None THEN row.locale ELSE p.locale
         /\ Bumped(assign(row, p)).text = IF p.text = None THEN row.text ELSE p.text
         /\ Bumped(assign(row, p)).vars = IF p.vars = None THEN row.vars ELSE p.vars
<1> DEFINE a == assign(row, p)
<1>1. /\ a.slot = IF p.slot = None THEN row.slot ELSE p.slot
      /\ a.locale = IF p.locale = None THEN row.locale ELSE p.locale
      /\ a.text = IF p.text = None THEN row.text ELSE p.text
      /\ a.vars = IF p.vars = None THEN row.vars ELSE p.vars
      /\ a.version = row.version
  BY DEF assign, Row
<1>2. a \in Row
  BY DEF assign, Row, Patch
<1> HIDE DEF a
<1>3. Bumped(a) = [a EXCEPT !.version = a.version + 1]
  BY DEF Bumped
<1>4. /\ Bumped(a) \in Row /\ Bumped(a).version = a.version + 1
      /\ Bumped(a).slot = a.slot /\ Bumped(a).locale = a.locale
      /\ Bumped(a).text = a.text /\ Bumped(a).vars = a.vars
  BY <1>2, <1>3 DEF Row
<1> QED
  BY <1>1, <1>4 DEF a

LEMMA Defaults ==
  ASSUME NEW p \in Patch
  PROVE  /\ Dto(p) \in Patch /\ Dto(p).slot = p.slot /\ Dto(p).text = p.text
         /\ Dto(p).locale = IF p.locale = None THEN Default ELSE p.locale
         /\ Dto(p).vars = IF p.vars = None THEN 0 ELSE p.vars
  BY BoundsAssumption DEF Dto, Patch
-----------------------------------------------------------------------------
(* findOne: the index is unique, so there is one row of a key or none. *)

LEMMA FoundRow ==
  ASSUME TypeOK, NEW k \in Keys, NEW i \in Ids, table[i] # None, Key(table[i]) = k
  PROVE  Found(k) = table[i]
<1>1. RowsOf(k) = {table[i]}
  BY DEF TypeOK, RowsOf
<1> QED
  BY <1>1 DEF Found

LEMMA FoundNone ==
  ASSUME NEW k \in Keys, \A i \in Ids : table[i] # None => Key(table[i]) # k
  PROVE  Found(k) = None
<1>1. RowsOf(k) = {}
  BY DEF RowsOf
<1> QED
  BY <1>1 DEF Found

LEMMA FoundIsStored ==
  ASSUME TypeOK, TableIsStored, NEW k \in Keys, Found(k) # None
  PROVE  Found(k) \in Row /\ Found(k) \in stored[k]
<1>1. PICK i \in Ids : table[i] # None /\ Key(table[i]) = k
  BY FoundNone
<1>2. Found(k) = table[i]
  BY <1>1, FoundRow
<1> QED
  BY <1>1, <1>2 DEF TypeOK, TableIsStored
-----------------------------------------------------------------------------
(* Steps of renders and of the cache: the table and the edits stay. *)

CacheStep ==
    /\ UNCHANGED <<table, writer, histories, edits>>
    /\ faults' \in 0..MaxFaults
    /\ reader' \in [Readers -> Reader]
    /\ \A r \in Readers : reader'[r].pc # "idle" => reader'[r].key \in Keys
    /\ \A r \in Readers : reader'[r].pc = "set" =>
           /\ reader'[r].row \in Row /\ reader'[r].row \in stored[reader'[r].key]
           /\ Known(reader'[r].key, reader'[r].row)
    /\ cache' \in [Keys -> Row \cup {None}]
    /\ \A k \in Keys :
           \/ cache'[k] = cache[k]
           \/ cache'[k] = None
           \/ cache'[k] \in stored[k] /\ Known(k, cache'[k])

LEMMA CacheStepKeeps ==
  ASSUME IInv, CacheStep
  PROVE  IInv'
<1> USE DEF CacheStep, histories
<1>1. TypeOK'
  BY DEF IInv, TypeOK
<1>2. \A k : Found(k)' = Found(k)
  BY DEF Found, RowsOf
<1>3. \A k, row : Known(k, row)' <=> Known(k, row)
  BY <1>2 DEF Known
<1>4. \A k : Pending(k)' <=> Pending(k)
  BY DEF Pending
<1>5. Shape' /\ TableIsStored' /\ EditsAreInTurn' /\ EditsAddUp'
  BY DEF IInv, Shape, TableIsStored, EditsAreInTurn, EditsAddUp
<1>6. HandsAreKnown'
  BY <1>3 DEF HandsAreKnown
<1>7. CachedWasStored' /\ CacheIsKnown'
  BY <1>3, <1>4 DEF IInv, CachedWasStored, CacheIsKnown
<1> QED
  BY <1>1, <1>5, <1>6, <1>7 DEF IInv

\* What IInv says of the renders, in the form CacheStep wants it.
LEMMA HandsBefore ==
  ASSUME IInv, NEW r \in Readers
  PROVE  /\ reader[r] \in Reader
         /\ reader[r].pc # "idle" => reader[r].key \in Keys
         /\ reader[r].pc = "set" =>
               /\ reader[r].row \in Row /\ reader[r].row \in stored[reader[r].key]
               /\ Known(reader[r].key, reader[r].row)
  BY DEF IInv, TypeOK, Shape, HandsAreKnown

LEMMA IdleReader ==
  /\ NoRead \in Reader /\ NoRead.pc = "idle"
  BY DEF NoRead, Reader

LEMMA IdleWriter ==
  /\ NoWrite \in Writer /\ NoWrite.pc = "idle"
  BY DEF NoWrite, Writer, NoPatch, Patch

\* A render that moves on: what it has in hand afterwards, and what is cached.
LEMMA ReaderMoves ==
  ASSUME IInv, NEW r \in Readers, NEW q \in Reader,
         reader' = [reader EXCEPT ![r] = q],
         q.pc # "idle" => q.key \in Keys,
         q.pc = "set" => q.row \in Row /\ q.row \in stored[q.key] /\ Known(q.key, q.row),
         UNCHANGED <<table, writer, histories, edits>>,
         faults' \in 0..MaxFaults,
         \/ cache' = cache
         \/ /\ reader[r].pc = "set"
            /\ cache' = [cache EXCEPT ![reader[r].key] = reader[r].row]
  PROVE  IInv'
<1>1. /\ reader' \in [Readers -> Reader]
      /\ reader'[r] = q /\ \A p \in Readers \ {r} : reader'[p] = reader[p]
  BY DEF IInv, TypeOK
<1>2. /\ cache' \in [Keys -> Row \cup {None}]
      /\ \A k \in Keys : cache'[k] = cache[k] \/ (cache'[k] \in stored[k] /\ Known(k, cache'[k]))
  <2>1. CASE cache' = cache
    BY <2>1 DEF IInv, TypeOK
  <2>2. CASE /\ reader[r].pc = "set"
             /\ cache' = [cache EXCEPT ![reader[r].key] = reader[r].row]
    <3>1. /\ reader[r].key \in Keys /\ reader[r].row \in Row
          /\ reader[r].row \in stored[reader[r].key]
          /\ Known(reader[r].key, reader[r].row)
      BY <2>2, HandsBefore
    <3>2. cache \in [Keys -> Row \cup {None}]
      BY DEF IInv, TypeOK
    <3> QED
      BY <2>2, <3>1, <3>2
  <2> QED
    BY <2>1, <2>2
<1>3. CacheStep
  BY <1>1, <1>2, HandsBefore DEF CacheStep
<1> QED
  BY <1>3, CacheStepKeeps

LEMMA renderStep ==
  ASSUME IInv, NEW r \in Readers, NEW k \in Keys, render(r, k)
  PROVE  IInv'
<1> DEFINE q == [NoRead EXCEPT !.pc = "get", !.key = k]
<1>1. q \in Reader /\ q.pc = "get" /\ q.key = k
  BY DEF NoRead, Reader
<1>2. reader' = [reader EXCEPT ![r] = q]
  BY DEF render
<1> QED
  BY ZenonT(30), <1>1, <1>2, ReaderMoves DEF render, IInv, TypeOK

LEMMA getCachedStep ==
  ASSUME IInv, NEW r \in Readers, getCached(r)
  PROVE  IInv'
<1> DEFINE q == IF cache[reader[r].key] # None THEN NoRead ELSE [reader[r] EXCEPT !.pc = "find"]
<1>1. q \in Reader /\ q.pc # "set" /\ (q.pc # "idle" => q.key \in Keys)
  BY HandsBefore, IdleReader DEF getCached, Reader
<1>2. reader' = [reader EXCEPT ![r] = q]
  BY DEF getCached, IInv, TypeOK
<1> QED
  BY <1>1, <1>2, ReaderMoves DEF getCached, IInv, TypeOK

LEMMA findOneStep ==
  ASSUME IInv, NEW r \in Readers, findOne(r)
  PROVE  IInv'
<1> DEFINE k == reader[r].key
           q == IF Found(k) = None THEN NoRead ELSE [reader[r] EXCEPT !.pc = "set", !.row = Found(k)]
<1>1. k \in Keys /\ reader[r] \in Reader
  BY HandsBefore DEF findOne
<1>2. Found(k) # None => Found(k) \in Row /\ Found(k) \in stored[k]
  BY <1>1, FoundIsStored DEF IInv
<1>3. /\ q \in Reader /\ (q.pc # "idle" => q.key \in Keys)
      /\ q.pc = "set" => q.row \in Row /\ q.row \in stored[q.key] /\ Known(q.key, q.row)
  BY <1>1, <1>2, IdleReader DEF Reader, Known
<1>4. reader' = [reader EXCEPT ![r] = q]
  BY DEF findOne, IInv, TypeOK
<1> QED
  BY <1>3, <1>4, ReaderMoves DEF findOne, IInv, TypeOK

LEMMA setCachedStep ==
  ASSUME IInv, NEW r \in Readers, setCached(r)
  PROVE  IInv'
  BY IdleReader, ReaderMoves DEF setCached, IInv, TypeOK

LEMMA renderFailsStep ==
  ASSUME IInv, NEW r \in Readers, renderFails(r)
  PROVE  IInv'
<1>1. faults' \in 0..MaxFaults
  BY BoundsAssumption DEF renderFails, Fault, IInv, TypeOK
<1> QED
  BY <1>1, IdleReader, ReaderMoves DEF renderFails

LEMMA ExpireStep ==
  ASSUME IInv, NEW k \in Keys, Expire(k)
  PROVE  IInv'
<1>1. /\ cache' \in [Keys -> Row \cup {None}]
      /\ \A m \in Keys : cache'[m] = cache[m] \/ cache'[m] = None
  BY DEF Expire, IInv, TypeOK
<1>2. reader' = reader /\ reader \in [Readers -> Reader] /\ faults' \in 0..MaxFaults
  BY DEF Expire, IInv, TypeOK
<1>3. CacheStep
  BY <1>1, <1>2, HandsBefore DEF CacheStep, Expire
<1> QED
  BY <1>3, CacheStepKeeps
-----------------------------------------------------------------------------
(* Steps of edits.                                                         *)

LEMMA WriterBefore ==
  ASSUME IInv, NEW w \in Writers
  PROVE  /\ writer[w] \in Writer
         /\ writer[w].pc # "idle" => writer[w].id \in Ids /\ writer[w].row \in Row
         /\ writer[w].pc # "idle" => Key(writer[w].row) \in Keys
  BY KeyType DEF IInv, TypeOK, Shape

\* An edit goes on from the row that it has found, if there was one.
LEMMA EditStep ==
  ASSUME IInv, NEW w \in Writers, NEW i \in Ids, NEW row \in Row, NEW p \in Patch,
         Edit(w, i, row, p),
         table[i] # None => row = Bumped(assign(table[i], Dto(p)))
  PROVE  IInv'
<1> DEFINE q == [pc |-> "save", id |-> i, row |-> row, patch |-> p]
<1>1. /\ q \in Writer /\ writer[w].pc = "idle"
      /\ writer' \in [Writers -> Writer]
      /\ writer'[w] = q /\ \A v \in Writers \ {w} : writer'[v] = writer[v]
  BY DEF Edit, IInv, TypeOK, Writer
<1>2. edits' \in 0..MaxEdits
  BY BoundsAssumption DEF Edit, IInv, TypeOK
<1>3. raced' \in BOOLEAN /\ (~raced' => ~raced /\ \A v \in Writers : writer[v].pc = "save" => writer[v].id # i)
  BY Zenon DEF Edit, IInv, TypeOK
<1>4. TypeOK'
  BY <1>1, <1>2, <1>3 DEF Edit, IInv, TypeOK
<1>5. Shape' /\ TableIsStored'
  BY <1>1 DEF Edit, IInv, Shape, TableIsStored
<1>6. \A k : Found(k)' = Found(k)
  BY DEF Edit, Found, RowsOf
<1>7. \A k, x : Known(k, x)' <=> Known(k, x)
  BY <1>6 DEF Known, Edit
<1>8. \A k : Pending(k) => Pending(k)'
  BY <1>1 DEF Pending
<1>9. HandsAreKnown' /\ CachedWasStored' /\ CacheIsKnown'
  <2>1. HandsAreKnown'
    BY <1>7 DEF Edit, IInv, HandsAreKnown
  <2>2. CachedWasStored'
    BY DEF Edit, IInv, CachedWasStored
  <2>3. CacheIsKnown'
    BY <1>7, <1>8 DEF Edit, IInv, CacheIsKnown
  <2> QED
    BY <2>1, <2>2, <2>3
<1>10. EditsAreInTurn'
  <2>1. \A j \in Ids : table'[j] = None <=> asked'[j] = None
    BY DEF Edit, IInv, EditsAreInTurn
  <2>2. ASSUME ~raced', NEW v \in Writers, writer'[v].pc = "save"
        PROVE  /\ table[writer'[v].id] # None =>
                      writer'[v].row = Bumped(assign(table[writer'[v].id], Dto(writer'[v].patch)))
               /\ \A u \in Writers \ {v} : writer'[u].pc = "save" => writer'[u].id # writer'[v].id
    <3>1. CASE v = w
      BY <1>1, <1>3, <2>2, <3>1
    <3>2. CASE v # w
      <4>1. /\ writer'[v] = writer[v] /\ ~raced /\ writer[v].id # i
            /\ table[writer[v].id] # None =>
                  writer[v].row = Bumped(assign(table[writer[v].id], Dto(writer[v].patch)))
            /\ \A u \in Writers \ {v} : writer[u].pc = "save" => writer[u].id # writer[v].id
        BY <1>1, <1>3, <2>2, <3>2 DEF IInv, EditsAreInTurn
      <4> QED
        BY <1>1, <4>1
    <3> QED
      BY <3>1, <3>2
  <2>3. table' = table
    BY DEF Edit
  <2> QED
    BY <2>1, <2>2, <2>3 DEF EditsAreInTurn
<1>11. EditsAddUp'
  BY <1>3 DEF Edit, IInv, EditsAddUp
<1> QED
  BY <1>4, <1>5, <1>9, <1>10, <1>11 DEF IInv

LEMMA createStep ==
  ASSUME IInv, NEW w \in Writers, NEW i \in Ids, NEW k \in Posts, create(w, i, k)
  PROVE  IInv'
<1>1. k \in Keys /\ k[1] \in Slots /\ k[2] \in Locales
  BY BoundsAssumption DEF Keys
<1>2. [slot |-> k[1], locale |-> k[2], text |-> edits + 1, vars |-> edits + 1, version |-> 1] \in Row
  BY <1>1, BoundsAssumption DEF IInv, TypeOK, Row
<1>3. NoPatch \in Patch
  BY DEF NoPatch, Patch
<1> QED
  BY <1>2, <1>3, EditStep DEF create

LEMMA updateStep ==
  ASSUME IInv, NEW w \in Writers, NEW i \in Ids, update(w, i)
  PROVE  IInv'
<1>1. PICK b \in Patches : Edit(w, i, Bumped(assign(table[i], Dto(Numbered(b, edits + 1)))),
                                 Numbered(b, edits + 1))
  BY DEF update
<1> DEFINE p == Numbered(b, edits + 1)
<1>2. p \in Patch
  <2>1. edits + 1 \in Nat
    BY BoundsAssumption DEF IInv, TypeOK
  <2>2. b \in [slot : Slots \cup {None}, locale : Locales \cup {None}, text : BOOLEAN, vars : BOOLEAN]
    BY BoundsAssumption
  <2> QED
    BY <2>1, <2>2 DEF Numbered, Patch
<1>3. table[i] # None /\ table[i] \in Row
  BY DEF update, IInv, TypeOK
<1> HIDE DEF p
<1>4. Bumped(assign(table[i], Dto(p))) \in Row
  BY <1>2, <1>3, Defaults, Assigned
<1>5. Edit(w, i, Bumped(assign(table[i], Dto(p))), p)
  BY <1>1 DEF p
<1> QED
  BY <1>2, <1>4, <1>5, EditStep

\* An edit that ends, however it does.
LEMMA WriterEnds ==
  ASSUME IInv, NEW w \in Writers,
         writer' = [writer EXCEPT ![w] = NoWrite],
         UNCHANGED <<table, reader, stored, asked, raced, edits>>,
         faults' \in 0..MaxFaults,
         excused \subseteq excused', excused' \subseteq Keys \X (Row \cup {None}),
         \/ cache' = cache
         \/ writer[w].pc = "del" /\ cache' = [cache EXCEPT ![Key(writer[w].row)] = None],
         writer[w].pc = "del" =>
             \/ cache'[Key(writer[w].row)] = None
             \/ <<Key(writer[w].row), cache'[Key(writer[w].row)]>> \in excused'
  PROVE  IInv'
<1>1. /\ writer' \in [Writers -> Writer]
      /\ writer'[w] = NoWrite /\ \A v \in Writers \ {w} : writer'[v] = writer[v]
  BY IdleWriter DEF IInv, TypeOK
<1>2. /\ cache' \in [Keys -> Row \cup {None}]
      /\ \A k \in Keys : cache'[k] = cache[k] \/ cache'[k] = None
  BY WriterBefore DEF IInv, TypeOK
<1>3. TypeOK'
  BY <1>1, <1>2 DEF IInv, TypeOK
<1>4. Shape' /\ TableIsStored'
  BY <1>1, IdleWriter DEF IInv, Shape, TableIsStored
<1>5. \A k : Found(k)' = Found(k)
  BY DEF Found, RowsOf
<1>6. \A k, x : Known(k, x) => Known(k, x)'
  BY <1>5 DEF Known
<1>7. HandsAreKnown' /\ CachedWasStored'
  <2>1. HandsAreKnown'
    BY <1>6 DEF IInv, HandsAreKnown
  <2>2. CachedWasStored'
    BY <1>2 DEF IInv, CachedWasStored
  <2> QED
    BY <2>1, <2>2
<1>8. CacheIsKnown'
  <2> SUFFICES ASSUME NEW k \in Keys, cache'[k] # None
               PROVE  Known(k, cache[k])' \/ Pending(k)'
    BY Zenon DEF CacheIsKnown
  <2>1. cache'[k] = cache[k] /\ (Known(k, cache[k]) \/ Pending(k))
    BY <1>2 DEF IInv, CacheIsKnown
  <2>2. CASE writer[w].pc = "del" /\ Key(writer[w].row) = k
    BY <2>2 DEF Known
  <2>3. CASE ~(writer[w].pc = "del" /\ Key(writer[w].row) = k)
    <3>1. Pending(k) => Pending(k)'
      BY <2>3, <1>1 DEF Pending
    <3> QED
      BY <3>1, <2>1, <1>6
  <2> QED
    BY <2>2, <2>3
<1>9. EditsAreInTurn'
  BY <1>1, IdleWriter DEF IInv, EditsAreInTurn
<1>10. EditsAddUp'
  BY DEF IInv, EditsAddUp
<1> QED
  BY <1>3, <1>4, <1>7, <1>8, <1>9, <1>10 DEF IInv

LEMMA saveRefusedStep ==
  ASSUME IInv, NEW w \in Writers, saveRefused(w)
  PROVE  IInv'
  BY WriterEnds DEF saveRefused, histories, IInv, TypeOK

LEMMA invalidateCacheStep ==
  ASSUME IInv, NEW w \in Writers, invalidateCache(w)
  PROVE  IInv'
<1>1. Key(writer[w].row) \in Keys /\ cache \in [Keys -> Row \cup {None}]
  BY WriterBefore DEF invalidateCache, IInv, TypeOK
<1> QED
  BY <1>1, WriterEnds DEF invalidateCache, histories, keyOf, IInv, TypeOK

-----------------------------------------------------------------------------
(* What a save changes, whether or not its answer comes back.               *)

LEMMA SavedStep ==
  ASSUME IInv, NEW w \in Writers, NEW kept \in SUBSET (Keys \X (Row \cup {None})), Saved(w, kept),
         NEW q \in Writer, writer' = [writer EXCEPT ![w] = q],
         \/ q.pc = "del" /\ q.row = writer[w].row /\ q.id = writer[w].id
         \/ q = NoWrite /\ Cached(Key(writer[w].row)) \subseteq kept,
         UNCHANGED <<cache, reader, raced, edits>>, faults' \in 0..MaxFaults
  PROVE  IInv'
<1> DEFINE i == writer[w].id
           row == writer[w].row
<1>1. /\ i \in Ids /\ row \in Row /\ Key(row) \in Keys /\ row # None
      /\ writer[w].pc = "save" /\ writer[w].patch \in Patch
  BY WriterBefore, NoneAssumption DEF Saved, Writer
<1>2. /\ table' \in [Ids -> Row \cup {None}]
      /\ table'[i] = row /\ \A j \in Ids \ {i} : table'[j] = table[j]
  BY <1>1 DEF Saved, rowSaved, IInv, TypeOK
<1>3. /\ writer' \in [Writers -> Writer]
      /\ writer'[w] = q /\ \A v \in Writers \ {w} : writer'[v] = writer[v]
  BY DEF IInv, TypeOK
<1>4. /\ stored' \in [Keys -> SUBSET Row] /\ row \in stored'[Key(row)]
      /\ \A k \in Keys : stored[k] \subseteq stored'[k]
  BY <1>1 DEF Saved, IInv, TypeOK
<1>5. \A j \in Ids \ {i} : table[j] # None => Key(table[j]) # Key(row)
  BY DEF Saved, Refused
<1>6. /\ InHand \subseteq Keys \X (Row \cup {None})
      /\ \A k \in Keys : Cached(k) \subseteq Keys \X (Row \cup {None})
  BY DEF InHand, Cached, IInv, TypeOK, Shape
<1>7. /\ excused \subseteq excused' /\ InHand \subseteq excused' /\ kept \subseteq excused'
      /\ table[i] # None /\ Key(table[i]) # Key(row) => Cached(Key(table[i])) \subseteq excused'
      /\ excused' \subseteq Keys \X (Row \cup {None})
  <2>1. table[i] # None => Key(table[i]) \in Keys
    BY <1>1, KeyType DEF IInv, TypeOK
  <2> QED
    BY <2>1, <1>6 DEF Saved, IInv, TypeOK
<1>8. /\ asked' \in [Ids -> Row \cup {None}] /\ \A j \in Ids \ {i} : asked'[j] = asked[j]
      /\ asked[i] = None => asked'[i] = row
      /\ asked[i] # None => asked'[i] = Bumped(assign(asked[i], writer[w].patch))
      /\ asked'[i] # None
  <2> DEFINE now == IF asked[i] = None THEN row ELSE Bumped(assign(asked[i], writer[w].patch))
  <2>1. now \in Row
    <3>1. asked[i] # None => asked[i] \in Row
      BY <1>1 DEF IInv, TypeOK
    <3> QED
      BY <1>1, <3>1, Assigned
  <2>2. asked' = [asked EXCEPT ![i] = now]
    BY DEF Saved
  <2>3. asked \in [Ids -> Row \cup {None}]
    BY DEF IInv, TypeOK
  <2>4. asked'[i] = now
    BY <1>1, <2>2, <2>3
  <2>5. now # None
    BY <2>1, NoneAssumption
  <2>6. asked' \in [Ids -> Row \cup {None}] /\ \A j \in Ids \ {i} : asked'[j] = asked[j]
    <3> HIDE DEF now
    <3> QED
      BY <2>1, <2>2, <2>3
  <2> QED
    BY <2>4, <2>5, <2>6
<1>9. UNCHANGED <<cache, reader, raced, edits>>
  OBVIOUS
<1>10. TypeOK'
  <2>1. \A j, k \in Ids : table'[j] # None /\ table'[k] # None /\ j # k =>
            Key(table'[j]) # Key(table'[k])
    BY <1>2, <1>5 DEF IInv, TypeOK
  <2> QED
    BY <2>1, <1>2, <1>3, <1>4, <1>7, <1>8, <1>9 DEF IInv, TypeOK
<1>11. Shape'
  BY <1>1, <1>3, <1>9, IdleWriter DEF IInv, Shape
<1>12. TableIsStored'
  <2>1. \A j \in Ids : table[j] # None => Key(table[j]) \in Keys
    BY KeyType DEF IInv, TypeOK
  <2> QED
    BY <2>1, <1>1, <1>2, <1>4 DEF IInv, TableIsStored
<1>13. HandsAreKnown'
  <2> SUFFICES ASSUME NEW r \in Readers, reader[r].pc = "set"
               PROVE  /\ reader[r].row \in stored'[reader[r].key]
                      /\ Known(reader[r].key, reader[r].row)'
    BY <1>9 DEF HandsAreKnown
  <2>1. <<reader[r].key, reader[r].row>> \in InHand
    BY DEF InHand
  <2> QED
    BY <2>1, <1>4, <1>7, <1>9, HandsBefore DEF Known
<1>14. CachedWasStored'
  BY <1>4, <1>9 DEF IInv, CachedWasStored
<1>15. CacheIsKnown'
  <2> SUFFICES ASSUME NEW k \in Keys, cache[k] # None
               PROVE  Known(k, cache[k])' \/ Pending(k)'
    BY <1>9 DEF CacheIsKnown
  <2>1. CASE Key(row) = k
    <3>1. CASE q.pc = "del"
      <4>1. q.row = row
        BY <3>1, IdleWriter
      <4>2. writer'[w].pc = "del" /\ Key(writer'[w].row) = k
        BY <1>3, <2>1, <3>1, <4>1
      <4> QED
        BY <4>2 DEF Pending
    <3>2. CASE q.pc # "del"
      <4>1. <<k, cache[k]>> \in excused'
        BY <2>1, <3>2, <1>7 DEF Cached
      <4> QED
        BY <4>1, <1>9 DEF Known
    <3> QED
      BY <3>1, <3>2
  <2>2. CASE table[i] # None /\ Key(table[i]) = k /\ Key(row) # k
    <3>1. <<k, cache[k]>> \in excused'
      BY <2>2, <1>7 DEF Cached
    <3> QED
      BY <3>1, <1>9 DEF Known
  <2>3. CASE Key(row) # k /\ (table[i] = None \/ Key(table[i]) # k)
    <3>1. RowsOf(k)' = RowsOf(k)
      BY <2>3, <1>1, <1>2 DEF RowsOf
    <3>2. Found(k)' = Found(k)
      BY <3>1 DEF Found
    <3>3. Known(k, cache[k]) => Known(k, cache[k])'
      BY <3>2, <1>7, <1>9 DEF Known
    <3>4. Pending(k) => Pending(k)'
      BY <1>1, <1>3 DEF Pending
    <3> QED
      BY <3>3, <3>4 DEF IInv, CacheIsKnown
  <2> QED
    BY <2>1, <2>2, <2>3
<1>16. EditsAreInTurn'
  <2>1. \A j \in Ids : table'[j] = None <=> asked'[j] = None
    BY <1>1, <1>2, <1>8 DEF IInv, EditsAreInTurn
  <2>2. ASSUME ~raced, NEW v \in Writers, writer'[v].pc = "save"
        PROVE  /\ table'[writer'[v].id] # None =>
                     writer'[v].row = Bumped(assign(table'[writer'[v].id], Dto(writer'[v].patch)))
               /\ \A u \in Writers \ {v} : writer'[u].pc = "save" => writer'[u].id # writer'[v].id
    <3>1. v # w /\ writer'[v] = writer[v] /\ writer[v].id \in Ids
      BY <1>3, <2>2, WriterBefore, IdleWriter
    <3>2. /\ writer[v].id # i
          /\ table[writer[v].id] # None =>
                writer[v].row = Bumped(assign(table[writer[v].id], Dto(writer[v].patch)))
          /\ \A u \in Writers \ {v} : writer[u].pc = "save" => writer[u].id # writer[v].id
      BY <1>1, <2>2, <3>1 DEF IInv, EditsAreInTurn
    <3>3. table'[writer[v].id] = table[writer[v].id]
      BY <1>2, <3>1, <3>2
    <3>4. \A u \in Writers \ {v} : writer'[u].pc = "save" => u # w /\ writer'[u] = writer[u]
      BY <1>3, IdleWriter
    <3> QED
      BY <3>1, <3>2, <3>3, <3>4
  <2> QED
    BY <2>1, <2>2, <1>9 DEF EditsAreInTurn
<1>17. EditsAddUp'
  <2> SUFFICES ASSUME ~raced, NEW j \in Ids, table'[j] # None
               PROVE  /\ table'[j].text = asked'[j].text /\ table'[j].slot = asked'[j].slot
                      /\ table'[j].version = asked'[j].version
                      /\ table'[j].locale \in {asked'[j].locale, Default}
                      /\ table'[j].vars \in {asked'[j].vars, 0}
    BY <1>9 DEF EditsAddUp
  <2>1. CASE j # i
    BY <2>1, <1>2, <1>8 DEF IInv, EditsAddUp
  <2>2. CASE j = i /\ table[i] = None
    BY <2>2, <1>1, <1>2, <1>8 DEF IInv, EditsAreInTurn
  <2>3. CASE j = i /\ table[i] # None
    <3> DEFINE p == writer[w].patch
    <3>1. /\ row = Bumped(assign(table[i], Dto(p))) /\ asked[i] # None
          /\ asked'[i] = Bumped(assign(asked[i], p))
      BY <2>3, <1>1, <1>8 DEF IInv, EditsAreInTurn
    <3>2. table[i] \in Row /\ asked[i] \in Row /\ p \in Patch
      BY <2>3, <3>1, <1>1 DEF IInv, TypeOK
    <3>3. table[i].text = asked[i].text /\ table[i].slot = asked[i].slot
          /\ table[i].version = asked[i].version
      BY <2>3, <1>1 DEF IInv, EditsAddUp
    <3>4. /\ row.version = table[i].version + 1
          /\ row.slot = IF p.slot = None THEN table[i].slot ELSE p.slot
          /\ row.locale = IF p.locale = None THEN Default ELSE p.locale
          /\ row.text = IF p.text = None THEN table[i].text ELSE p.text
          /\ row.vars = IF p.vars = None THEN 0 ELSE p.vars
      <4> HIDE DEF p
      <4>1. /\ Dto(p) \in Patch /\ Dto(p).slot = p.slot /\ Dto(p).text = p.text
            /\ Dto(p).locale = IF p.locale = None THEN Default ELSE p.locale
            /\ Dto(p).vars = IF p.vars = None THEN 0 ELSE p.vars
        BY <3>2, Defaults
      <4>2. Default # None
        BY BoundsAssumption, NoneAssumption
      <4>3. 0 # None
        BY NoneAssumption
      <4> DEFINE x == Dto(p)
      <4>4. /\ Bumped(assign(table[i], x)).version = table[i].version + 1
            /\ Bumped(assign(table[i], x)).slot = IF x.slot = None THEN table[i].slot ELSE x.slot
            /\ Bumped(assign(table[i], x)).locale =
                  IF x.locale = None THEN table[i].locale ELSE x.locale
            /\ Bumped(assign(table[i], x)).text = IF x.text = None THEN table[i].text ELSE x.text
            /\ Bumped(assign(table[i], x)).vars = IF x.vars = None THEN table[i].vars ELSE x.vars
        <5> HIDE DEF x
        <5>1. x \in Patch
          BY <4>1 DEF x
        <5> QED
          BY <3>2, <5>1, Assigned
      <4> QED
        BY <3>1, <4>1, <4>2, <4>3, <4>4
    <3>5. /\ asked'[i].version = asked[i].version + 1
          /\ asked'[i].slot = IF p.slot = None THEN asked[i].slot ELSE p.slot
          /\ asked'[i].locale = IF p.locale = None THEN asked[i].locale ELSE p.locale
          /\ asked'[i].text = IF p.text = None THEN asked[i].text ELSE p.text
          /\ asked'[i].vars = IF p.vars = None THEN asked[i].vars ELSE p.vars
      <4> HIDE DEF p
      <4> QED
        BY <3>1, <3>2, Assigned
    <3>6. table'[j] = row
      BY <2>3, <1>2
    <3> QED
      BY <2>3, <3>3, <3>4, <3>5, <3>6
  <2> QED
    BY <2>1, <2>2, <2>3
<1> QED
  BY <1>10, <1>11, <1>12, <1>13, <1>14, <1>15, <1>16, <1>17 DEF IInv

LEMMA saveStep ==
  ASSUME IInv, NEW w \in Writers, save(w)
  PROVE  IInv'
<1> DEFINE q == [writer[w] EXCEPT !.pc = "del"]
<1>1. q \in Writer /\ q.pc = "del" /\ q.row = writer[w].row /\ q.id = writer[w].id
  BY WriterBefore DEF Writer
<1>2. Saved(w, {}) /\ writer' = [writer EXCEPT ![w] = q]
  BY DEF save, IInv, TypeOK
<1>3. UNCHANGED <<cache, reader, raced, edits>> /\ faults' \in 0..MaxFaults
  BY DEF save, IInv, TypeOK
<1> HIDE DEF q
<1> QED
  BY <1>1, <1>2, <1>3, SavedStep

LEMMA editFailsStep ==
  ASSUME IInv, NEW w \in Writers, editFails(w)
  PROVE  IInv'
<1>1. Key(writer[w].row) \in Keys /\ cache \in [Keys -> Row \cup {None}]
  BY WriterBefore DEF editFails, IInv, TypeOK
<1>2. faults' \in 0..MaxFaults
  BY BoundsAssumption DEF editFails, Fault, IInv, TypeOK
<1>3. CASE Saved(w, Cached(Key(writer[w].row)))
  <2> DEFINE kept == Cached(Key(writer[w].row))
  <2>1. kept \in SUBSET (Keys \X (Row \cup {None}))
    BY <1>1 DEF Cached
  <2>2. /\ Saved(w, kept) /\ kept = Cached(Key(writer[w].row))
        /\ writer' = [writer EXCEPT ![w] = NoWrite] /\ UNCHANGED <<cache, reader, raced, edits>>
    BY <1>3 DEF editFails
  <2> HIDE DEF kept
  <2> QED
    BY <1>2, <2>1, <2>2, SavedStep, IdleWriter
<1>4. CASE /\ UNCHANGED <<table, stored, asked>>
           /\ excused' = excused \cup IF writer[w].pc = "del" THEN Cached(Key(writer[w].row)) ELSE {}
  <2>1. /\ excused \subseteq excused' /\ excused' \subseteq Keys \X (Row \cup {None})
        /\ writer[w].pc = "del" => <<Key(writer[w].row), cache[Key(writer[w].row)]>> \in excused'
    BY <1>1, <1>4 DEF Cached, IInv, TypeOK
  <2> QED
    BY <1>2, <1>4, <2>1, WriterEnds DEF editFails
<1> QED
  BY <1>3, <1>4 DEF editFails
-----------------------------------------------------------------------------
LEMMA InitIInv == Init => IInv
<1> SUFFICES ASSUME Init PROVE IInv
  OBVIOUS
<1>1. \A i \in Ids :
          /\ Seeded[i] # None => First(i) \in Row /\ First(i) # None /\ Key(First(i)) = Seeded[i]
          /\ Seeded[i] = None => First(i) = None
  <2> TAKE i \in Ids
  <2>1. ASSUME Seeded[i] # None
        PROVE  First(i) \in Row /\ First(i) # None /\ Key(First(i)) = Seeded[i]
    <3>1. Seeded[i] \in Keys /\ Seeded[i][1] \in Slots /\ Seeded[i][2] \in Locales
          /\ Seeded[i] = <<Seeded[i][1], Seeded[i][2]>>
      BY <2>1, SeededAssumption DEF Keys
    <3>2. First(i) \in Row /\ Key(First(i)) = Seeded[i]
      BY <2>1, <3>1 DEF First, Row, Key
    <3> QED
      BY <3>2, NoneAssumption
  <2> QED
    BY <2>1 DEF First
<1>2. \A i \in Ids : table[i] = First(i)
  BY DEF Init
<1>3. table \in [Ids -> Row \cup {None}]
  BY <1>1 DEF Init
<1>4. stored \in [Keys -> SUBSET Row]
  <2>1. \A k \in Keys : {table[i] : i \in {j \in Ids : Seeded[j] = k}} \subseteq Row
    BY <1>1, <1>2, NoneAssumption
  <2> QED
    BY <2>1 DEF Init
<1>5. \A i, j \in Ids : table[i] # None /\ table[j] # None /\ i # j => Key(table[i]) # Key(table[j])
  <2>1. ASSUME NEW i \in Ids, table[i] # None
        PROVE  Seeded[i] # None /\ Key(table[i]) = Seeded[i]
    <3>1. Seeded[i] # None /\ table[i] = First(i)
      BY <1>1, <1>2, <2>1
    <3> QED
      BY <1>1, <3>1
  <2> QED
    BY <2>1, SeededAssumption
<1>6. /\ \A k \in Keys : cache[k] = None
      /\ \A r \in Readers : reader[r] = NoRead
      /\ \A w \in Writers : writer[w] = NoWrite
  BY DEF Init
<1>7. TypeOK
  <2>1. /\ cache \in [Keys -> Row \cup {None}]
        /\ reader \in [Readers -> Reader] /\ writer \in [Writers -> Writer]
    BY IdleReader, IdleWriter DEF Init
  <2>2. /\ asked \in [Ids -> Row \cup {None}]
        /\ edits \in 0..MaxEdits /\ faults \in 0..MaxFaults
    BY <1>3, BoundsAssumption DEF Init
  <2>3. raced \in BOOLEAN /\ excused \subseteq Keys \X (Row \cup {None})
    BY DEF Init
  <2> QED
    BY <1>3, <1>4, <1>5, <2>1, <2>2, <2>3 DEF TypeOK
<1>8. Shape /\ HandsAreKnown /\ CachedWasStored /\ CacheIsKnown
  BY <1>6, IdleReader, IdleWriter DEF Shape, HandsAreKnown, CachedWasStored, CacheIsKnown
<1>9. TableIsStored
  <2> SUFFICES ASSUME NEW i \in Ids, table[i] # None PROVE table[i] \in stored[Key(table[i])]
    BY DEF TableIsStored
  <2> DEFINE k == Key(table[i])
  <2>1. Seeded[i] # None /\ Seeded[i] = k /\ k \in Keys
    BY <1>1, <1>2, SeededAssumption
  <2> HIDE DEF k
  <2>2. stored[k] = {table[j] : j \in {m \in Ids : Seeded[m] = k}}
    BY <2>1 DEF Init
  <2> QED
    BY <2>1, <2>2 DEF k
<1>10. EditsAreInTurn /\ EditsAddUp
  BY <1>6, IdleWriter DEF Init, EditsAreInTurn, EditsAddUp
<1> QED
  BY <1>7, <1>8, <1>9, <1>10 DEF IInv

LEMMA NextIInv == IInv /\ [Next]_vars => IInv'
<1> SUFFICES ASSUME IInv, [Next]_vars PROVE IInv'
  OBVIOUS
<1>1. ASSUME NEW r \in Readers, NEW k \in Keys, render(r, k) PROVE IInv'
  BY <1>1, renderStep
<1>2. ASSUME NEW r \in Readers, Read(r) PROVE IInv'
  BY <1>2, getCachedStep, findOneStep, setCachedStep DEF Read
<1>3. ASSUME NEW r \in Readers, renderFails(r) PROVE IInv'
  BY <1>3, renderFailsStep
<1>4. ASSUME NEW w \in Writers, NEW i \in Ids, NEW k \in Posts, create(w, i, k) PROVE IInv'
  BY <1>4, createStep
<1>5. ASSUME NEW w \in Writers, NEW i \in Ids, update(w, i) PROVE IInv'
  BY <1>5, updateStep
<1>6. ASSUME NEW w \in Writers, Write(w) PROVE IInv'
  BY <1>6, saveStep, saveRefusedStep, invalidateCacheStep DEF Write
<1>7. ASSUME NEW w \in Writers, editFails(w) PROVE IInv'
  BY <1>7, editFailsStep
<1>8. ASSUME NEW k \in Keys, Expire(k) PROVE IInv'
  BY <1>8, ExpireStep
<1>9. CASE UNCHANGED vars
  <2>1. TypeOK'
    BY <1>9 DEF vars, histories, IInv, TypeOK
  <2>2. Shape' /\ TableIsStored' /\ CachedWasStored' /\ EditsAreInTurn' /\ EditsAddUp'
    BY <1>9 DEF vars, histories, IInv, Shape, TableIsStored, CachedWasStored, EditsAreInTurn, EditsAddUp
  <2>3. HandsAreKnown' /\ CacheIsKnown'
    <3>1. \A k : Found(k)' = Found(k)
      BY <1>9 DEF vars, Found, RowsOf
    <3>2. /\ \A k, x : Known(k, x)' <=> Known(k, x)
          /\ \A k : Pending(k)' <=> Pending(k)
      BY <1>9, <3>1 DEF vars, histories, Known, Pending
    <3>3. UNCHANGED <<reader, cache, stored>>
      BY <1>9 DEF vars, histories
    <3> QED
      BY <3>2, <3>3 DEF IInv, HandsAreKnown, CacheIsKnown
  <2> QED
    BY <2>1, <2>2, <2>3 DEF IInv
<1> QED
  BY <1>1, <1>2, <1>3, <1>4, <1>5, <1>6, <1>7, <1>8, <1>9 DEF Next

\* IInv holds throughout: what each step relies on and keeps.
THEOREM Invariance == Spec => []IInv
<1> QED
  BY InitIInv, NextIInv, PTL DEF Spec

\* The values stay of the program's types, and no two rows have one key,
\* whatever edits do at once: save lets the unique index refuse.
THEOREM TypeCorrect == Spec => []TypeOK
<1>1. IInv => TypeOK
  BY DEF IInv
<1> QED
  BY <1>1, Invariance, PTL

\* getCached never answers with a text of another locale, code, channel or tenant.
THEOREM NoStrangerCached == Spec => []CachedWasStored
<1>1. IInv => CachedWasStored
  BY DEF IInv
<1> QED
  BY <1>1, Invariance, PTL

\* What render takes from Redis is the row as it is, unless an edit is about to
\* invalidate it, or has not: it failed, lost the answer of its save, overtook a
\* render or moved the row to another key.
THEOREM StalenessExplained == Spec => []StaleNeedsCause
<1>1. IInv => StaleNeedsCause
  BY DEF IInv, StaleNeedsCause, CacheIsKnown, Stale, Known, Pending
<1> QED
  BY <1>1, Invariance, PTL

\* What PATCH requests name adds up when the edits of a row take turns, but for
\* the defaults that they bring along.
THEOREM EditsInTurnAddUp == Spec => []EditsAddUp
<1>1. IInv => EditsAddUp
  BY DEF IInv
<1> QED
  BY <1>1, Invariance, PTL
=============================================================================
