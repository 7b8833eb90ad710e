--------------------------- MODULE TemplateCache ---------------------------
(***************************************************************************)
(* The texts of the templates in their locales: the table                  *)
(* message_templates, edited by create and update, and the Redis keys      *)
(* tpl:*, which render fills and edits invalidate.  A slot is a tenant, a  *)
(* code and a channel; the rows of no tenant, which no render finds, are   *)
(* left out.                                                               *)
(***************************************************************************)
EXTENDS Naturals, FiniteSets

CONSTANTS
    Slots,        \* tenant, code and channel of a text
    Locales,
    Default,      \* the locale es_AR
    Ids,          \* the rows there may be
    Seeded,       \* the rows that are there at first, with the key of each
    Posts,        \* bound: the keys of the rows that a POST may make
    Patches,      \* bound: what a PATCH may name
    Readers,      \* slots for render
    Writers,      \* slots for create and update
    None,         \* no value, or a field that is not named
    MaxEdits,     \* bound: edits
    MaxFaults     \* bound: failed awaits

Keys == Slots \X Locales

ASSUME BoundsAssumption ==
    /\ MaxEdits \in Nat /\ MaxFaults \in Nat /\ Default \in Locales
    /\ Posts \subseteq Keys
    /\ Patches \subseteq [slot : Slots \cup {None}, locale : Locales \cup {None},
                           text : BOOLEAN, vars : BOOLEAN]
ASSUME SeededAssumption ==
    /\ Seeded \in [Ids -> Keys \cup {None}]
    /\ \A i, j \in Ids : i # j => Seeded[i] # Seeded[j] \/ Seeded[i] = None

VARIABLES
    table,        \* table message_templates
    cache,        \* Redis: what is cached under each key
    reader,       \* renders in flight
    writer,       \* edits in flight
    stored,       \* history: the rows each key has had
    excused,      \* history: rows that may be cached out of date, with their keys
    asked,        \* history: the rows as the edits that were saved asked for them
    raced,        \* history: whether two edits of a row went on at once
    edits,        \* what is used of MaxEdits: texts and variables are numbered by edit
    faults        \* what is used of MaxFaults

histories == <<stored, excused, asked, raced>>
vars == <<table, cache, reader, writer, histories, edits, faults>>

\* vars stands for the fields that have a default, 0, besides the locale:
\* requiredVars and isApproved.
Row == [slot : Slots, locale : Locales, text : Nat, vars : Nat, version : Nat]
Key(row) == <<row.slot, row.locale>>

ASSUME NoneAssumption == None \notin Ids \cup Slots \cup Locales \cup Keys \cup Row \cup Nat

Patch == [slot : Slots \cup {None}, locale : Locales \cup {None},
          text : Nat \cup {None}, vars : Nat \cup {None}]
NoPatch == [slot |-> None, locale |-> None, text |-> None, vars |-> None]

Reader == [pc : {"idle", "get", "find", "set"}, key : Keys \cup {None},
           row : Row \cup {None}]
NoRead == [pc |-> "idle", key |-> None, row |-> None]

\* row is what save is going to write: what was found, and the patch.
Writer == [pc : {"idle", "save", "del"}, id : Ids \cup {None}, row : Row \cup {None},
           patch : Patch]
NoWrite == [pc |-> "idle", id |-> None, row |-> None, patch |-> NoPatch]

First(i) == IF Seeded[i] = None THEN None
            ELSE [slot |-> Seeded[i][1], locale |-> Seeded[i][2], text |-> 0, vars |-> 0,
                  version |-> 1]

Init ==
    /\ table = [i \in Ids |-> First(i)]
    /\ cache = [k \in Keys |-> None]
    /\ reader = [r \in Readers |-> NoRead]
    /\ writer = [w \in Writers |-> NoWrite]
    /\ stored = [k \in Keys |-> {table[i] : i \in {j \in Ids : Seeded[j] = k}}]
    /\ excused = {}
    /\ asked = table
    /\ raced = FALSE
    /\ edits = 0 /\ faults = 0

Fault == faults < MaxFaults /\ faults' = faults + 1

\* findOne: the row of a key, or none.
RowsOf(k) == {table[i] : i \in {j \in Ids : table[j] # None /\ Key(table[j]) = k}}
Found(k) == IF RowsOf(k) = {} THEN None ELSE CHOOSE row \in RowsOf(k) : TRUE
-----------------------------------------------------------------------------
(***************************************************************************)
(* render, by way of getCached.                                            *)
(***************************************************************************)
render(r, k) ==
    /\ reader[r].pc = "idle"
    /\ reader' = [reader EXCEPT ![r] = [NoRead EXCEPT !.pc = "get", !.key = k]]
    /\ UNCHANGED <<table, cache, writer, histories, edits, faults>>

\* What is cached is the answer.
getCached(r) ==
    /\ reader[r].pc = "get"
    /\ reader' = [reader EXCEPT ![r] =
                    IF cache[@.key] # None THEN NoRead ELSE [@ EXCEPT !.pc = "find"]]
    /\ UNCHANGED <<table, cache, writer, histories, edits, faults>>

findOne(r) ==
    LET row == Found(reader[r].key) IN
    /\ reader[r].pc = "find"
    /\ reader' = [reader EXCEPT ![r] =
                    IF row = None THEN NoRead ELSE [@ EXCEPT !.pc = "set", !.row = row]]
    /\ UNCHANGED <<table, cache, writer, histories, edits, faults>>

\* Faulty variant: the key does not tell the locales apart.
setEverywhere(r) ==
    /\ reader[r].pc = "set"
    /\ cache' = [k \in Keys |-> IF k[1] = reader[r].key[1] THEN reader[r].row ELSE cache[k]]
    /\ reader' = [reader EXCEPT ![r] = NoRead]
    /\ UNCHANGED <<table, writer, histories, edits, faults>>

setCached(r) ==
    /\ reader[r].pc = "set"
    /\ cache' = [cache EXCEPT ![reader[r].key] = reader[r].row]
    /\ reader' = [reader EXCEPT ![r] = NoRead]
    /\ UNCHANGED <<table, writer, histories, edits, faults>>

\* A query fails, or Redis does not answer though it may have done the set.
renderFails(r) ==
    /\ Fault
    /\ reader[r].pc # "idle"
    /\ reader' = [reader EXCEPT ![r] = NoRead]
    /\ \/ cache' = cache
       \/ /\ reader[r].pc = "set"
          /\ cache' = [cache EXCEPT ![reader[r].key] = reader[r].row]
    /\ UNCHANGED <<table, writer, histories, edits>>

\* Faulty variant: a key that is set without EX stays.
Keep(k) == cache[k] # None /\ UNCHANGED vars

\* EX of five minutes: what was cached before an edit goes with its key.
Expire(k) ==
    /\ cache[k] # None
    /\ cache' = [cache EXCEPT ![k] = None]
    /\ UNCHANGED <<table, reader, writer, histories, edits, faults>>
-----------------------------------------------------------------------------
(***************************************************************************)
(* create and update.                                                      *)
(***************************************************************************)
Edit(w, i, row, patch) ==
    /\ writer[w].pc = "idle"
    /\ edits < MaxEdits /\ edits' = edits + 1
    /\ writer' = [writer EXCEPT ![w] = [pc |-> "save", id |-> i, row |-> row, patch |-> patch]]
    /\ raced' = (raced \/ \E v \in Writers : writer[v].pc = "save" /\ writer[v].id = i)
    /\ UNCHANGED <<table, cache, reader, stored, excused, asked, faults>>

\* No row of that key is found, and one is made.
create(w, i, k) ==
    /\ table[i] = None /\ Found(k) = None
    /\ \A v \in Writers : writer[v].id # i
    /\ Edit(w, i, [slot |-> k[1], locale |-> k[2], text |-> edits + 1, vars |-> edits + 1,
                   version |-> 1], NoPatch)

\* Object.assign: the fields that are named, and no others.
assign(row, p) ==
    [row EXCEPT !.slot   = IF p.slot = None THEN @ ELSE p.slot,
                !.locale = IF p.locale = None THEN @ ELSE p.locale,
                !.text   = IF p.text = None THEN @ ELSE p.text,
                !.vars   = IF p.vars = None THEN @ ELSE p.vars]

\* UpdateTemplateDto: what the request does not name has the default of
\* CreateTemplateDto, where there is one.
Dto(p) == [p EXCEPT !.locale = IF @ = None THEN Default ELSE @,
                    !.vars   = IF @ = None THEN 0 ELSE @]

Bumped(row) == [row EXCEPT !.version = @ + 1]

\* Number n is what an edit writes.
Numbered(p, n) == [p EXCEPT !.text = IF @ THEN n ELSE None, !.vars = IF @ THEN n ELSE None]

update(w, i) ==
    /\ table[i] # None
    /\ \E b \in Patches : LET p == Numbered(b, edits + 1) IN
           Edit(w, i, Bumped(assign(table[i], Dto(p))), p)

\* Faulty variant: a table without the unique index.
RefusedNever(i, row) == FALSE

\* Another row has the key: the unique index refuses this one.
Refused(i, row) == \E j \in Ids \ {i} : table[j] # None /\ Key(table[j]) = Key(row)

\* Faulty variant: the row that was read goes back into the table.
rowAsRead(i, row) == IF table[i] = None THEN row ELSE [table[i] EXCEPT !.version = row.version]

rowSaved(i, row) == row

\* What renders have in hand, and what is cached under a key.
InHand == {<<reader[r].key, reader[r].row>> : r \in {q \in Readers : reader[q].pc = "set"}}
Cached(k) == {<<k, cache[k]>>}

\* What is cached under the key that a row has left stays, and so does what is
\* in kept.
Saved(w, kept) ==
    LET i == writer[w].id   row == writer[w].row IN
    /\ writer[w].pc = "save" /\ ~Refused(i, row)
    /\ table' = [table EXCEPT ![i] = rowSaved(i, row)]
    /\ stored' = [stored EXCEPT ![Key(row)] = @ \cup {row}]
    /\ excused' = excused \cup InHand \cup kept
                   \cup IF table[i] # None /\ Key(table[i]) # Key(row)
                        THEN Cached(Key(table[i])) ELSE {}
    /\ asked' = [asked EXCEPT ![i] = IF @ = None THEN row ELSE Bumped(assign(@, writer[w].patch))]

save(w) ==
    /\ Saved(w, {})
    /\ writer' = [writer EXCEPT ![w].pc = "del"]
    /\ UNCHANGED <<cache, reader, raced, edits, faults>>

saveRefused(w) ==
    /\ writer[w].pc = "save" /\ Refused(writer[w].id, writer[w].row)
    /\ writer' = [writer EXCEPT ![w] = NoWrite]
    /\ UNCHANGED <<table, cache, reader, histories, edits, faults>>

\* Faulty variant: the key is made with the default locale.
keyOfDefault(row) == <<row.slot, Default>>

\* The key of the row as it was saved: the key that it had before is kept.
keyOf(row) == Key(row)

invalidateCache(w) ==
    /\ writer[w].pc = "del"
    /\ cache' = [cache EXCEPT ![keyOf(writer[w].row)] = None]
    /\ writer' = [writer EXCEPT ![w] = NoWrite]
    /\ UNCHANGED <<table, reader, histories, edits, faults>>

\* The save fails, or its answer is lost though the row was saved, or Redis does
\* not answer after it: the caller gets 500 and nothing is invalidated.
editFails(w) ==
    /\ Fault
    /\ writer[w].pc # "idle"
    /\ writer' = [writer EXCEPT ![w] = NoWrite]
    /\ \/ Saved(w, Cached(Key(writer[w].row)))
       \/ /\ excused' = excused \cup IF writer[w].pc = "del" THEN Cached(Key(writer[w].row)) ELSE {}
          /\ UNCHANGED <<table, stored, asked>>
    /\ UNCHANGED <<cache, reader, raced, edits>>
-----------------------------------------------------------------------------
Read(r) == getCached(r) \/ findOne(r) \/ setCached(r)
Write(w) == save(w) \/ saveRefused(w) \/ invalidateCache(w)

Next ==
    \/ \E r \in Readers : (\E k \in Keys : render(r, k)) \/ Read(r) \/ renderFails(r)
    \/ \E w \in Writers, i \in Ids : (\E k \in Posts : create(w, i, k)) \/ update(w, i)
    \/ \E w \in Writers : Write(w) \/ editFails(w)
    \/ \E k \in Keys : Expire(k)

Spec == Init /\ [][Next]_vars

\* Requests go on once a promise is settled, and keys expire.
FairSpec == /\ Spec
            /\ \A r \in Readers : WF_vars(Read(r))
            /\ \A w \in Writers : WF_vars(Write(w))
            /\ \A k \in Keys : WF_vars(Expire(k))
-----------------------------------------------------------------------------
\* Every variable holds a value of the program's types, and the index is unique.
TypeOK ==
    /\ table \in [Ids -> Row \cup {None}]
    /\ \A i, j \in Ids : table[i] # None /\ table[j] # None /\ i # j =>
           Key(table[i]) # Key(table[j])
    /\ cache \in [Keys -> Row \cup {None}]
    /\ reader \in [Readers -> Reader] /\ writer \in [Writers -> Writer]
    /\ stored \in [Keys -> SUBSET Row] /\ excused \subseteq Keys \X (Row \cup {None})
    /\ asked \in [Ids -> Row \cup {None}] /\ raced \in BOOLEAN
    /\ edits \in 0..MaxEdits /\ faults \in 0..MaxFaults

\* A text that is cached under a key was stored with that key: however reads and
\* edits overtake each other, none is served for another one.
CachedWasStored == \A k \in Keys : cache[k] # None => cache[k] \in stored[k]

Stale(k) == cache[k] # None /\ cache[k] # Found(k)

\* A cached text is out of date only for a reason: its edit is still on the
\* way to invalidate it; a render had the old row in hand when an edit was
\* saved; the invalidation failed, or was never made because the answer of the
\* save was lost; or the row has moved to another key (update makes the key of
\* the row as saved, whichever of locale, code, channel and tenant was patched).
StaleNeedsCause ==
    \A k \in Keys : Stale(k) =>
        <<k, cache[k]>> \in excused \/ \E w \in Writers : writer[w].pc = "del" /\ Key(writer[w].row) = k

\* As long as two edits of a row do not overlap, what they name adds up, also
\* where an answer was lost: the row has the text, the tenant, the code and the
\* channel that were named last, and a version that counts its saves.  Of the
\* fields with a default it has what was named last, or the default, which each
\* PATCH that does not name them puts back.
EditsAddUp ==
    ~raced => \A i \in Ids : table[i] # None =>
        /\ table[i].text = asked[i].text /\ table[i].slot = asked[i].slot
        /\ table[i].version = asked[i].version
        /\ table[i].locale \in {asked[i].locale, Default} /\ table[i].vars \in {asked[i].vars, 0}

\* What update says of its patch, a part of the fields: it changes what it names.
PatchKeepsTheRest == ~raced => table = asked

\* What is out of date does not stay: it is gone when its key expires, for no
\* render puts it back once no edit is under way.
StaleExpires == \A k \in Keys : Stale(k) ~> ~Stale(k)
=============================================================================
