----------------------------- MODULE DiningProofs --------------------------------
(******************************************************************************)
(* Proofs about Menu and Carts for any number of rows, requests, guests and   *)
(* processes, and any times to live.                                          *)
(*                                                                            *)
(* The age of a listing is bounded by what the cache knows of it: an entry    *)
(* ends within MenuTTL of now, so that a copy that is outdated now is gone    *)
(* soon (EntryInv).  The listing of categories stays fresh because a change   *)
(* marks every listing that is being read, so that an unmarked one is read    *)
(* and stored while nothing changes (ListingInv, FreshInv).                   *)
(*                                                                            *)
(* A cart leaves room for what its requests have still to save: Room(s) is    *)
(* what was asked for less what is owed, and every copy of the cart fits it   *)
(* (HeldInv).  While requests come one after the other and Redis answers, the *)
(* cart in Redis is what they leave (ExactInv).                               *)
(******************************************************************************)
EXTENDS MCDining, TablesProofs, FiniteSetTheorems, SequenceTheorems

--------------------------------------------------------------------------------
(* What the menu's requests and the cache may hold                            *)

Field == {"category", "price", "available", "extras"}

(* What is written of a row: any of its fields.                               *)
IsPatch(p) ==
    /\ DOMAIN p \subseteq Field
    /\ "category" \in DOMAIN p => p.category \in Category \cup {None}
    /\ "price" \in DOMAIN p => p.price \in Price
    /\ "available" \in DOMAIN p => p.available \in BOOLEAN
    /\ "extras" \in DOMAIN p => p.extras \in ItemModifierLinks

IsRowChange(rows) == DOMAIN rows \subseteq Item /\ \A i \in DOMAIN rows : IsPatch(rows[i])

IsCategoryChange(cats) ==
    DOMAIN cats \subseteq Category /\ \A c \in DOMAIN cats : cats[c] \in {"active", "hidden"}

IsChange(j) ==
    /\ j = [at |-> j.at, cats |-> j.cats, rows |-> j.rows, closes |-> j.closes,
            spared |-> j.spared]
    /\ j.at \in {"flush", "invalidate", "commit"}
    /\ IsCategoryChange(j.cats) /\ IsRowChange(j.rows)
    /\ j.spared \in SUBSET Extra

ListingJob ==
    [at : {"categories", "items", "extras", "store", "answer"}, key : Listings,
     process : Process, began : 0..MaxTime, copy : Copy]

IsJob(j) == j = Away \/ j \in ListingJob \/ IsChange(j)

Quiet == \A t \in Task : ~ Changes(t)

(* A listing on its way to the guest, and one that is still read.             *)
ListingInv(j) ==
    /\ j.began <= now /\ now <= j.began + 1
    /\ j.copy.old # None => j.began - j.copy.old <= MenuTTL + 1
    /\ j.at # "answer" =>
        /\ j.copy.old # None => j.began <= j.copy.old
        /\ j.at = "categories" => j.copy.cats = None
        /\ j.at # "categories" => j.copy.cats \in SUBSET Category
        /\ j.at \in {"categories", "items"} => j.copy.rows = None
        /\ j.at \in {"categories", "items", "extras"} => j.copy.extras = None
        /\ j.at = "extras" =>
            /\ j.copy.rows \in SUBSET (Item \X Category \X Price)
            /\ \A r \in j.copy.rows : items[r[1]] # None
        /\ ~ j.copy.raced => Quiet /\ Agrees(j.copy, categories, items)

(* A row that is not there is written whole.                                  *)
ChangeInv(j) == \A i \in DOMAIN j.rows : items[i] = None => j.rows[i] \in Row

Entry == [value : Copy, until : Nat]

(* An entry ends in time, and soon after it is outdated.                      *)
EntryInv(e) ==
    e # None =>
        /\ e \in Entry
        /\ e.until <= now + MenuTTL
        /\ e.value.old # None => e.until <= e.value.old + MenuTTL + 1

RowsInv ==
    /\ categories \in [Category -> MenuCategory]
    /\ items \in [Item -> Row \cup {None}]
    /\ now \in 0..MaxTime
    /\ faults \in Nat

CacheShape ==
    /\ redis = [k \in Key |-> redis[k]]
    /\ memory = [p \in Process |-> [k \in Key |-> memory[p][k]]]

CacheInv ==
    /\ \A k \in Listings : EntryInv(redis[k])
    /\ \A p \in Process, k \in Listings : EntryInv(memory[p][k])

JobsInv ==
    /\ menuJob = [t \in Task |-> menuJob[t]]
    /\ \A t \in Task : IsJob(menuJob[t])
    /\ \A t \in Task : Lists(t) => ListingInv(menuJob[t])
    /\ \A t \in Task : Changes(t) => ChangeInv(menuJob[t])

(* What the cache has of the categories is as they are, and no change that    *)
(* has deleted it is still to be committed.                                   *)
FreshInv ==
    LET entry == redis["menu:categories"]
    IN  faults = 0 /\ entry # None /\ ~ entry.value.raced =>
            /\ Agrees(entry.value, categories, items)
            /\ \A t \in Task : menuJob[t].at # "commit"

MenuInv == RowsInv /\ CacheShape /\ CacheInv /\ JobsInv /\ FreshInv

--------------------------------------------------------------------------------
(* Rows and copies                                                            *)

(* A row is a patch of all its fields.                                        *)
LEMMA RowsArePatches == \A row \in Row : IsPatch(row) /\ DOMAIN row = Field
BY DEF Row, IsPatch, Field

(* What has the fields of a row is one.                                       *)
LEMMA RowOf ==
    ASSUME NEW f, f = [x \in Field |-> f[x]],
           f.category \in Category \cup {None}, f.price \in Price,
           f.available \in BOOLEAN, f.extras \in ItemModifierLinks
    PROVE  f \in Row
<1>1. f = [category |-> f.category, price |-> f.price, available |-> f.available,
           extras |-> f.extras]
  BY DEF Field
<1> QED
  BY <1>1 DEF Row

(* What a patch is written over stays a row.                                  *)
LEMMA PatchedRow ==
    ASSUME NEW p, IsPatch(p), NEW row \in Row
    PROVE  Over(p, row) \in Row
<1> DEFINE r == Over(p, row)
<1>1. DOMAIN r = Field /\ r = [x \in Field |-> r[x]]
  BY RowsArePatches DEF Over, IsPatch
<1>2. \A x \in Field : r[x] = IF x \in DOMAIN p THEN p[x] ELSE row[x]
  BY RowsArePatches DEF Over, IsPatch
<1> HIDE DEF r
<1>3. /\ r.category = IF "category" \in DOMAIN p THEN p.category ELSE row.category
      /\ r.price = IF "price" \in DOMAIN p THEN p.price ELSE row.price
      /\ r.available = IF "available" \in DOMAIN p THEN p.available ELSE row.available
      /\ r.extras = IF "extras" \in DOMAIN p THEN p.extras ELSE row.extras
  BY <1>2 DEF Field
<1>4. /\ row.category \in Category \cup {None} /\ row.price \in Price
      /\ row.available \in BOOLEAN /\ row.extras \in ItemModifierLinks
  BY DEF Row
<1>5. /\ r.category \in Category \cup {None} /\ r.price \in Price
      /\ r.available \in BOOLEAN /\ r.extras \in ItemModifierLinks
  BY <1>3, <1>4 DEF IsPatch
<1> QED
  BY <1>1, <1>5, RowOf DEF r

(* One field, or none, is a patch.                                            *)
LEMMA SmallPatches ==
    /\ IsPatch(Nothing)
    /\ \A c \in Category \cup {None} : IsPatch(Only("category", c))
    /\ \A n \in Price : IsPatch(Only("price", n))
    /\ \A yes \in BOOLEAN : IsPatch(Only("available", yes))
    /\ \A extras \in ItemModifierLinks : IsPatch(Only("extras", extras))
BY DEF IsPatch, Only, Nothing, Field

(* Changes of no row or category, or of one.                                  *)
LEMMA SmallChanges ==
    /\ IsRowChange(Nothing) /\ IsCategoryChange(Nothing)
    /\ \A i \in Item : \A p : IsPatch(p) => IsRowChange(Only(i, p))
    /\ \A c \in Category, status \in {"active", "hidden"} : IsCategoryChange(Only(c, status))
BY DEF IsRowChange, IsCategoryChange, Only, Nothing

(* A copy that is marked as outdated now differs in nothing else.             *)
LEMMA AgedCopy ==
    ASSUME NEW copy \in Copy, NEW cats, NEW rows, now \in 0..MaxTime
    PROVE  /\ Aged(copy, cats, rows) \in Copy
           /\ \/ Aged(copy, cats, rows).old = copy.old
              \/ copy.old = None /\ Aged(copy, cats, rows).old = now
           /\ Aged(copy, cats, rows).cats = copy.cats
           /\ Aged(copy, cats, rows).rows = copy.rows
           /\ Aged(copy, cats, rows).extras = copy.extras
           /\ Aged(copy, cats, rows).raced = copy.raced
<1> DEFINE aged == Aged(copy, cats, rows)
<1>1. aged = copy \/ (copy.old = None /\ aged = [copy EXCEPT !.old = now])
  BY DEF Aged
<1> HIDE DEF aged
<1> SUFFICES /\ aged \in Copy
             /\ aged.old = copy.old \/ (copy.old = None /\ aged.old = now)
             /\ aged.cats = copy.cats /\ aged.rows = copy.rows
             /\ aged.extras = copy.extras /\ aged.raced = copy.raced
  BY DEF aged
<1>2. CASE aged = copy
  BY <1>2
<1>3. CASE copy.old = None /\ aged = [copy EXCEPT !.old = now]
  BY <1>3 DEF Copy
<1> QED
  BY <1>1, <1>2, <1>3

(* What the SELECTs return has the type of a copy.                            *)
LEMMA OfferedType ==
    ASSUME items \in [Item -> Row \cup {None}], NEW cats \in SUBSET Category
    PROVE  /\ Offered(items, cats) \in SUBSET (Item \X Category \X Price)
           /\ \A r \in Offered(items, cats) : items[r[1]] # None
BY DEF Offered, Row

LEMMA ExtrasType ==
    ASSUME items \in [Item -> Row \cup {None}], NEW listed \in SUBSET (Item \X Category \X Price),
           \A r \in listed : items[r[1]] # None
    PROVE  ExtrasOf(items, listed) \in SUBSET (Item \X SUBSET Extra)
BY DEF ExtrasOf, Row, ItemModifierLinks

--------------------------------------------------------------------------------
(* Steps that change no row                                                   *)

(* What a request is at tells what it is.                                     *)
LEMMA JobKinds ==
    ASSUME NEW j, IsJob(j)
    PROVE  /\ j.at \in {"categories", "items", "extras", "store", "answer"} <=> j \in ListingJob
           /\ j.at \in {"flush", "invalidate", "commit"} <=> IsChange(j)
           /\ ~ (j \in ListingJob /\ IsChange(j))
           /\ j.at # "away" <=> j \in ListingJob \/ IsChange(j)
<1>1. CASE j = Away
  BY <1>1 DEF Away, ListingJob, IsChange
<1>2. CASE j \in ListingJob
  BY <1>2 DEF ListingJob, IsChange
<1>3. CASE IsChange(j)
  BY <1>3 DEF ListingJob, IsChange
<1> QED
  BY <1>1, <1>2, <1>3 DEF IsJob

(* The same of a task.                                                        *)
LEMMA Stages ==
    ASSUME NEW t, IsJob(menuJob[t])
    PROVE  /\ Lists(t) <=> menuJob[t] \in ListingJob
           /\ Changes(t) <=> IsChange(menuJob[t])
           /\ ~ (Lists(t) /\ Changes(t))
           /\ Busy(t) <=> Lists(t) \/ Changes(t)
BY JobKinds DEF Lists, Changes, Busy

(* One entry is set, or deleted, in Redis or in a process or in both or not.  *)
Puts(p, k, entry) ==
    /\ redis' \in {redis, [redis EXCEPT ![k] = entry]}
    /\ memory' \in {memory, [memory EXCEPT ![p][k] = entry]}
    /\ now' = now

(* What the cache has of the listings is kept in time.                        *)
LEMMA PutEntry ==
    ASSUME CacheShape, CacheInv, NEW p \in Process, NEW k \in Key, NEW entry,
           k \in Listings => EntryInv(entry), Puts(p, k, entry)
    PROVE  /\ CacheShape' /\ CacheInv'
           /\ redis'[k] \in {redis[k], entry}
           /\ redis' # redis => redis'[k] = entry
           /\ memory'[p][k] \in {memory[p][k], entry}
           /\ memory' # memory => memory'[p][k] = entry
           /\ \A x \in Key \ {k} : redis'[x] = redis[x]
           /\ \A q \in Process, x \in Key : q # p \/ x # k => memory'[q][x] = memory[q][x]
<1>1. /\ redis'[k] \in {redis[k], entry}
      /\ redis' # redis => redis'[k] = entry
      /\ \A x \in Key \ {k} : redis'[x] = redis[x]
      /\ redis' = [x \in Key |-> redis'[x]]
  <2>1. CASE redis' = redis
    BY <2>1 DEF CacheShape
  <2>2. CASE redis' = [redis EXCEPT ![k] = entry]
    BY <2>2 DEF CacheShape
  <2> QED
    BY <2>1, <2>2 DEF Puts
<1>2. /\ memory'[p][k] \in {memory[p][k], entry}
      /\ memory' # memory => memory'[p][k] = entry
      /\ \A q \in Process, x \in Key : q # p \/ x # k => memory'[q][x] = memory[q][x]
      /\ memory' = [q \in Process |-> [x \in Key |-> memory'[q][x]]]
  <2>1. CASE memory' = memory
    BY <2>1 DEF CacheShape
  <2>2. CASE memory' = [memory EXCEPT ![p][k] = entry]
    BY <2>2 DEF CacheShape
  <2> QED
    BY <2>1, <2>2 DEF Puts
<1>3. CacheShape'
  BY <1>1, <1>2 DEF CacheShape
<1>4. \A e : EntryInv(e) => EntryInv(e)'
  BY DEF EntryInv, Puts
<1>5. \A x \in Listings : x \in Key
  BY DEF Listings, Key
<1>6. CacheInv'
  <2>1. ASSUME NEW x \in Listings
        PROVE  EntryInv(redis[x])'
    <3>1. EntryInv(redis'[x])
      BY <1>1, <1>5 DEF CacheInv
    <3> QED
      BY <3>1 DEF EntryInv, Puts
  <2>2. ASSUME NEW q \in Process, NEW x \in Listings
        PROVE  EntryInv(memory[q][x])'
    <3>1. EntryInv(memory'[q][x])
      BY <1>2, <1>5 DEF CacheInv
    <3> QED
      BY <3>1 DEF EntryInv, Puts
  <2> QED
    BY <2>1, <2>2 DEF CacheInv
<1> QED
  BY <1>1, <1>2, <1>3, <1>6

(* A request goes on, and begins no change.                                   *)
LEMMA JobStep ==
    ASSUME MenuInv, NEW t \in Task, NEW j, IsJob(j), menuJob' = [menuJob EXCEPT ![t] = j],
           UNCHANGED <<categories, items, now>>,
           CacheShape', CacheInv', faults' \in Nat,
           j \in ListingJob => ListingInv(j),
           IsChange(j) => Changes(t) /\ ChangeInv(j),
           FreshInv'
    PROVE  MenuInv'
<1>1. \A u \in Task : menuJob'[u] = IF u = t THEN j ELSE menuJob[u]
  BY DEF MenuInv, JobsInv
<1>2. \A u \in Task : IsJob(menuJob[u]) /\ IsJob(menuJob'[u])
  BY <1>1 DEF MenuInv, JobsInv
<1>3. \A u \in Task : Changes(u)' => Changes(u)
  <2>1. Changes(t)' => IsChange(j)
    BY <1>1, <1>2, Stages, IsJob(j) DEF Changes, IsJob, ListingJob, Away
  <2> QED
    BY <1>1, <2>1 DEF Changes
<1>4. ASSUME NEW u \in Task, Lists(u)'
      PROVE  ListingInv(menuJob[u])'
  <2>1. ListingInv(menuJob'[u])
    <3>1. CASE u = t
      BY <1>1, <1>4, <3>1, IsJob(j) DEF Lists, IsJob, IsChange, Away
    <3>2. CASE u # t
      BY <1>1, <1>4, <3>2 DEF Lists, MenuInv, JobsInv
    <3> QED
      BY <3>1, <3>2
  <2>2. Quiet => Quiet'
    BY <1>3 DEF Quiet
  <2> QED
    BY <2>1, <2>2 DEF ListingInv
<1>5. ASSUME NEW u \in Task, Changes(u)'
      PROVE  ChangeInv(menuJob[u])'
  <2>1. ChangeInv(menuJob'[u])
    <3>1. CASE u = t
      BY <1>1, <1>5, <3>1, IsJob(j) DEF Changes, IsJob, ListingJob, Away
    <3>2. CASE u # t
      BY <1>1, <1>5, <3>2 DEF Changes, MenuInv, JobsInv
    <3> QED
      BY <3>1, <3>2
  <2> QED
    BY <2>1 DEF ChangeInv
<1>6. JobsInv'
  <2>1. (menuJob = [u \in Task |-> menuJob[u]])'
    BY DEF MenuInv, JobsInv
  <2>2. ASSUME NEW u \in Task
        PROVE  IsJob(menuJob[u])'
    BY <1>2 DEF IsJob, IsChange, ListingJob
  <2> QED
    BY <1>4, <1>5, <2>1, <2>2 DEF JobsInv
<1>7. RowsInv'
  BY DEF MenuInv, RowsInv
<1> QED
  BY <1>6, <1>7 DEF MenuInv

(* What is fresh stays so while nothing is committed or about to be.          *)
LEMMA FreshStep ==
    ASSUME MenuInv, NEW t \in Task, NEW j, menuJob' = [menuJob EXCEPT ![t] = j], j.at # "commit",
           UNCHANGED <<categories, items, redis>>, faults' = 0 => faults = 0
    PROVE  FreshInv'
<1>1. \A u \in Task : menuJob'[u] = IF u = t THEN j ELSE menuJob[u]
  BY DEF MenuInv, JobsInv
<1> QED
  BY <1>1 DEF MenuInv, FreshInv, Agrees

(* A call that is counted leaves a number, and none is forgotten.             *)
LEMMA CountedStep ==
    ASSUME RowsInv, NEW how, Counted(how)
    PROVE  /\ faults' \in Nat
           /\ faults' = 0 => faults = 0 /\ how = "done"
BY DEF Counted, RowsInv

(* What the cache returns is a copy that is not outdated for long.            *)
LEMMA FoundListing ==
    ASSUME MenuInv, NEW p \in Process, NEW key \in Listings, NEW how, Found(p, key, how) # None
    PROVE  /\ Found(p, key, how) \in Copy
           /\ Found(p, key, how).old # None => now - Found(p, key, how).old <= MenuTTL + 1
<1> DEFINE copy == Found(p, key, how)
<1>1. PICK entry : /\ entry # None /\ copy = entry.value
                   /\ now <= entry.until
                   /\ entry \in {redis[key], memory[p][key]}
  <2>1. key \in Key
    BY DEF Listings, Key
  <2>2. CASE how = "done"
    <3>1. copy = IF redis[key] # None /\ now < redis[key].until THEN redis[key].value ELSE None
      BY <2>1, <2>2 DEF Found, Kept
    <3>2. redis[key] # None /\ now < redis[key].until /\ copy = redis[key].value
      BY <3>1
    <3>3. redis[key].until \in Nat /\ now \in Nat
      BY <3>2 DEF MenuInv, CacheInv, EntryInv, Entry, RowsInv
    <3>4. now <= redis[key].until
      BY <3>2, <3>3
    <3> QED
      BY <3>2, <3>4
  <2>3. CASE how # "done"
    BY <2>1, <2>3 DEF Found, Remembered
  <2> QED
    BY <2>2, <2>3
<1>2. EntryInv(entry)
  BY <1>1 DEF MenuInv, CacheInv
<1>3. copy \in Copy /\ entry.until \in Nat
  BY <1>1, <1>2 DEF EntryInv, Entry
<1>4. copy.old # None => entry.until <= copy.old + MenuTTL + 1
  BY <1>1, <1>2 DEF EntryInv
<1>5. now \in Nat /\ MenuTTL \in Nat /\ (copy.old # None => copy.old \in Nat)
  BY <1>3, CacheAssumption DEF MenuInv, RowsInv, Copy
<1> HIDE DEF copy
<1>6. copy.old # None => now - copy.old <= MenuTTL + 1
  BY <1>1, <1>3, <1>4, <1>5
<1> QED
  BY <1>3, <1>6 DEF copy

(* A listing begins, with a copy from the cache or with none.                 *)
LEMMA StartListingKeeps ==
    ASSUME MenuInv, NEW t \in Task, NEW p \in Process, NEW key \in Listings,
           StartListing(t, p, key)
    PROVE  MenuInv'
<1>1. PICK how \in Outcome :
        /\ CacheGet(how)
        /\ menuJob' = [menuJob EXCEPT ![t] =
             [at |-> IF Usable(key, Found(p, key, how)) THEN "answer" ELSE "categories",
              key |-> key, process |-> p, began |-> now,
              copy |-> IF Usable(key, Found(p, key, how)) THEN Found(p, key, how)
                       ELSE [NoCopy EXCEPT !.raced = \E u \in Task : Changes(u)]]]
  BY DEF StartListing
<1> DEFINE copy == IF Usable(key, Found(p, key, how)) THEN Found(p, key, how)
                   ELSE [NoCopy EXCEPT !.raced = \E u \in Task : Changes(u)]
           stage == IF Usable(key, Found(p, key, how)) THEN "answer" ELSE "categories"
           job == [at |-> stage, key |-> key, process |-> p, began |-> now, copy |-> copy]
<1>2. /\ job.at = stage /\ job.began = now /\ job.copy = copy
      /\ job = [at |-> stage, key |-> key, process |-> p, began |-> now, copy |-> copy]
  OBVIOUS
<1>3. now \in 0..MaxTime /\ now <= now + 1
  BY CacheAssumption DEF MenuInv, RowsInv
<1>4. /\ copy \in Copy /\ stage \in {"answer", "categories"}
      /\ copy.old # None => now - copy.old <= MenuTTL + 1
      /\ stage = "categories" =>
           /\ copy.cats = None /\ copy.rows = None /\ copy.extras = None /\ copy.old = None
           /\ ~ copy.raced => Quiet
  <2>1. CASE Usable(key, Found(p, key, how))
    BY <2>1, FoundListing DEF Usable
  <2>2. CASE ~ Usable(key, Found(p, key, how))
    <3>1. PICK b \in BOOLEAN : b = \E u \in Task : Changes(u)
      OBVIOUS
    <3>2. copy = [cats |-> None, rows |-> None, extras |-> None, old |-> None, raced |-> b]
      BY <2>2, <3>1 DEF NoCopy
    <3> HIDE DEF copy
    <3>3. copy \in Copy
      BY <3>1, <3>2 DEF Copy
    <3>4. ~ copy.raced => Quiet
      BY <3>1, <3>2 DEF Quiet
    <3> QED
      BY <2>2, <3>2, <3>3, <3>4
  <2> QED
    BY <2>1, <2>2
<1> HIDE DEF copy, stage, job
<1>5. job \in ListingJob /\ IsJob(job) /\ ~ IsChange(job)
  BY <1>2, <1>3, <1>4 DEF ListingJob, IsJob, IsChange
<1>6. ListingInv(job)
  <2>1. stage = "categories" => Agrees(copy, categories, items)
    BY <1>4 DEF Agrees
  <2> QED
    BY <1>2, <1>3, <1>4, <2>1 DEF ListingInv
<1>7. menuJob' = [menuJob EXCEPT ![t] = job]
  BY <1>1 DEF job, copy, stage
<1>8. UNCHANGED <<categories, items, redis, memory, now>> /\ Counted(how)
  BY <1>1 DEF StartListing, CacheGet
<1>9. faults' \in Nat /\ (faults' = 0 => faults = 0)
  BY <1>8, CountedStep DEF MenuInv
<1>10. FreshInv'
  BY <1>2, <1>4, <1>7, <1>8, <1>9, FreshStep
<1>11. CacheShape' /\ CacheInv'
  BY <1>8 DEF MenuInv, CacheShape, CacheInv, EntryInv
<1> QED
  BY <1>5, <1>6, <1>7, <1>8, <1>9, <1>10, <1>11, JobStep

(* A listing as it goes on.                                                   *)
LEMMA GoesJob ==
    ASSUME MenuInv, NEW t \in Task, Lists(t), NEW stage, NEW copy \in Copy,
           stage \in {"categories", "items", "extras", "store", "answer"},
           Goes(t, stage, copy)
    PROVE  \E j \in ListingJob :
             /\ menuJob' = [menuJob EXCEPT ![t] = j]
             /\ j.at = stage /\ j.copy = copy /\ j.began = menuJob[t].began
             /\ IsJob(j) /\ ~ IsChange(j)
<1> DEFINE j == [menuJob[t] EXCEPT !.at = stage, !.copy = copy]
<1>1. menuJob[t] \in ListingJob
  BY Stages DEF MenuInv, JobsInv
<1>2. j \in ListingJob /\ j.at = stage /\ j.copy = copy /\ j.began = menuJob[t].began
  BY <1>1 DEF ListingJob
<1>3. menuJob' = [menuJob EXCEPT ![t] = j]
  BY <1>1 DEF Goes, ListingJob, MenuInv, JobsInv
<1> HIDE DEF j
<1>4. IsJob(j) /\ ~ IsChange(j)
  BY <1>2 DEF IsJob, IsChange
<1> QED
  BY <1>2, <1>3, <1>4

(* A listing that reads on and leaves the cache alone.                        *)
LEMMA ReadStep ==
    ASSUME MenuInv, NEW t \in Task, Reads(t), NEW stage, NEW copy \in Copy,
           stage \in {"items", "extras", "store"},
           Goes(t, stage, copy), UNCHANGED <<categories, items, cacheVars>>,
           copy.old = menuJob[t].copy.old, copy.raced = menuJob[t].copy.raced,
           copy.cats \in SUBSET Category,
           stage = "items" => copy.rows = None,
           stage \in {"items", "extras"} => copy.extras = None,
           stage = "extras" =>
               /\ copy.rows \in SUBSET (Item \X Category \X Price)
               /\ \A r \in copy.rows : items[r[1]] # None,
           Agrees(menuJob[t].copy, categories, items) => Agrees(copy, categories, items)
    PROVE  MenuInv'
<1>1. PICK j \in ListingJob :
        /\ menuJob' = [menuJob EXCEPT ![t] = j]
        /\ j.at = stage /\ j.copy = copy /\ j.began = menuJob[t].began
        /\ IsJob(j) /\ ~ IsChange(j)
  BY GoesJob DEF Reads
<1>2. ListingInv(menuJob[t]) /\ menuJob[t].at # "answer"
  BY DEF MenuInv, JobsInv, Reads
<1>3. ListingInv(j)
  BY <1>1, <1>2 DEF ListingInv
<1>4. FreshInv'
  BY <1>1, FreshStep DEF cacheVars
<1>5. CacheShape' /\ CacheInv' /\ faults' \in Nat
  BY DEF cacheVars, MenuInv, CacheShape, CacheInv, EntryInv, RowsInv
<1> QED
  BY <1>1, <1>3, <1>4, <1>5, JobStep DEF cacheVars

(* The three SELECTs of a listing.                                            *)
LEMMA ReadsKeep ==
    ASSUME MenuInv, NEW t \in Task, ReadCategories(t) \/ ReadItems(t) \/ LoadItemModifiers(t)
    PROVE  MenuInv'
<1> DEFINE copy == menuJob[t].copy
<1>1. Lists(t) /\ Reads(t)
  BY DEF ReadCategories, ReadItems, LoadItemModifiers, Reads, Lists
<1>2. menuJob[t] \in ListingJob /\ copy \in Copy
  BY <1>1, Stages DEF MenuInv, JobsInv, ListingJob
<1>3. ListingInv(menuJob[t])
  BY <1>1 DEF MenuInv, JobsInv
<1>4. CASE ReadCategories(t)
  <2> DEFINE read == [copy EXCEPT !.cats = Active(categories)]
  <2>1. read \in Copy /\ read.cats \in SUBSET Category
    BY <1>2 DEF Active, Copy
  <2>2. /\ read.old = copy.old /\ read.raced = copy.raced
        /\ read.rows = copy.rows /\ read.extras = copy.extras
        /\ read.cats = Active(categories)
    BY <1>2 DEF Copy
  <2>3. copy.rows = None /\ copy.extras = None
    BY <1>3, <1>4 DEF ListingInv, ReadCategories
  <2>4. Goes(t, "items", read) /\ UNCHANGED <<categories, items, cacheVars>>
    BY <1>4 DEF ReadCategories
  <2> HIDE DEF read
  <2>5. Agrees(read, categories, items)
    BY <2>2, <2>3 DEF Agrees
  <2> QED
    BY <1>1, <2>1, <2>2, <2>3, <2>4, <2>5, ReadStep
<1>5. CASE ReadItems(t)
  <2> DEFINE read == [copy EXCEPT !.rows = Offered(items, copy.cats)]
             stage == IF menuJob[t].key = "menu:public" THEN "extras" ELSE "store"
  <2>1. copy.cats \in SUBSET Category /\ copy.extras = None
    BY <1>3, <1>5 DEF ListingInv, ReadItems
  <2>2. /\ Offered(items, copy.cats) \in SUBSET (Item \X Category \X Price)
        /\ \A r \in Offered(items, copy.cats) : items[r[1]] # None
    BY <2>1, OfferedType DEF MenuInv, RowsInv
  <2>3. /\ read \in Copy
        /\ read.old = copy.old /\ read.raced = copy.raced
        /\ read.rows = Offered(items, copy.cats) /\ read.extras = copy.extras
        /\ read.cats = copy.cats
    BY <1>2, <2>2 DEF Copy
  <2>4. Goes(t, stage, read) /\ UNCHANGED <<categories, items, cacheVars>>
    BY <1>5 DEF ReadItems
  <2>5. stage \in {"extras", "store"}
    OBVIOUS
  <2> HIDE DEF read, stage
  <2>6. Agrees(copy, categories, items) => Agrees(read, categories, items)
    BY <2>1, <2>3 DEF Agrees
  <2> QED
    BY <1>1, <2>1, <2>2, <2>3, <2>4, <2>5, <2>6, ReadStep
<1>6. CASE LoadItemModifiers(t)
  <2> DEFINE read == [copy EXCEPT !.extras = ExtrasOf(items, copy.rows)]
  <2>1. /\ copy.cats \in SUBSET Category
        /\ copy.rows \in SUBSET (Item \X Category \X Price)
        /\ \A r \in copy.rows : items[r[1]] # None
    BY <1>3, <1>6 DEF ListingInv, LoadItemModifiers
  <2>2. ExtrasOf(items, copy.rows) \in SUBSET (Item \X SUBSET Extra)
    BY <2>1, ExtrasType DEF MenuInv, RowsInv
  <2>3. /\ read \in Copy
        /\ read.old = copy.old /\ read.raced = copy.raced
        /\ read.rows = copy.rows /\ read.extras = ExtrasOf(items, copy.rows)
        /\ read.cats = copy.cats
    BY <1>2, <2>2 DEF Copy
  <2>4. Goes(t, "store", read) /\ UNCHANGED <<categories, items, cacheVars>>
    BY <1>6 DEF LoadItemModifiers
  <2> HIDE DEF read
  <2>5. Agrees(copy, categories, items) => Agrees(read, categories, items)
    BY <2>3 DEF Agrees
  <2> QED
    BY <1>1, <2>1, <2>3, <2>4, <2>5, ReadStep
<1> QED
  BY <1>4, <1>5, <1>6

(* The copy is kept for MenuTTL from now, a tick after the listing began at   *)
(* the latest.                                                                *)
LEMMA StoreKeeps ==
    ASSUME MenuInv, NEW t \in Task, StoreListing(t)
    PROVE  MenuInv'
<1> DEFINE job == menuJob[t]
           copy == menuJob[t].copy
           entry == Timed(copy, MenuTTL)
<1>1. Lists(t) /\ job.at = "store"
  BY DEF StoreListing, Lists
<1>2. /\ job \in ListingJob /\ copy \in Copy /\ job.process \in Process
      /\ job.key \in Listings /\ job.key \in Key /\ job.began \in Nat
  BY <1>1, Stages, CacheAssumption DEF MenuInv, JobsInv, ListingJob, Key, Listings
<1>3. ListingInv(job)
  BY <1>1 DEF MenuInv, JobsInv
<1>4. PICK how \in Outcome : CacheSet(job.process, job.key, copy, MenuTTL, how)
  BY DEF StoreListing
<1>5. Goes(t, "answer", copy) /\ UNCHANGED <<categories, items>>
  BY DEF StoreListing
<1>6. entry = [value |-> copy, until |-> now + MenuTTL]
  BY DEF Timed
<1>7. now \in Nat /\ MenuTTL \in Nat /\ (copy.old # None => copy.old \in Nat)
  BY <1>2, CacheAssumption DEF MenuInv, RowsInv, Copy
<1>8. EntryInv(entry)
  <2>1. entry \in Entry /\ entry.until = now + MenuTTL /\ entry.value = copy
    BY <1>2, <1>6, <1>7 DEF Entry
  <2>2. copy.old # None => now <= copy.old + 1
    BY <1>1, <1>2, <1>3, <1>7 DEF ListingInv
  <2>3. copy.old # None => entry.until <= copy.old + MenuTTL + 1
    BY <2>1, <2>2, <1>7
  <2> HIDE DEF entry
  <2> QED
    BY <2>1, <2>3, <1>7 DEF EntryInv
<1>9. /\ redis' = IF how = "lost" THEN redis ELSE [redis EXCEPT ![job.key] = entry]
      /\ memory' = IF how = "done" THEN memory
                   ELSE [memory EXCEPT ![job.process][job.key] = entry]
      /\ Counted(how) /\ now' = now
  BY <1>4 DEF CacheSet
<1>10. faults' \in Nat /\ (faults' = 0 => faults = 0 /\ how = "done")
  BY <1>9, CountedStep DEF MenuInv
<1>11. /\ CacheShape' /\ CacheInv'
       /\ redis'[job.key] \in {redis[job.key], entry}
       /\ \A x \in Key \ {job.key} : redis'[x] = redis[x]
  <2> HIDE DEF entry, job
  <2>1. Puts(job.process, job.key, entry)
    BY <1>9 DEF Puts
  <2>2. job.process \in Process /\ job.key \in Key /\ CacheShape /\ CacheInv
    BY <1>2 DEF MenuInv
  <2> QED
    BY <1>8, <2>1, <2>2, PutEntry
<1>12. PICK j \in ListingJob :
         /\ menuJob' = [menuJob EXCEPT ![t] = j]
         /\ j.at = "answer" /\ j.copy = copy /\ j.began = job.began
         /\ IsJob(j) /\ ~ IsChange(j)
  BY <1>1, <1>2, <1>5, GoesJob
<1>13. ListingInv(j)
  BY <1>3, <1>12 DEF ListingInv
<1>14. FreshInv'
  <2>1. \A u \in Task : menuJob'[u] = IF u = t THEN j ELSE menuJob[u]
    BY <1>12 DEF MenuInv, JobsInv
  <2>2. SUFFICES ASSUME faults' = 0, redis'["menu:categories"] # None,
                        ~ redis'["menu:categories"].value.raced
                 PROVE  /\ Agrees(redis'["menu:categories"].value, categories, items)
                        /\ \A u \in Task : menuJob[u].at # "commit"
    BY <1>5, <1>12, <2>1 DEF FreshInv
  <2>3. CASE redis'["menu:categories"] = redis["menu:categories"]
    BY <1>10, <2>2, <2>3 DEF MenuInv, FreshInv
  <2>4. CASE redis'["menu:categories"] # redis["menu:categories"]
    <3>1. redis'["menu:categories"] = entry
      BY <1>11, <2>4 DEF Key
    <3>2. ~ copy.raced
      BY <1>6, <2>2, <3>1
    <3>3. Quiet /\ Agrees(copy, categories, items)
      BY <1>1, <1>3, <3>2 DEF ListingInv
    <3> QED
      BY <1>6, <3>1, <3>3 DEF Quiet, Changes
  <2> QED
    BY <2>3, <2>4
<1> HIDE DEF job, copy, entry
<1> QED
  BY <1>5, <1>9, <1>10, <1>11, <1>12, <1>13, <1>14, JobStep

(* A request ends.                                                            *)
LEMMA EndKeeps ==
    ASSUME MenuInv, NEW t \in Task, Answer(t) \/ RollBack(t)
    PROVE  MenuInv'
<1>1. /\ menuJob' = [menuJob EXCEPT ![t] = Away]
      /\ UNCHANGED <<categories, items, redis, memory, faults, now>>
  BY DEF Answer, RollBack, cacheVars
<1>2. IsJob(Away) /\ Away \notin ListingJob /\ ~ IsChange(Away) /\ Away.at # "commit"
  BY DEF Away, IsJob, ListingJob, IsChange
<1>3. FreshInv'
  BY <1>1, <1>2, FreshStep
<1>4. CacheShape' /\ CacheInv' /\ faults' \in Nat
  BY <1>1 DEF MenuInv, CacheShape, CacheInv, EntryInv, RowsInv
<1> QED
  BY <1>1, <1>2, <1>3, <1>4, JobStep

--------------------------------------------------------------------------------
(* Changes                                                                    *)

(* A change begins, and marks what is being read.                             *)
LEMMA StartChangeKeeps ==
    ASSUME MenuInv, NEW t \in Task, NEW cats, NEW rows, NEW closes,
           StartChange(t, cats, rows, closes),
           IsCategoryChange(cats), IsRowChange(rows),
           \A i \in DOMAIN rows : items[i] = None => rows[i] \in Row
    PROVE  MenuInv'
<1> DEFINE job == [at |-> "flush", cats |-> cats, rows |-> rows, closes |-> closes, spared |-> {}]
           marked(u) == [menuJob[u] EXCEPT !.copy.raced = TRUE]
<1>1. /\ \A u \in Task : menuJob'[u] = IF u = t THEN job
                                       ELSE IF Reads(u) THEN marked(u) ELSE menuJob[u]
      /\ menuJob' = [u \in Task |-> menuJob'[u]]
      /\ UNCHANGED <<categories, items, redis, memory, faults, now>>
  BY DEF StartChange, cacheVars
<1>2. /\ IsChange(job) /\ IsJob(job) /\ ChangeInv(job) /\ job.at = "flush"
  BY DEF IsJob, IsChange, ChangeInv
<1> HIDE DEF job
<1>3. ASSUME NEW u \in Task, Reads(u)
      PROVE  /\ marked(u) \in ListingJob /\ marked(u).at = menuJob[u].at
             /\ ListingInv(marked(u)) /\ marked(u).copy.raced = TRUE
  <2>1. menuJob[u] \in ListingJob /\ ListingInv(menuJob[u])
    BY <1>3, Stages DEF Reads, MenuInv, JobsInv
  <2>2. /\ marked(u).at = menuJob[u].at /\ marked(u).began = menuJob[u].began
        /\ marked(u).key = menuJob[u].key /\ marked(u).process = menuJob[u].process
        /\ marked(u).copy = [menuJob[u].copy EXCEPT !.raced = TRUE]
        /\ marked(u) \in ListingJob
    BY <2>1 DEF ListingJob, Copy
  <2>3. /\ marked(u).copy.raced = TRUE /\ marked(u).copy.old = menuJob[u].copy.old
        /\ marked(u).copy.cats = menuJob[u].copy.cats /\ marked(u).copy.rows = menuJob[u].copy.rows
        /\ marked(u).copy.extras = menuJob[u].copy.extras
    BY <2>1, <2>2 DEF ListingJob, Copy
  <2> HIDE DEF marked
  <2>4. ListingInv(marked(u))
    BY <2>1, <2>2, <2>3 DEF ListingInv
  <2> QED
    BY <2>2, <2>3, <2>4
<1> HIDE DEF marked
<1>4. ASSUME NEW u \in Task
      PROVE  /\ IsJob(menuJob'[u])
             /\ menuJob'[u] \in ListingJob => ListingInv(menuJob'[u])
                   /\ (menuJob'[u].at # "answer" => menuJob'[u].copy.raced = TRUE)
             /\ IsChange(menuJob'[u]) => ChangeInv(menuJob'[u])
             /\ menuJob'[u].at = "commit" => menuJob[u].at = "commit"
  <2>1. CASE u = t
    BY <1>1, <1>2, <2>1 DEF IsChange, ListingJob
  <2>2. CASE u # t /\ Reads(u)
    BY <1>1, <1>3, <2>2 DEF IsJob, IsChange, ListingJob
  <2>3. CASE u # t /\ ~ Reads(u)
    BY <1>1, <2>3, Stages DEF MenuInv, JobsInv, Reads
  <2> QED
    BY <2>1, <2>2, <2>3
<1>5. ASSUME NEW u \in Task, Lists(u)'
      PROVE  ListingInv(menuJob[u])'
  <2>1. menuJob'[u] \in ListingJob
    BY <1>4, <1>5, JobKinds DEF Lists
  <2> QED
    BY <1>1, <1>4, <2>1 DEF ListingInv
<1>6. ASSUME NEW u \in Task, Changes(u)'
      PROVE  ChangeInv(menuJob[u])'
  <2>1. IsChange(menuJob'[u])
    BY <1>4, <1>6, JobKinds DEF Changes
  <2> QED
    BY <1>1, <1>4, <2>1 DEF ChangeInv
<1>7. JobsInv'
  <2>1. ASSUME NEW u \in Task
        PROVE  IsJob(menuJob[u])'
    BY <1>4 DEF IsJob, IsChange, ListingJob
  <2> QED
    BY <1>1, <1>5, <1>6, <2>1 DEF JobsInv
<1>8. RowsInv' /\ CacheShape' /\ CacheInv'
  BY <1>1 DEF MenuInv, RowsInv, CacheShape, CacheInv, EntryInv
<1>9. FreshInv'
  BY <1>1, <1>4 DEF MenuInv, FreshInv, Agrees
<1> QED
  BY <1>7, <1>8, <1>9 DEF MenuInv

(* What the six requests write.                                               *)
LEMMA RequestsKeep ==
    ASSUME MenuInv, NEW t \in Task,
           \/ CreateCategory(t) \/ UpdateCategory(t) \/ DeleteCategory(t)
           \/ CreateItem(t) \/ UpdateItem(t) \/ AttachModifiers(t)
    PROVE  MenuInv'
<1>1. \A i \in DOMAIN Nothing : items[i] = None => Nothing[i] \in Row
  BY DEF Nothing
<1>2. CASE CreateCategory(t)
  BY <1>1, <1>2, SmallChanges, StartChangeKeeps DEF CreateCategory
<1>4. CASE UpdateCategory(t)
  <2>1. PICK c \in Category, status \in {"active", "hidden"} :
          StartChange(t, IF categories[c] = status THEN Nothing ELSE Only(c, status), Nothing, None)
    BY <1>4 DEF UpdateCategory
  <2>2. IsCategoryChange(IF categories[c] = status THEN Nothing ELSE Only(c, status))
    BY SmallChanges
  <2> QED
    BY <1>1, <2>1, <2>2, SmallChanges, StartChangeKeeps
<1>5. CASE DeleteCategory(t)
  <2>1. PICK c \in Category :
          StartChange(t, IF categories[c] = "hidden" THEN Nothing ELSE Only(c, "hidden"), Nothing, c)
    BY <1>5 DEF DeleteCategory
  <2>2. IsCategoryChange(IF categories[c] = "hidden" THEN Nothing ELSE Only(c, "hidden"))
    BY SmallChanges
  <2> QED
    BY <1>1, <2>1, <2>2, SmallChanges, StartChangeKeeps
<1>6. CASE CreateItem(t)
  <2>1. PICK i \in Item, row \in Row : StartChange(t, Nothing, Only(i, row), None)
    BY <1>6 DEF CreateItem, ItemCreate
  <2>2. IsRowChange(Only(i, row))
    BY RowsArePatches, SmallChanges
  <2>3. \A x \in DOMAIN Only(i, row) : Only(i, row)[x] \in Row
    BY DEF Only
  <2> QED
    BY <2>1, <2>2, <2>3, SmallChanges, StartChangeKeeps
<1>7. CASE UpdateItem(t)
  <2>1. PICK i \in Item, row \in ItemUpdate :
          /\ items[i] # None
          /\ \E p \in {Nothing, row} : StartChange(t, Nothing, Only(i, p), None)
    BY <1>7 DEF UpdateItem
  <2>2. PICK p \in {Nothing, row} : StartChange(t, Nothing, Only(i, p), None)
    BY <2>1
  <2>3. IsPatch(row)
    BY SmallPatches DEF ItemUpdate
  <2>4. IsRowChange(Only(i, p))
    BY <2>3, SmallPatches, SmallChanges
  <2>5. \A x \in DOMAIN Only(i, p) : items[x] # None
    BY <2>1 DEF Only
  <2> QED
    BY <2>2, <2>4, <2>5, SmallChanges, StartChangeKeeps
<1>8. CASE AttachModifiers(t)
  <2>1. PICK i \in Item, extras \in ItemModifierLinks :
          items[i] # None /\ StartChange(t, Nothing, Only(i, Only("extras", extras)), None)
    BY <1>8 DEF AttachModifiers
  <2>2. IsRowChange(Only(i, Only("extras", extras)))
    BY SmallPatches, SmallChanges
  <2>3. \A x \in DOMAIN Only(i, Only("extras", extras)) : items[x] # None
    BY <2>1 DEF Only
  <2> QED
    BY <2>1, <2>2, <2>3, SmallChanges, StartChangeKeeps
<1> QED
  BY <1>2, <1>4, <1>5, <1>6, <1>7, <1>8

(* The rows of a change are locked; those of a closed category join them.     *)
LEMMA FlushKeeps ==
    ASSUME MenuInv, NEW t \in Task, Flush(t)
    PROVE  MenuInv'
<1> DEFINE job == menuJob[t]
           rows == Over([i \in Hides(job) |-> Only("available", FALSE)], job.rows)
           j == [job EXCEPT !.at = "invalidate", !.rows = rows]
<1>1. Changes(t) /\ IsChange(job) /\ ChangeInv(job)
  BY Stages DEF Flush, Changes, MenuInv, JobsInv
<1>2. menuJob' = [menuJob EXCEPT ![t] = j] /\ UNCHANGED <<categories, items, redis, memory, faults, now>>
  BY DEF Flush, cacheVars, MenuInv, JobsInv
<1>3. /\ DOMAIN rows \subseteq Item
      /\ \A i \in DOMAIN rows : \/ items[i] # None /\ rows[i] = Only("available", FALSE)
                                \/ i \in DOMAIN job.rows /\ rows[i] = job.rows[i]
  <2>1. \A i \in Hides(job) : i \in Item /\ items[i] # None
    BY DEF Hides
  <2>2. DOMAIN job.rows \subseteq Item
    BY <1>1 DEF IsChange, IsRowChange
  <2> HIDE DEF job
  <2> QED
    BY <2>1, <2>2 DEF Over
<1> HIDE DEF rows
<1>4. IsRowChange(rows) /\ \A i \in DOMAIN rows : items[i] = None => rows[i] \in Row
  BY <1>1, <1>3, SmallPatches DEF IsChange, IsRowChange, ChangeInv
<1>5. /\ j.at = "invalidate" /\ j.rows = rows /\ j.cats = job.cats /\ j.closes = job.closes
      /\ j.spared = job.spared
      /\ j = [at |-> j.at, cats |-> j.cats, rows |-> j.rows, closes |-> j.closes,
              spared |-> j.spared]
  <2> HIDE DEF job
  <2>1. j = [job EXCEPT !.at = "invalidate", !.rows = rows]
    OBVIOUS
  <2> HIDE DEF j
  <2> QED
    BY <1>1, <2>1 DEF IsChange
<1> HIDE DEF j
<1>6. IsChange(j) /\ IsJob(j) /\ ChangeInv(j) /\ j \notin ListingJob
  BY <1>1, <1>4, <1>5 DEF IsChange, IsJob, ChangeInv, ListingJob
<1>7. FreshInv'
  BY <1>2, <1>5, FreshStep
<1>8. CacheShape' /\ CacheInv' /\ faults' \in Nat
  BY <1>2 DEF MenuInv, CacheShape, CacheInv, EntryInv, RowsInv
<1> QED
  BY <1>1, <1>2, <1>6, <1>7, <1>8, JobStep

(* Redis has no listing of categories when a change goes to be committed.     *)
LEMMA InvalidateKeeps ==
    ASSUME MenuInv, NEW t \in Task, Invalidate(t)
    PROVE  MenuInv'
<1> DEFINE job == menuJob[t]
           j == [job EXCEPT !.at = "commit"]
<1>1. Changes(t) /\ IsChange(job) /\ ChangeInv(job)
  BY Stages DEF Invalidate, Changes, MenuInv, JobsInv
<1>2. menuJob' = [menuJob EXCEPT ![t] = j] /\ UNCHANGED <<categories, items>>
  BY DEF Invalidate, MenuInv, JobsInv
<1>3. PICK how \in Outcome : CacheDeletePattern(how)
  BY DEF Invalidate
<1>4. /\ redis' = IF how = "lost" THEN redis ELSE [redis EXCEPT !["menu:categories"] = None]
      /\ Counted(how) /\ UNCHANGED <<memory, now>>
  BY <1>3 DEF CacheDeletePattern
<1>5. /\ j.at = "commit" /\ j.rows = job.rows /\ j.cats = job.cats /\ j.closes = job.closes
      /\ j.spared = job.spared
      /\ j = [at |-> j.at, cats |-> j.cats, rows |-> j.rows, closes |-> j.closes,
              spared |-> j.spared]
  BY <1>1 DEF IsChange
<1> HIDE DEF j
<1>6. IsChange(j) /\ IsJob(j) /\ ChangeInv(j) /\ j \notin ListingJob
  BY <1>1, <1>5 DEF IsChange, IsJob, ChangeInv, ListingJob
<1>7. faults' \in Nat /\ (faults' = 0 => faults = 0 /\ how = "done")
  BY <1>4, CountedStep DEF MenuInv
<1>8. /\ redis' = [k \in Key |-> redis'[k]]
      /\ \A k \in Key : redis'[k] \in {redis[k], None}
      /\ how = "done" => redis'["menu:categories"] = None
  <2>1. "menu:categories" \in Key
    BY DEF Key
  <2>2. CASE redis' = redis /\ how = "lost"
    BY <2>2 DEF MenuInv, CacheShape
  <2>3. CASE redis' = [redis EXCEPT !["menu:categories"] = None]
    BY <2>1, <2>3 DEF MenuInv, CacheShape
  <2> QED
    BY <1>4, <2>2, <2>3
<1>9. CacheShape'
  BY <1>4, <1>8 DEF MenuInv, CacheShape
<1>10. CacheInv'
  <2>1. \A e : EntryInv(e) => EntryInv(e)'
    BY <1>4 DEF EntryInv
  <2>2. ASSUME NEW k \in Listings
        PROVE  EntryInv(redis[k])'
    <3>1. EntryInv(redis'[k])
      BY <1>8 DEF MenuInv, CacheInv, EntryInv, Listings, Key
    <3> QED
      BY <1>4, <3>1 DEF EntryInv
  <2>3. ASSUME NEW p \in Process, NEW k \in Listings
        PROVE  EntryInv(memory[p][k])'
    BY <1>4 DEF MenuInv, CacheInv, EntryInv
  <2> QED
    BY <2>2, <2>3 DEF CacheInv
<1>11. FreshInv'
  BY <1>7, <1>8 DEF FreshInv
<1> QED
  BY <1>1, <1>2, <1>4, <1>6, <1>7, <1>9, <1>10, <1>11, JobStep

(* What is committed are rows, and none that was there is gone.               *)
LEMMA MergedRows ==
    ASSUME RowsInv, NEW job, IsChange(job), ChangeInv(job)
    PROVE  /\ Merged(job) \in [Item -> Row \cup {None}]
           /\ \A i \in Item : items[i] # None => Merged(job)[i] # None
<1>1. ASSUME NEW i \in Item
      PROVE  /\ Merged(job)[i] \in Row \cup {None}
             /\ items[i] # None => Merged(job)[i] \in Row
  <2>1. items[i] \in Row \cup {None}
    BY DEF RowsInv
  <2>2. CASE i \notin DOMAIN job.rows
    BY <2>1, <2>2 DEF Merged
  <2>3. CASE i \in DOMAIN job.rows /\ items[i] = None
    BY <2>3 DEF Merged, ChangeInv
  <2>4. CASE i \in DOMAIN job.rows /\ items[i] # None
    <3> DEFINE row == Over(job.rows[i], items[i])
    <3>1. row \in Row
      BY <2>1, <2>4, PatchedRow DEF IsChange, IsRowChange
    <3>2. Merged(job)[i] \in {row, [row EXCEPT !.extras = @ \cup job.spared]}
      BY <2>4 DEF Merged
    <3>3. job.spared \in SUBSET Extra
      BY DEF IsChange
    <3> HIDE DEF row
    <3>4. [row EXCEPT !.extras = @ \cup job.spared] \in Row
      BY <3>1, <3>3 DEF Row, ItemModifierLinks
    <3> QED
      BY <3>1, <3>2, <3>4
  <2> QED
    BY <2>2, <2>3, <2>4
<1>2. Merged(job) = [i \in Item |-> Merged(job)[i]]
  BY DEF Merged
<1> QED
  BY <1>1, <1>2, MenuAssumption

(* The categories as a change leaves them.                                    *)
LEMMA MergedCategories ==
    ASSUME RowsInv, NEW cats, IsCategoryChange(cats)
    PROVE  Over(cats, categories) \in [Category -> MenuCategory]
BY DEF RowsInv, IsCategoryChange, Over, MenuCategory

(* An entry that a commit marks as outdated ends soon.                        *)
LEMMA AgedEntries ==
    ASSUME RowsInv, NEW cache, NEW cats, NEW rows,
           \A k \in Listings : EntryInv(cache[k])
    PROVE  /\ \A k \in Listings : EntryInv(AgedCache(cache, cats, rows)[k])
           /\ \A k \in Key : k \notin Listings => AgedCache(cache, cats, rows)[k] = cache[k]
           /\ \A k \in Listings : AgedCache(cache, cats, rows)[k] # None =>
                /\ cache[k] # None
                /\ AgedCache(cache, cats, rows)[k].value.raced = cache[k].value.raced
           /\ AgedCache(cache, cats, rows) = [k \in Key |-> AgedCache(cache, cats, rows)[k]]
<1>1. ASSUME NEW k \in Listings
      PROVE  /\ EntryInv(AgedCache(cache, cats, rows)[k])
             /\ AgedCache(cache, cats, rows)[k] # None =>
                  /\ cache[k] # None
                  /\ AgedCache(cache, cats, rows)[k].value.raced = cache[k].value.raced
  <2> DEFINE aged == AgedCache(cache, cats, rows)[k]
             copy == Aged(cache[k].value, cats, rows)
  <2>1. aged = IF cache[k] # None THEN [cache[k] EXCEPT !.value = copy] ELSE None
    BY DEF AgedCache, Listings, Key
  <2>2. CASE cache[k] = None
    BY <2>1, <2>2 DEF EntryInv
  <2>3. CASE cache[k] # None
    <3>1. /\ cache[k] \in Entry /\ cache[k].until <= now + MenuTTL
          /\ cache[k].value.old # None => cache[k].until <= cache[k].value.old + MenuTTL + 1
      BY <2>3 DEF EntryInv
    <3>2. cache[k].value \in Copy /\ cache[k].until \in Nat
      BY <3>1 DEF Entry
    <3>3. /\ copy \in Copy /\ copy.raced = cache[k].value.raced
          /\ copy.old = cache[k].value.old \/ copy.old = now
      BY <3>2, AgedCopy DEF RowsInv
    <3> HIDE DEF copy
    <3>4. aged \in Entry /\ aged.until = cache[k].until /\ aged.value = copy
      BY <2>1, <2>3, <3>1, <3>3 DEF Entry
    <3>5. now \in Nat /\ MenuTTL \in Nat
      BY CacheAssumption DEF RowsInv
    <3>6. now + MenuTTL <= now + MenuTTL + 1
      BY <3>5
    <3>7. copy.old # None => cache[k].until <= copy.old + MenuTTL + 1
      BY <3>1, <3>2, <3>3, <3>5
    <3> HIDE DEF aged
    <3>8. EntryInv(aged)
      BY <3>1, <3>4, <3>7 DEF EntryInv
    <3> QED
      BY <2>3, <3>3, <3>4, <3>8 DEF aged
  <2> QED
    BY <2>2, <2>3
<1>2. \A k \in Key : k \notin Listings => AgedCache(cache, cats, rows)[k] = cache[k]
  BY DEF AgedCache
<1>3. AgedCache(cache, cats, rows) = [k \in Key |-> AgedCache(cache, cats, rows)[k]]
  BY DEF AgedCache
<1> QED
  BY <1>1, <1>2, <1>3

(* A change is committed: the listings under way and in the cache are known   *)
(* to be of another menu, and other requests may spare its links.             *)
LEMMA CommitKeeps ==
    ASSUME MenuInv, NEW t \in Task, Commit(t)
    PROVE  MenuInv'
<1> DEFINE job == menuJob[t]
           cats == Over(job.cats, categories)
           rows == Merged(job)
<1>1. Changes(t) /\ IsChange(job) /\ ChangeInv(job) /\ job.at = "commit"
  BY Stages DEF Commit, Changes, MenuInv, JobsInv
<1>2. PICK waits \in BOOLEAN : menuJob' = Told(t, waits, cats, rows)
  BY DEF Commit
<1>3. /\ categories' = cats /\ items' = rows
      /\ redis' = AgedCache(redis, cats, rows)
      /\ memory' = [p \in Process |-> AgedCache(memory[p], cats, rows)]
      /\ UNCHANGED <<faults, now>>
  BY DEF Commit
<1>4. /\ rows \in [Item -> Row \cup {None}]
      /\ \A i \in Item : items[i] # None => rows[i] # None
      /\ cats \in [Category -> MenuCategory]
  BY <1>1, MergedRows, MergedCategories DEF MenuInv, IsChange
<1>5. ASSUME NEW u \in Task
      PROVE  menuJob'[u] =
               IF u = t THEN Away
               ELSE IF Lists(u) THEN [menuJob[u] EXCEPT !.copy = Aged(@, cats, rows)]
               ELSE IF Changes(u) /\ Spared(t, u, waits)
                      THEN [menuJob[u] EXCEPT !.spared = @ \cup UNION {rows[i].extras : i \in {j \in Item : Attaches(t, j)}}]
               ELSE menuJob[u]
  BY <1>2 DEF Told
<1>6. menuJob' = [u \in Task |-> menuJob'[u]]
  BY <1>2 DEF Told
<1>7. UNION {rows[i].extras : i \in {j \in Item : Attaches(t, j)}} \in SUBSET Extra
  <2>1. ASSUME NEW i \in Item, Attaches(t, i)
        PROVE  rows[i].extras \in SUBSET Extra
    <3>1. rows[i] \in Row
      BY <1>4, <2>1 DEF Attaches
    <3> QED
      BY <3>1 DEF Row, ItemModifierLinks
  <2> HIDE DEF rows
  <2> QED
    BY <2>1
<1> HIDE DEF rows, cats, job
<1>8. /\ CacheShape'
      /\ \A k \in Listings : EntryInv(redis'[k])
      /\ \A p \in Process, k \in Listings : EntryInv(memory'[p][k])
      /\ redis'["menu:categories"] # None =>
           /\ redis["menu:categories"] # None
           /\ redis'["menu:categories"].value.raced = redis["menu:categories"].value.raced
  <2>1. "menu:categories" \in Listings
    BY DEF Listings
  <2>2. redis' = [k \in Key |-> redis'[k]] /\ \A k \in Listings : EntryInv(redis'[k])
    BY <1>3, AgedEntries DEF MenuInv, CacheInv
  <2>3. ASSUME NEW p \in Process
        PROVE  /\ memory'[p] = [k \in Key |-> memory'[p][k]]
               /\ \A k \in Listings : EntryInv(memory'[p][k])
    <3>1. memory'[p] = AgedCache(memory[p], cats, rows)
      BY <1>3
    <3>2. \A k \in Listings : EntryInv(memory[p][k])
      BY DEF MenuInv, CacheInv
    <3> QED
      BY <3>1, <3>2, AgedEntries DEF MenuInv
  <2>4. memory' = [p \in Process |-> memory'[p]]
    BY <1>3
  <2>5. memory' = [p \in Process |-> [k \in Key |-> memory'[p][k]]]
    BY <2>3, <2>4
  <2>6. CacheShape'
    BY <2>2, <2>5 DEF CacheShape
  <2>7. redis'["menu:categories"] # None =>
           /\ redis["menu:categories"] # None
           /\ redis'["menu:categories"].value.raced = redis["menu:categories"].value.raced
    BY <1>3, <2>1, AgedEntries DEF MenuInv, CacheInv
  <2> QED
    BY <2>2, <2>3, <2>6, <2>7
<1>9. ASSUME NEW u \in Task
      PROVE  /\ IsJob(menuJob'[u])
             /\ menuJob'[u] \in ListingJob => ListingInv(menuJob[u])'
             /\ IsChange(menuJob'[u]) => ChangeInv(menuJob[u])'
  <2>1. CASE u = t
    <3>1. IsJob(Away) /\ Away \notin ListingJob /\ ~ IsChange(Away)
      BY DEF IsJob, IsChange, ListingJob, Away
    <3>2. menuJob'[u] = Away
      BY <1>5, <2>1
    <3> QED
      BY <3>1, <3>2
  <2>2. CASE u # t /\ Lists(u)
    <3> DEFINE copy == Aged(menuJob[u].copy, cats, rows)
    <3>1. menuJob[u] \in ListingJob /\ ListingInv(menuJob[u]) /\ menuJob[u].copy \in Copy
      BY <2>2, Stages DEF MenuInv, JobsInv, ListingJob
    <3>2. /\ copy \in Copy
          /\ copy.old = menuJob[u].copy.old \/ copy.old = now
          /\ copy.cats = menuJob[u].copy.cats /\ copy.rows = menuJob[u].copy.rows
          /\ copy.extras = menuJob[u].copy.extras /\ copy.raced = menuJob[u].copy.raced
      BY <3>1, AgedCopy DEF MenuInv, RowsInv
    <3>3. menuJob'[u] = [menuJob[u] EXCEPT !.copy = copy]
      BY <1>5, <2>2
    <3> HIDE DEF copy
    <3>4. /\ menuJob'[u] \in ListingJob /\ menuJob'[u].at = menuJob[u].at
          /\ menuJob'[u].began = menuJob[u].began /\ menuJob'[u].copy = copy
      BY <3>1, <3>2, <3>3 DEF ListingJob
    <3>5. IsJob(menuJob'[u]) /\ ~ IsChange(menuJob'[u])
      BY <3>4, JobKinds DEF IsJob
    <3>6. menuJob[u].at # "answer" => menuJob[u].copy.raced
      BY <1>1, <3>1 DEF ListingInv, Quiet
    <3>7. menuJob[u].began \in Nat /\ now \in Nat /\ MenuTTL \in Nat
      BY <3>1, CacheAssumption DEF ListingJob, MenuInv, RowsInv
    <3>8. /\ menuJob[u].began <= now /\ now <= menuJob[u].began + 1
          /\ copy.old # None => menuJob[u].began - copy.old <= MenuTTL + 1
          /\ menuJob[u].at # "answer" /\ copy.old # None => menuJob[u].began <= copy.old
      BY <3>1, <3>2, <3>7 DEF ListingInv
    <3>9. menuJob[u].at # "answer" =>
            /\ menuJob[u].at = "categories" => copy.cats = None
            /\ menuJob[u].at # "categories" => copy.cats \in SUBSET Category
            /\ menuJob[u].at \in {"categories", "items"} => copy.rows = None
            /\ menuJob[u].at \in {"categories", "items", "extras"} => copy.extras = None
            /\ menuJob[u].at = "extras" =>
                /\ copy.rows \in SUBSET (Item \X Category \X Price)
                /\ \A r \in copy.rows : rows[r[1]] # None
            /\ copy.raced
      <4>1. \A r \in Item \X Category \X Price : items[r[1]] # None => rows[r[1]] # None
        BY <1>4
      <4> QED
        BY <3>1, <3>2, <3>6, <4>1 DEF ListingInv
    <3>10. ListingInv(menuJob[u])'
      BY <1>3, <3>4, <3>8, <3>9 DEF ListingInv
    <3> QED
      BY <3>5, <3>10
  <2>3. CASE u # t /\ ~ Lists(u) /\ Changes(u) /\ Spared(t, u, waits)
    <3> DEFINE spared == menuJob[u].spared \cup UNION {rows[i].extras : i \in {j \in Item : Attaches(t, j)}}
    <3>1. IsChange(menuJob[u]) /\ ChangeInv(menuJob[u])
      BY <2>3, Stages DEF MenuInv, JobsInv
    <3>2. spared \in SUBSET Extra
      BY <1>7, <3>1 DEF IsChange
    <3>3. menuJob'[u] = [menuJob[u] EXCEPT !.spared = spared]
      BY <1>5, <2>3, <3>1 DEF IsChange
    <3> HIDE DEF spared
    <3>4. /\ menuJob'[u].at = menuJob[u].at /\ menuJob'[u].cats = menuJob[u].cats
          /\ menuJob'[u].rows = menuJob[u].rows /\ menuJob'[u].closes = menuJob[u].closes
          /\ menuJob'[u].spared = spared
          /\ menuJob'[u] = [at |-> menuJob'[u].at, cats |-> menuJob'[u].cats,
                            rows |-> menuJob'[u].rows, closes |-> menuJob'[u].closes,
                            spared |-> menuJob'[u].spared]
      BY <3>1, <3>3 DEF IsChange
    <3>5. IsChange(menuJob'[u])
      BY <3>1, <3>2, <3>4 DEF IsChange
    <3>6. IsJob(menuJob'[u]) /\ menuJob'[u] \notin ListingJob
      BY <3>5, JobKinds DEF IsJob
    <3>7. ChangeInv(menuJob[u])'
      BY <1>3, <1>4, <3>1, <3>4 DEF ChangeInv, IsChange, IsRowChange
    <3> QED
      BY <3>5, <3>6, <3>7
  <2>4. CASE u # t /\ ~ Lists(u) /\ ~ (Changes(u) /\ Spared(t, u, waits))
    <3>1. menuJob'[u] = menuJob[u]
      BY <1>5, <2>4
    <3>2. IsJob(menuJob[u]) /\ menuJob[u] \notin ListingJob
      BY <2>4, Stages DEF MenuInv, JobsInv
    <3>3. IsChange(menuJob[u]) => ChangeInv(menuJob[u])
      BY <3>2, Stages DEF MenuInv, JobsInv
    <3>4. IsChange(menuJob[u]) => ChangeInv(menuJob[u])'
      BY <1>3, <1>4, <3>1, <3>3 DEF ChangeInv, IsChange, IsRowChange
    <3> QED
      BY <3>1, <3>2, <3>4
  <2> QED
    BY <2>1, <2>2, <2>3, <2>4
<1>10. JobsInv'
  <2>1. ASSUME NEW u \in Task
        PROVE  IsJob(menuJob[u])'
    BY <1>9 DEF IsJob, IsChange, ListingJob
  <2>2. ASSUME NEW u \in Task, Lists(u)'
        PROVE  ListingInv(menuJob[u])'
    BY <1>9, <2>2, JobKinds DEF Lists
  <2>3. ASSUME NEW u \in Task, Changes(u)'
        PROVE  ChangeInv(menuJob[u])'
    BY <1>9, <2>3, JobKinds DEF Changes
  <2> QED
    BY <1>6, <2>1, <2>2, <2>3 DEF JobsInv
<1>11. RowsInv'
  BY <1>3, <1>4 DEF MenuInv, RowsInv
<1>12. CacheInv'
  BY <1>3, <1>8 DEF CacheInv, EntryInv
<1>13. FreshInv'
  <2>1. faults = 0 /\ redis["menu:categories"] # None => redis["menu:categories"].value.raced
    BY <1>1 DEF MenuInv, FreshInv, job
  <2> QED
    BY <1>3, <1>8, <2>1 DEF FreshInv
<1> QED
  BY <1>8, <1>10, <1>11, <1>12, <1>13 DEF MenuInv

(* Time passes.                                                               *)
LEMMA MenuTickKeeps ==
    ASSUME MenuInv, MenuTick
    PROVE  MenuInv'
<1>1. /\ now < MaxTime /\ now' = now + 1 /\ now \in Nat /\ MaxTime \in Nat /\ MenuTTL \in Nat
      /\ UNCHANGED <<categories, items, menuJob, faults>>
      /\ \A t \in Task : Lists(t) => menuJob[t].began = now
  BY CacheAssumption DEF MenuTick, Elapse, menuVars, MenuInv, RowsInv
<1>2. /\ redis' = [k \in Key |-> IF redis[k] # None /\ now + 1 < redis[k].until THEN redis[k] ELSE None]
      /\ memory' = [p \in Process |->
                     [k \in Key |-> IF memory[p][k] # None /\ now + 1 <= memory[p][k].until
                                      THEN memory[p][k] ELSE None]]
  BY DEF MenuTick, Elapse
<1>3. /\ \A k \in Key : redis'[k] \in {redis[k], None}
      /\ \A p \in Process, k \in Key : memory'[p][k] \in {memory[p][k], None}
      /\ CacheShape'
  BY <1>2 DEF CacheShape
<1>4. \A k \in Listings : k \in Key
  BY DEF Listings, Key
<1>5. ASSUME NEW e, EntryInv(e), NEW e2 \in {e, None}
      PROVE  /\ e2 # None =>
                  /\ e2 \in Entry
                  /\ e2.until <= now' + MenuTTL
                  /\ e2.value.old # None => e2.until <= e2.value.old + MenuTTL + 1
  <2>1. SUFFICES ASSUME e2 # None
                 PROVE  e2.until <= now' + MenuTTL
    BY <1>5 DEF EntryInv
  <2>2. e2 = e /\ e.until \in Nat /\ e.until <= now + MenuTTL
    BY <1>5, <2>1 DEF EntryInv, Entry
  <2> QED
    BY <1>1, <2>2
<1>6. CacheInv'
  <2>1. ASSUME NEW k \in Listings
        PROVE  EntryInv(redis[k])'
    BY <1>3, <1>4, <1>5 DEF MenuInv, CacheInv, EntryInv
  <2>2. ASSUME NEW p \in Process, NEW k \in Listings
        PROVE  EntryInv(memory[p][k])'
    BY <1>3, <1>4, <1>5 DEF MenuInv, CacheInv, EntryInv
  <2> QED
    BY <2>1, <2>2 DEF CacheInv
<1>7. JobsInv'
  <2>1. ASSUME NEW t \in Task, Lists(t)'
        PROVE  ListingInv(menuJob[t])'
    <3>1. Lists(t) /\ ListingInv(menuJob[t])
      BY <1>1, <2>1 DEF Lists, MenuInv, JobsInv
    <3>2. menuJob[t].began <= now' /\ now' <= menuJob[t].began + 1
      BY <1>1, <3>1
    <3>3. Quiet => Quiet'
      BY <1>1 DEF Quiet, Changes
    <3> QED
      BY <1>1, <3>1, <3>2, <3>3 DEF ListingInv
  <2>2. ASSUME NEW t \in Task
        PROVE  IsJob(menuJob[t])' /\ (Changes(t)' => ChangeInv(menuJob[t])')
    BY <1>1 DEF MenuInv, JobsInv, IsJob, IsChange, ListingJob, Changes, ChangeInv
  <2> QED
    BY <1>1, <2>1, <2>2 DEF MenuInv, JobsInv
<1>8. RowsInv'
  BY <1>1 DEF MenuInv, RowsInv
<1>9. FreshInv'
  BY <1>1, <1>3 DEF MenuInv, FreshInv, Key
<1> QED
  BY <1>3, <1>6, <1>7, <1>8, <1>9 DEF MenuInv

--------------------------------------------------------------------------------
(* What requests do to the lines of a cart                                    *)

Ask == [item : Item, options : {Selected(named) : named \in Named},
        quantity : Quantity, price : Price]

Fits(lines, room) == lines \in Seq(Line) /\ Sound(lines, room)

(* How many of a set of numbers are not after one of them.                    *)
Rank(S, n) == Cardinality({m \in S : m <= n})

(* The places of a finite set of numbers, in their order, are 1, 2 and so on. *)
LEMMA Places ==
    ASSUME NEW S \in SUBSET Nat, IsFiniteSet(S)
    PROVE  /\ Cardinality(S) \in Nat
           /\ \A n \in S : Rank(S, n) \in 1..Cardinality(S)
           /\ \A m, n \in S : m < n => Rank(S, m) < Rank(S, n)
           /\ \A k \in 1..Cardinality(S) : \E n \in S : Rank(S, n) = k
<1> DEFINE Below(n) == {m \in S : m <= n}
<1>1. ASSUME NEW n \in S
      PROVE  /\ IsFiniteSet(Below(n)) /\ Cardinality(Below(n)) \in Nat
             /\ Cardinality(Below(n)) <= Cardinality(S) /\ Cardinality(Below(n)) # 0
  <2>1. Below(n) \in SUBSET S /\ n \in Below(n)
    OBVIOUS
  <2> HIDE DEF Below
  <2>2. IsFiniteSet(Below(n)) /\ Cardinality(Below(n)) <= Cardinality(S)
    BY <2>1, FS_Subset
  <2>3. Cardinality(Below(n)) # 0
    BY <2>1, <2>2, FS_EmptySet
  <2> QED
    BY <2>2, <2>3, FS_CardinalityType
<1>2. ASSUME NEW m \in S, NEW n \in S, m < n
      PROVE  Cardinality(Below(m)) < Cardinality(Below(n))
  <2>1. Below(m) \cup {n} \in SUBSET Below(n) /\ n \notin Below(m)
    <3>1. \A x \in S : x <= m => x <= n
      BY <1>2
    <3>2. n <= n /\ ~ (n <= m)
      BY <1>2
    <3> QED
      BY <3>1, <3>2
  <2> HIDE DEF Below
  <2>2. Cardinality(Below(m) \cup {n}) = Cardinality(Below(m)) + 1
    BY <1>1, <2>1, FS_AddElement
  <2>3. Cardinality(Below(m) \cup {n}) <= Cardinality(Below(n))
    BY <1>1, <2>1, FS_Subset
  <2> QED
    BY <1>1, <2>2, <2>3
<1>3. \A n \in S : Rank(S, n) = Cardinality(Below(n))
  BY DEF Rank
<1> HIDE DEF Below
<1>4. Cardinality(S) \in Nat
  BY FS_CardinalityType
<1>5. \A n \in S : Rank(S, n) \in 1..Cardinality(S)
  BY <1>1, <1>3, <1>4
<1>6. \A m, n \in S : m < n => Rank(S, m) < Rank(S, n)
  BY <1>2, <1>3
<1>7. \A k \in 1..Cardinality(S) : \E n \in S : Rank(S, n) = k
  <2> DEFINE T == 1..Cardinality(S)
  <2>1. IsFiniteSet(T) /\ Cardinality(T) = Cardinality(S)
    <3>1. IsFiniteSet(T) /\ Cardinality(T) = IF 1 > Cardinality(S) THEN 0 ELSE Cardinality(S) - 1 + 1
      BY <1>4, FS_Interval
    <3> QED
      BY <1>4, <3>1
  <2>2. \A m, n \in S : Rank(S, m) = Rank(S, n) => m = n
    <3>1. \A m, n \in S : m < n \/ n < m \/ m = n
      OBVIOUS
    <3>2. \A n \in S : Rank(S, n) \in Int
      BY <1>5
    <3> QED
      BY <1>6, <3>1, <3>2
  <2>3. PICK R \in [S -> T] : \A n \in S : R[n] = Rank(S, n)
    <3>1. [n \in S |-> Rank(S, n)] \in [S -> T]
      BY <1>5
    <3> QED
      BY <3>1
  <2> HIDE DEF T
  <2>4. R \in Injection(S, T)
    BY <2>2, <2>3 DEF Injection, IsInjective
  <2>5. R \in Surjection(S, T)
    BY <2>1, <2>4, FS_Injection
  <2>6. \A k \in T : \E n \in S : R[n] = k
    BY <2>5 DEF Surjection
  <2> QED
    BY <2>3, <2>6 DEF T
<1> QED
  BY <1>4, <1>5, <1>6, <1>7

(* A set of lines has a first one.                                            *)
LEMMA FirstIsOne ==
    ASSUME NEW lines \in Seq(Line), NEW S \in SUBSET (DOMAIN lines), S # {}
    PROVE  First(S) \in S
<1>1. Len(lines) \in Nat /\ DOMAIN lines = 1..Len(lines)
  BY LenProperties
<1>2. S \in SUBSET Nat /\ IsFiniteSet(S)
  <2>1. IsFiniteSet(1..Len(lines))
    BY <1>1, FS_Interval
  <2>2. S \in SUBSET (1..Len(lines))
    BY <1>1
  <2>3. IsFiniteSet(S)
    BY <2>1, <2>2, FS_Subset
  <2>4. S \in SUBSET Nat
    BY <1>1, <2>2
  <2> QED
    BY <2>3, <2>4
<1>3. S \in SUBSET Nat /\ IsFiniteSet(S)
  BY <1>2
<1>4. Cardinality(S) \in Nat /\ Cardinality(S) # 0
  BY <1>2, FS_CardinalityType, FS_EmptySet
<1>5. \A k \in 1..Cardinality(S) : \E n \in S : Rank(S, n) = k
  BY <1>3, Places
<1>6. PICK n \in S : Rank(S, n) = 1
  <2>1. 1 \in 1..Cardinality(S)
    BY <1>4
  <2> QED
    BY <1>5, <2>1
<1>7. \A m \in S : n <= m
  <2> SUFFICES ASSUME NEW m \in S, m < n
               PROVE  FALSE
    BY <1>2
  <2>1. Rank(S, m) \in 1..Cardinality(S) /\ Rank(S, m) < Rank(S, n)
    BY <1>3, Places
  <2> QED
    BY <1>4, <1>6, <2>1
<1> QED
  BY <1>7 DEF First

(* What is right for little is right for more.                                *)
LEMMA MoreRoom ==
    ASSUME NEW lines, NEW room \in Nat, NEW more \in Nat, room <= more, Fits(lines, room)
    PROVE  Fits(lines, more)
<1>1. \A n \in DOMAIN lines : lines[n].quantity \in Nat
  <2>1. \A n \in 1..Len(lines) : lines[n] \in Line
    BY ElementOfSeq DEF Fits
  <2>2. DOMAIN lines = 1..Len(lines)
    BY LenProperties DEF Fits
  <2> QED
    BY <2>1, <2>2, CartAssumption DEF Line
<1> QED
  BY <1>1 DEF Fits, Sound

(* An empty cart has room for everything.                                     *)
LEMMA NoLines ==
    ASSUME NEW room
    PROVE  Fits(<<>>, room)
BY EmptySeq DEF Fits, Sound

(* The lines of a cart, and what fits.                                        *)
LEMMA LinesOf ==
    ASSUME NEW lines, NEW room, Fits(lines, room)
    PROVE  /\ Len(lines) \in Nat /\ DOMAIN lines = 1..Len(lines)
           /\ lines \in [1..Len(lines) -> Line]
           /\ \A n \in 1..Len(lines) :
                /\ lines[n] \in Line /\ lines[n].quantity \in Nat /\ lines[n].quantity # 0
                /\ lines[n].quantity <= room
                /\ \A m \in 1..Len(lines) : m # n => ~ Same(lines[m], lines[n])
<1>1. /\ Len(lines) \in Nat /\ DOMAIN lines = 1..Len(lines)
      /\ lines \in [1..Len(lines) -> Line]
  BY LenProperties DEF Fits
<1>2. \A n \in 1..Len(lines) :
        lines[n] \in Line /\ lines[n].quantity \in Nat /\ lines[n].quantity # 0
  BY <1>1, CartAssumption DEF Line
<1>3. \A n \in 1..Len(lines) :
        /\ lines[n].quantity <= room
        /\ \A m \in 1..Len(lines) : m # n => ~ Same(lines[m], lines[n])
  BY <1>1 DEF Fits, Sound
<1> QED
  BY <1>1, <1>2, <1>3

(* Another quantity on one line.                                              *)
LEMMA QuantitySet ==
    ASSUME NEW lines, NEW room, Fits(lines, room), NEW f \in 1..Len(lines),
           NEW q \in 1..MaxAsked, NEW more \in Nat, room \in Nat, room <= more, q <= more
    PROVE  Fits([lines EXCEPT ![f].quantity = q], more)
<1> DEFINE l == [lines[f] EXCEPT !.quantity = q]
           new == [lines EXCEPT ![f] = l]
<1>1. lines[f] \in Line
  BY LinesOf
<1>2. l \in Line /\ l.quantity = q /\ l.item = lines[f].item /\ l.options = lines[f].options
  BY <1>1 DEF Line
<1> HIDE DEF l
<1>3. /\ new \in Seq(Line) /\ Len(new) = Len(lines)
      /\ \A j \in 1..Len(lines) : new[j] = IF j = f THEN l ELSE lines[j]
  BY <1>2, ExceptSeq DEF Fits
<1>4. DOMAIN new = 1..Len(lines)
  BY <1>3, LenProperties
<1> HIDE DEF new
<1>5. ASSUME NEW n \in 1..Len(lines)
      PROVE  /\ new[n].quantity <= more
             /\ new[n].item = lines[n].item /\ new[n].options = lines[n].options
  <2>1. lines[n].quantity \in Nat /\ lines[n].quantity <= room
    BY LinesOf
  <2>2. lines[n].quantity <= more /\ q <= more
    BY <2>1
  <2> QED
    BY <1>2, <1>3, <2>2
<1>6. \A m, n \in 1..Len(lines) : m # n => ~ Same(new[m], new[n])
  <2>1. \A m, n \in 1..Len(lines) : m # n => ~ Same(lines[m], lines[n])
    BY LinesOf
  <2> QED
    BY <1>5, <2>1 DEF Same
<1>7. Fits(new, more)
  BY <1>3, <1>4, <1>5, <1>6 DEF Fits, Sound
<1> QED
  BY <1>7 DEF new, l

(* A line joins the one for the same, or is the only one for it.              *)
LEMMA AddFits ==
    ASSUME NEW lines, NEW room \in Nat, Fits(lines, room),
           NEW line \in Ask, room + line.quantity <= MaxAsked
    PROVE  Fits(AddItem(lines, line), room + line.quantity)
<1> DEFINE there == {n \in DOMAIN lines : Same(lines[n], line)}
           q == line.quantity
<1>1. q \in Nat \ {0} /\ MaxAsked \in Nat
  BY CartAssumption DEF Ask
<1>2. AddItem(lines, line) = IF there = {} THEN Append(lines, line)
                             ELSE [lines EXCEPT ![First(there)].quantity = @ + q]
  BY DEF AddItem
<1>3. there \in SUBSET (DOMAIN lines) /\ DOMAIN lines = 1..Len(lines) /\ Len(lines) \in Nat
  BY LinesOf
<1>4. CASE there = {}
  <2> DEFINE new == Append(lines, line)
  <2>1. line \in Line /\ q <= room + q
    <3>1. q \in 1..MaxAsked /\ q <= room + q
      BY <1>1
    <3> QED
      BY <3>1 DEF Ask, Line
  <2>2. /\ new \in Seq(Line) /\ Len(new) = Len(lines) + 1
        /\ \A i \in 1..Len(lines) : new[i] = lines[i]
        /\ new[Len(lines) + 1] = line
    BY <2>1, AppendProperties DEF Fits
  <2>3. DOMAIN new = 1..Len(lines) + 1
    BY <2>2, LenProperties
  <2> HIDE DEF new
  <2>4. \A n \in 1..Len(lines) : new[n].quantity <= room + q
    <3>1. \A n \in 1..Len(lines) : lines[n].quantity \in Nat /\ lines[n].quantity <= room
      BY LinesOf
    <3>2. \A n \in 1..Len(lines) : lines[n].quantity <= room + q
      BY <1>1, <3>1
    <3> QED
      BY <2>2, <3>2
  <2>5. \A n \in 1..Len(lines) : ~ Same(lines[n], line) /\ ~ Same(line, lines[n])
    BY <1>3, <1>4 DEF Same
  <2>6. \A m, n \in 1..Len(lines) : m # n => ~ Same(lines[m], lines[n])
    BY LinesOf
  <2>7. \A n \in 1..Len(lines) + 1 : n \in 1..Len(lines) \/ n = Len(lines) + 1
    BY <1>3
  <2>8. \A m, n \in 1..Len(lines) + 1 : m # n => ~ Same(new[m], new[n])
    BY <2>2, <2>5, <2>6, <2>7
  <2>9. \A n \in 1..Len(lines) + 1 : new[n].quantity <= room + q
    BY <2>1, <2>2, <2>4, <2>7
  <2>10. Fits(new, room + q)
    BY <2>2, <2>3, <2>8, <2>9 DEF Fits, Sound
  <2> QED
    BY <1>2, <1>4, <2>10 DEF new
<1>5. CASE there # {}
  <2>1. PICK f \in 1..Len(lines) : f = First(there)
    BY <1>3, <1>5, FirstIsOne DEF Fits
  <2>2. lines[f].quantity \in Nat \ {0} /\ lines[f].quantity <= room
    BY LinesOf
  <2>3. /\ lines[f].quantity + q \in 1..MaxAsked /\ lines[f].quantity + q <= room + q
        /\ room + q \in Nat /\ room <= room + q
    BY <1>1, <2>2
  <2>4. Fits([lines EXCEPT ![f].quantity = lines[f].quantity + q], room + q)
    BY <2>3, QuantitySet
  <2>5. f \in DOMAIN lines
    BY <1>3
  <2>6. AddItem(lines, line) = [lines EXCEPT ![f].quantity = lines[f].quantity + q]
    BY <1>2, <1>5, <2>1, <2>5
  <2> QED
    BY <2>4, <2>6
<1> QED
  BY <1>4, <1>5

(* A choice of the lines in their order.                                      *)
LEMMA SomeLines ==
    ASSUME NEW lines, NEW room, Fits(lines, room), NEW size \in Nat,
           NEW at \in [1..size -> 1..Len(lines)],
           \A m, n \in 1..size : m # n => at[m] # at[n],
           NEW some, some = [n \in 1..size |-> lines[at[n]]]
    PROVE  Fits(some, room)
<1>1. some \in [1..size -> Line]
  BY LinesOf
<1>2. some \in Seq(Line) /\ DOMAIN some = 1..size
  BY <1>1
<1>3. ASSUME NEW n \in 1..size
      PROVE  /\ some[n].quantity <= room
             /\ \A m \in 1..size : m # n => ~ Same(some[m], some[n])
  BY <1>3, LinesOf
<1> QED
  BY <1>2, <1>3 DEF Fits, Sound

(* One line less, or another quantity on it.                                  *)
LEMMA UpdateFits ==
    ASSUME NEW lines, NEW room \in Nat, Fits(lines, room),
           NEW item, NEW q \in Quantity \cup {0}, room + q <= MaxAsked
    PROVE  Fits(UpdateItemIn(lines, item, q), room + q)
<1> DEFINE there == {n \in DOMAIN lines : lines[n].item = item}
           f == First(there)
           len == Len(lines)
<1>1. /\ q \in Nat /\ room + q \in Nat /\ room <= room + q /\ q <= room + q
      /\ q # 0 => q \in 1..MaxAsked
  BY CartAssumption
<1>2. UpdateItemIn(lines, item, q) = IF there = {} THEN lines
                                     ELSE IF q = 0 THEN RemoveAt(lines, f)
                                     ELSE [lines EXCEPT ![f].quantity = q]
  BY DEF UpdateItemIn
<1>3. there \in SUBSET (DOMAIN lines) /\ DOMAIN lines = 1..len /\ len \in Nat
  BY LinesOf
<1>4. CASE there = {}
  BY <1>1, <1>2, <1>4, MoreRoom
<1>5. ASSUME there # {}
      PROVE  f \in 1..len
  BY <1>3, <1>5, FirstIsOne DEF Fits
<1>6. CASE there # {} /\ q # 0
  <2> HIDE DEF f
  <2>1. Fits([lines EXCEPT ![f].quantity = q], room + q)
    BY <1>1, <1>5, <1>6, QuantitySet
  <2> QED
    BY <1>2, <1>6, <2>1
<1>7. CASE there # {} /\ q = 0
  <2> HIDE DEF f
  <2>1. f \in 1..len /\ f \in Int
    BY <1>3, <1>5, <1>7
  <2> DEFINE left == SubSeq(lines, 1, f - 1)
             right == SubSeq(lines, f + 1, len)
             at == [n \in 1..len - 1 |-> IF n < f THEN n ELSE n + 1]
             some == [n \in 1..len - 1 |-> lines[at[n]]]
  <2>2. lines \in Seq(Line) /\ \A i \in 1..len : lines[i] \in Line
    BY LinesOf DEF Fits
  <2>3. /\ left \in Seq(Line) /\ Len(left) = f - 1
        /\ \A i \in 1..f - 1 : left[i] = lines[i]
    <3>1. \A i \in 1..f - 1 : lines[i] \in Line
      BY <1>3, <2>1, <2>2
    <3>2. /\ left \in Seq(Line) /\ Len(left) = IF 1 <= f - 1 THEN f - 1 - 1 + 1 ELSE 0
          /\ \A i \in 1..f - 1 - 1 + 1 : left[i] = lines[1 + i - 1]
      BY <2>1, <3>1, SubSeqProperties
    <3> QED
      BY <2>1, <3>2
  <2>4. /\ right \in Seq(Line) /\ Len(right) = len - f
        /\ \A i \in 1..len - f : right[i] = lines[f + i]
    <3>1. \A i \in f + 1..len : lines[i] \in Line
      BY <1>3, <2>1, <2>2
    <3>2. /\ right \in Seq(Line) /\ Len(right) = IF f + 1 <= len THEN len - (f + 1) + 1 ELSE 0
          /\ \A i \in 1..len - (f + 1) + 1 : right[i] = lines[f + 1 + i - 1]
      BY <1>3, <2>1, <3>1, SubSeqProperties
    <3> HIDE DEF right
    <3>3. Len(right) = len - f
      <4>1. Len(right) = IF f + 1 <= len THEN len - (f + 1) + 1 ELSE 0
        BY <3>2
      <4>2. len \in Int /\ f \in Int /\ f <= len
        BY <1>3, <2>1
      <4> HIDE DEF len, right
      <4>3. CASE f + 1 <= len
        BY <4>1, <4>2, <4>3
      <4>4. CASE ~ (f + 1 <= len)
        BY <4>1, <4>2, <4>4
      <4> QED
        BY <4>3, <4>4
    <3>4. ASSUME NEW i \in 1..len - f
          PROVE  right[i] = lines[f + i]
      <4>1. i \in 1..len - (f + 1) + 1 /\ f + 1 + i - 1 = f + i
        BY <1>3, <2>1
      <4> QED
        BY <3>2, <4>1
    <3> QED
      BY <3>2, <3>3, <3>4
  <2> HIDE DEF left, right
  <2>5. /\ left \o right \in Seq(Line) /\ Len(left \o right) = len - 1
        /\ \A i \in 1..len - 1 : (left \o right)[i] = IF i <= f - 1 THEN left[i] ELSE right[i - (f - 1)]
    <3>1. /\ left \o right \in Seq(Line) /\ Len(left \o right) = Len(left) + Len(right)
          /\ \A i \in 1..Len(left) + Len(right) :
               (left \o right)[i] = IF i <= Len(left) THEN left[i] ELSE right[i - Len(left)]
      BY <2>3, <2>4, ConcatProperties
    <3> QED
      BY <1>3, <2>1, <2>3, <2>4, <3>1
  <2>6. \A i \in 1..len - 1 : (left \o right)[i] = lines[at[i]]
    <3>1. ASSUME NEW i \in 1..len - 1, i < f
          PROVE  (left \o right)[i] = lines[at[i]]
      BY <1>3, <2>1, <2>3, <2>5, <3>1
    <3>2. ASSUME NEW i \in 1..len - 1, ~ (i < f)
          PROVE  (left \o right)[i] = lines[at[i]]
      <4>1. i - (f - 1) \in 1..len - f /\ f + (i - (f - 1)) = i + 1 /\ ~ (i <= f - 1)
        BY <1>3, <2>1, <3>2
      <4> QED
        BY <2>4, <2>5, <3>2, <4>1
    <3> QED
      BY <3>1, <3>2
  <2>7. /\ at \in [1..len - 1 -> 1..len]
        /\ \A m, n \in 1..len - 1 : m # n => at[m] # at[n]
    BY <1>3, <2>1
  <2>8. len - 1 \in Nat
    BY <1>3, <2>1
  <2> HIDE DEF at
  <2>9. Fits(some, room)
    BY <2>7, <2>8, SomeLines
  <2>10. some \in Seq(Line) /\ DOMAIN some = 1..len - 1 /\ Len(some) = len - 1
    BY <2>8, <2>9, LenProperties DEF Fits
  <2>11. left \o right = some
    BY <2>5, <2>6, <2>10, SeqEqual
  <2>12. RemoveAt(lines, f) = left \o right
    BY DEF RemoveAt, left, right
  <2> HIDE DEF some
  <2>13. room + q = room
    BY <1>7
  <2> QED
    BY <1>2, <1>7, <2>9, <2>11, <2>12, <2>13
<1> QED
  BY <1>4, <1>6, <1>7

(* Fewer lines.                                                               *)
LEMMA RemoveFits ==
    ASSUME NEW lines, NEW room, Fits(lines, room), NEW item
    PROVE  Fits(RemoveItem(lines, item), room)
<1> DEFINE stay == {n \in DOMAIN lines : lines[n].item # item}
           at == [k \in 1..Cardinality(stay) |->
                    CHOOSE n \in stay : Cardinality({m \in stay : m <= n}) = k]
<1>1. Len(lines) \in Nat /\ DOMAIN lines = 1..Len(lines)
  BY LinesOf
<1>2. stay \in SUBSET (1..Len(lines))
  BY <1>1
<1>3. stay \in SUBSET Nat
  BY <1>1
<1>4. IsFiniteSet(stay)
  <2> HIDE DEF stay
  <2>1. IsFiniteSet(1..Len(lines))
    BY <1>1, FS_Interval
  <2> QED
    BY <1>2, <2>1, FS_Subset
<1>5. /\ Cardinality(stay) \in Nat
      /\ \A k \in 1..Cardinality(stay) :
           \E n \in stay : Cardinality({m \in stay : m <= n}) = k
  <2> HIDE DEF stay
  <2>1. Cardinality(stay) \in Nat
    BY <1>4, FS_CardinalityType
  <2>2. \A k \in 1..Cardinality(stay) : \E n \in stay : Rank(stay, n) = k
    BY <1>3, <1>4, Places
  <2> QED
    BY <2>1, <2>2 DEF Rank
<1>6. RemoveItem(lines, item) = [k \in 1..Cardinality(stay) |-> lines[at[k]]]
  BY DEF RemoveItem
<1> HIDE DEF stay
<1>7. \A k \in 1..Cardinality(stay) :
        at[k] \in stay /\ Cardinality({m \in stay : m <= at[k]}) = k
  BY <1>5
<1> HIDE DEF at
<1>8. at \in [1..Cardinality(stay) -> 1..Len(lines)]
  BY <1>2, <1>7 DEF at
<1>9. \A m, n \in 1..Cardinality(stay) : m # n => at[m] # at[n]
  BY <1>7
<1> QED
  BY <1>5, <1>6, <1>8, <1>9, SomeLines

--------------------------------------------------------------------------------
(* What guests' requests and their carts may be                               *)

Request ==
    [kind : {"add"}, line : Ask]
    \cup [kind : {"update"}, item : Item, quantity : Quantity \cup {0}]
    \cup [kind : {"remove"}, item : Item]
    \cup [kind : {"clear", "checkout"}]

GuestJob ==
    [at : {"find", "create", "load", "save", "reply", "order", "clear"},
     process : Process, token : SessionToken, request : Request, lines : Seq(Line)]

(* How much a request asks for, and how much of it is still to be saved.      *)
Asks(request) ==
    IF request.kind = "add" THEN request.line.quantity
    ELSE IF request.kind = "update" THEN request.quantity
    ELSE 0
Wanted(j) == IF j.at \in {"find", "create", "load", "save"} THEN Asks(j.request) ELSE 0

IsGuestJob(j) ==
    \/ j = Away
    \/ /\ j \in GuestJob
       /\ Asks(j.request) <= MaxAsked
       /\ j.at \in {"find", "create"} => j.request.kind = "add"
       /\ j.at = "load" => j.request.kind \in {"add", "update", "remove", "checkout"}
       /\ j.at = "save" => j.request.kind \in {"add", "update", "remove"}

(* What the requests for a cart have still to save, piece by piece.           *)
Units(s) ==
    {u \in Guest \X (1..MaxAsked) :
       /\ Serving(u[1]) /\ guestJob[u[1]].token = s
       /\ u[2] <= Wanted(guestJob[u[1]])}
Owed(s) == Cardinality(Units(s))
Room(s) == asked[s] - Owed(s)

CartEntryInv(entry, room) ==
    entry # None => entry \in [value : Seq(Line), until : Nat] /\ Fits(entry.value, room)

GuestsInv ==
    /\ guestJob = [g \in Guest |-> guestJob[g]]
    /\ \A g \in Guest : IsGuestJob(guestJob[g])
    /\ due = [s \in SessionToken |-> due[s]]
    /\ asked = [s \in SessionToken |-> asked[s]]
    /\ raced = [s \in SessionToken |-> raced[s]]

AskedInv ==
    \A s \in SessionToken :
        asked[s] \in 0..MaxAsked /\ IsFiniteSet(Units(s)) /\ Owed(s) <= asked[s]

(* No copy of a cart has two lines for the same, or more on a line than what  *)
(* was asked for and is not still to be saved.                                *)
HeldInv ==
    \A s \in SessionToken :
        /\ CartEntryInv(redis[s], Room(s))
        /\ \A p \in Process : CartEntryInv(memory[p][s], Room(s))
        /\ Fits(due[s], Room(s))
        /\ \A g \in Guest : Serving(g) /\ guestJob[g].token = s => Fits(guestJob[g].lines, Room(s))

(* One request at a time, each for the cart that the last one left.           *)
Exact(s) ==
    /\ \A g, h \in Guest :
         Serving(g) /\ guestJob[g].token = s /\ Serving(h) /\ guestJob[h].token = s => g = h
    /\ Contents(s) = due[s]
    /\ \A g \in Guest : Serving(g) /\ guestJob[g].token = s =>
         /\ guestJob[g].at = "create" => due[s] = <<>>
         /\ guestJob[g].at \in {"save", "order"} => guestJob[g].lines = due[s]

ExactInv == faults = 0 => \A s \in SessionToken : ~ raced[s] => Exact(s)

CartInv == GuestsInv /\ AskedInv /\ HeldInv /\ ExactInv

--------------------------------------------------------------------------------
(* Requests and what they owe                                                 *)

(* What a request asks for is a number, and tells its kind.                   *)
LEMMA RequestAsks ==
    ASSUME NEW r \in Request
    PROVE  /\ Asks(r) \in Nat
           /\ r.kind \in {"add", "update", "remove", "clear", "checkout"}
           /\ r.kind = "add" => r.line \in Ask /\ Asks(r) = r.line.quantity
           /\ r.kind = "update" => r.quantity \in Quantity \cup {0} /\ Asks(r) = r.quantity
           /\ r.kind \in {"remove", "clear", "checkout"} => Asks(r) = 0
<1>1. CASE r \in [kind : {"add"}, line : Ask]
  BY <1>1, CartAssumption DEF Asks, Ask
<1>2. CASE r \in [kind : {"update"}, item : Item, quantity : Quantity \cup {0}]
  <2>1. r.kind = "update" /\ r.quantity \in Quantity \cup {0}
    BY <1>2
  <2>2. r.quantity \in Nat
    <3>1. \A q \in Quantity \cup {0} : q \in Nat
      BY CartAssumption
    <3> QED
      BY <2>1, <3>1
  <2>3. Asks(r) = r.quantity
    BY <2>1 DEF Asks
  <2> QED
    BY <2>1, <2>2, <2>3
<1>3. CASE r \in [kind : {"remove"}, item : Item] \cup [kind : {"clear", "checkout"}]
  BY <1>3 DEF Asks
<1> QED
  BY <1>1, <1>2, <1>3 DEF Request

(* What a request saves fits when its own quantity has been added to the room.*)
LEMMA ChangedFits ==
    ASSUME NEW lines, NEW room \in Nat, Fits(lines, room),
           NEW r \in Request, r.kind \in {"add", "update", "remove"},
           room + Asks(r) <= MaxAsked
    PROVE  Fits(Changed(lines, r), room + Asks(r))
<1>1. CASE r.kind = "add"
  BY <1>1, RequestAsks, AddFits DEF Changed
<1>2. CASE r.kind = "update"
  <2>1. Changed(lines, r) = UpdateItemIn(lines, r.item, r.quantity)
    BY <1>2 DEF Changed
  <2> QED
    BY <1>2, <2>1, RequestAsks, UpdateFits
<1>3. CASE r.kind = "remove"
  <2>1. Changed(lines, r) = RemoveItem(lines, r.item)
    BY <1>3 DEF Changed
  <2>2. Asks(r) = 0
    BY <1>3, RequestAsks
  <2>3. room + Asks(r) = room
    BY <2>2
  <2> QED
    BY <2>1, <2>3, RemoveFits
<1> QED
  BY <1>1, <1>2, <1>3

(* What a request is at tells whether it is one.                              *)
LEMMA GuestStages ==
    ASSUME NEW g, IsGuestJob(guestJob[g])
    PROVE  /\ Serving(g) <=> guestJob[g] \in GuestJob
           /\ Serving(g) => Wanted(guestJob[g]) \in Nat
           /\ ~ Serving(g) => guestJob[g] = Away
<1>1. Away.at = "away"
  BY DEF Away
<1>2. guestJob[g] \in GuestJob => guestJob[g].at # "away" /\ guestJob[g].request \in Request
  BY DEF GuestJob
<1>3. guestJob[g] \in GuestJob => Wanted(guestJob[g]) \in Nat
  BY <1>2, RequestAsks DEF Wanted
<1> QED
  BY <1>1, <1>2, <1>3 DEF IsGuestJob, Serving

(* The pieces of one request.                                                 *)
LEMMA OwnUnits ==
    ASSUME NEW g, NEW q \in Nat
    PROVE  IsFiniteSet({g} \X (1..q)) /\ Cardinality({g} \X (1..q)) = q
<1> DEFINE Q == 1..q
<1>1. IsFiniteSet(Q) /\ Cardinality(Q) = q
  <2>1. IsFiniteSet(Q) /\ Cardinality(Q) = IF 1 > q THEN 0 ELSE q - 1 + 1
    BY FS_Interval
  <2> QED
    BY <2>1
<1>2. IsFiniteSet({g}) /\ Cardinality({g}) = 1
  BY FS_Singleton
<1> HIDE DEF Q
<1>3. IsFiniteSet({g} \X Q) /\ Cardinality({g} \X Q) = Cardinality({g}) * Cardinality(Q)
  BY <1>1, <1>2, FS_Product
<1> QED
  BY <1>1, <1>2, <1>3 DEF Q

(* What is owed when a request goes on, or ends.                              *)
LEMMA OwedLess ==
    ASSUME GuestsInv, AskedInv, NEW g \in Guest, NEW j, Serving(g),
           guestJob' = [guestJob EXCEPT ![g] = j],
           j = Away \/ (j.token = guestJob[g].token /\ Wanted(j) <= Wanted(guestJob[g])),
           j = Away \/ Wanted(j) \in Nat,
           NEW s \in SessionToken
    PROVE  /\ IsFiniteSet(Units(s)') /\ Owed(s)' \in Nat /\ Owed(s)' <= Owed(s)
<1>1. \A h \in Guest : guestJob'[h] = IF h = g THEN j ELSE guestJob[h]
  BY DEF GuestsInv
<1>2. Units(s)' \subseteq Units(s)
  <2> SUFFICES ASSUME NEW u \in Guest \X (1..MaxAsked),
                      Serving(u[1])', guestJob'[u[1]].token = s,
                      u[2] <= Wanted(guestJob'[u[1]])
               PROVE  /\ Serving(u[1]) /\ guestJob[u[1]].token = s
                      /\ u[2] <= Wanted(guestJob[u[1]])
    BY DEF Units, Wanted, Asks
  <2>1. CASE u[1] = g
    <3>1. j # Away /\ j.token = s /\ u[2] <= Wanted(j)
      BY <1>1, <2>1 DEF Serving, Away
    <3>2. u[2] \in Int
      BY CartAssumption
    <3>3. Wanted(j) \in Nat /\ Wanted(guestJob[g]) \in Nat
      BY <3>1, GuestStages DEF GuestsInv
    <3> QED
      BY <2>1, <3>1, <3>2, <3>3
  <2>2. CASE u[1] # g
    BY <1>1, <2>2 DEF Serving
  <2> QED
    BY <2>1, <2>2
<1>3. IsFiniteSet(Units(s))
  BY DEF AskedInv
<1> QED
  BY <1>2, <1>3, FS_Subset, FS_CardinalityType DEF Owed

(* What is owed when a request has saved its cart.                            *)
LEMMA OwedSaved ==
    ASSUME GuestsInv, AskedInv, NEW g \in Guest, NEW j, Serving(g),
           guestJob' = [guestJob EXCEPT ![g] = j],
           Wanted(j) = 0, NEW q \in Nat, Wanted(guestJob[g]) = q, q <= MaxAsked,
           NEW s \in SessionToken, guestJob[g].token = s
    PROVE  IsFiniteSet(Units(s)') /\ Owed(s)' \in Nat /\ Owed(s)' + q <= Owed(s)
<1> DEFINE own == {g} \X (1..q)
           left == Units(s)'
<1>1. \A h \in Guest : guestJob'[h] = IF h = g THEN j ELSE guestJob[h]
  BY DEF GuestsInv
<1>2. MaxAsked \in Nat
  BY CartAssumption
<1>3. \A u \in left : u \in Units(s) /\ u \notin own
  <2> SUFFICES ASSUME NEW u \in Guest \X (1..MaxAsked),
                      Serving(u[1])', guestJob'[u[1]].token = s,
                      u[2] <= Wanted(guestJob'[u[1]])
               PROVE  /\ Serving(u[1]) /\ guestJob[u[1]].token = s
                      /\ u[2] <= Wanted(guestJob[u[1]])
                      /\ u[1] # g
    BY DEF Units, Wanted, Asks
  <2>1. u[1] # g
    <3>1. u[2] \in 1..MaxAsked
      OBVIOUS
    <3> QED
      BY <1>1, <1>2, <3>1
  <2> QED
    BY <1>1, <2>1 DEF Serving
<1>4. \A u \in own : u \in Units(s)
  <2> SUFFICES ASSUME NEW n \in 1..q
               PROVE  <<g, n>> \in Units(s)
    OBVIOUS
  <2>1. n \in 1..MaxAsked
    BY <1>2
  <2> QED
    BY <2>1 DEF Units
<1>5. IsFiniteSet(own) /\ Cardinality(own) = q
  BY OwnUnits
<1>6. IsFiniteSet(Units(s))
  BY DEF AskedInv
<1> HIDE DEF own, left
<1>7. left \in SUBSET Units(s) /\ left \cup own \in SUBSET Units(s) /\ left \cap own = {}
  BY <1>3, <1>4
<1>8. IsFiniteSet(left)
  BY <1>6, <1>7, FS_Subset
<1>9. Cardinality(left \cup own) = Cardinality(left) + Cardinality(own) - Cardinality(left \cap own)
  BY <1>5, <1>8, FS_Union
<1>10. Cardinality(left \cup own) <= Cardinality(Units(s))
  BY <1>6, <1>7, FS_Subset
<1>11. Cardinality(left \cap own) = 0
  BY <1>7, FS_EmptySet
<1>12. Cardinality(left) \in Nat
  BY <1>8, FS_CardinalityType
<1>13. Cardinality(left) + q <= Owed(s)
  BY <1>5, <1>9, <1>10, <1>11, <1>12 DEF Owed
<1> QED
  BY <1>8, <1>12, <1>13 DEF left, Owed

(* What is owed when a request begins.                                        *)
LEMMA OwedBegun ==
    ASSUME GuestsInv, AskedInv, NEW g \in Guest, NEW j, ~ Serving(g),
           guestJob' = [guestJob EXCEPT ![g] = j],
           NEW q \in Nat, Wanted(j) \in Nat, Wanted(j) <= q,
           NEW s \in SessionToken
    PROVE  /\ IsFiniteSet(Units(s)') /\ Owed(s)' \in Nat
           /\ Owed(s)' <= IF j.token = s THEN Owed(s) + q ELSE Owed(s)
<1> DEFINE own == {g} \X (1..q)
           now2 == Units(s)'
<1>1. \A h \in Guest : guestJob'[h] = IF h = g THEN j ELSE guestJob[h]
  BY DEF GuestsInv
<1>2. MaxAsked \in Nat
  BY CartAssumption
<1>3. \A u \in now2 : u \in Units(s) \/ (u \in own /\ j.token = s)
  <2> SUFFICES ASSUME NEW u \in Guest \X (1..MaxAsked),
                      Serving(u[1])', guestJob'[u[1]].token = s,
                      u[2] <= Wanted(guestJob'[u[1]]),
                      ~ (u \in own /\ j.token = s)
               PROVE  /\ Serving(u[1]) /\ guestJob[u[1]].token = s
                      /\ u[2] <= Wanted(guestJob[u[1]])
    BY DEF Units, Wanted, Asks
  <2>1. u[1] # g
    <3> SUFFICES ASSUME u[1] = g
                 PROVE  FALSE
      OBVIOUS
    <3>1. u[2] \in 1..MaxAsked /\ u[2] <= Wanted(j) /\ j.token = s
      BY <1>1
    <3>2. u[2] \in 1..q
      BY <1>2, <3>1
    <3>3. u = <<g, u[2]>>
      OBVIOUS
    <3> QED
      BY <3>1, <3>2, <3>3
  <2> QED
    BY <1>1, <2>1 DEF Serving
<1>4. IsFiniteSet(own) /\ Cardinality(own) = q
  BY OwnUnits
<1>5. IsFiniteSet(Units(s)) /\ Owed(s) \in Nat
  BY FS_CardinalityType DEF AskedInv, Owed
<1> HIDE DEF own, now2
<1>6. CASE j.token = s
  <2>1. now2 \in SUBSET (Units(s) \cup own)
    BY <1>3
  <2>2. /\ IsFiniteSet(Units(s) \cup own)
        /\ Cardinality(Units(s) \cup own)
             = Cardinality(Units(s)) + Cardinality(own) - Cardinality(Units(s) \cap own)
    BY <1>4, <1>5, FS_Union
  <2>3. IsFiniteSet(Units(s) \cap own)
    BY <1>5, FS_Intersection
  <2>4. Cardinality(Units(s) \cap own) \in Nat
    BY <2>3, FS_CardinalityType
  <2>5. IsFiniteSet(now2) /\ Cardinality(now2) <= Cardinality(Units(s) \cup own)
    BY <2>1, <2>2, FS_Subset
  <2>6. Cardinality(now2) \in Nat
    BY <2>5, FS_CardinalityType
  <2>7. Cardinality(now2) <= Owed(s) + q
    BY <1>4, <1>5, <2>2, <2>4, <2>5, <2>6 DEF Owed
  <2> QED
    BY <1>6, <2>5, <2>6, <2>7 DEF now2, Owed
<1>7. CASE j.token # s
  <2>1. now2 \in SUBSET Units(s)
    BY <1>3, <1>7
  <2>2. IsFiniteSet(now2) /\ Cardinality(now2) <= Cardinality(Units(s))
    BY <1>5, <2>1, FS_Subset
  <2>3. Cardinality(now2) \in Nat
    BY <2>2, FS_CardinalityType
  <2> QED
    BY <1>7, <2>2, <2>3 DEF now2, Owed
<1> QED
  BY <1>6, <1>7

--------------------------------------------------------------------------------
(* Steps of guests                                                            *)

(* The menu is as it was, and so is what the cache has of it.                 *)
LEMMA MenuAside ==
    ASSUME MenuInv, NEW p \in Process, NEW s \in SessionToken, NEW entry,
           Puts(p, s, entry), faults' \in Nat, faults' = 0 => faults = 0,
           UNCHANGED <<categories, items, menuJob>>
    PROVE  /\ MenuInv'
           /\ redis'[s] \in {redis[s], entry}
           /\ redis' # redis => redis'[s] = entry
           /\ memory'[p][s] \in {memory[p][s], entry}
           /\ \A x \in SessionToken \ {s} : redis'[x] = redis[x]
           /\ \A q \in Process, x \in SessionToken :
                q # p \/ x # s => memory'[q][x] = memory[q][x]
<1>1. /\ s \in Key /\ s \notin Listings /\ "menu:categories" \in Key \ {s}
      /\ \A x \in SessionToken : x \in Key
  BY CacheAssumption DEF Key, Listings
<1>2. CacheShape /\ CacheInv
  BY DEF MenuInv
<1>3. /\ CacheShape' /\ CacheInv'
      /\ redis'[s] \in {redis[s], entry}
      /\ redis' # redis => redis'[s] = entry
      /\ memory'[p][s] \in {memory[p][s], entry}
      /\ \A x \in Key \ {s} : redis'[x] = redis[x]
      /\ \A q \in Process, x \in Key : q # p \/ x # s => memory'[q][x] = memory[q][x]
  <2>1. s \in Key /\ (s \in Listings => EntryInv(entry))
    BY <1>1
  <2>2. p \in Process /\ Puts(p, s, entry)
    OBVIOUS
  <2> QED
    BY <1>2, <2>1, <2>2, PutEntry
<1>4. UNCHANGED <<categories, items, menuJob>>
  OBVIOUS
<1>5. RowsInv'
  BY <1>4 DEF Puts, MenuInv, RowsInv
<1>6. JobsInv'
  BY <1>4 DEF Puts, MenuInv, JobsInv, IsJob, IsChange, ListingJob, Lists, Changes, ListingInv,
              ChangeInv, Quiet, Agrees, Active
<1>7. FreshInv'
  BY <1>1, <1>3, <1>4 DEF MenuInv, FreshInv, Agrees
<1> QED
  BY <1>1, <1>3, <1>5, <1>6, <1>7 DEF MenuInv

(* There is room for what a cart holds.                                       *)
LEMMA RoomIsThere ==
    ASSUME AskedInv, NEW s \in SessionToken
    PROVE  /\ Room(s) \in Nat /\ asked[s] \in Nat /\ Owed(s) \in Nat
           /\ Room(s) = asked[s] - Owed(s) /\ asked[s] <= MaxAsked /\ MaxAsked \in Nat
<1>1. /\ asked[s] \in 0..MaxAsked /\ MaxAsked \in Nat /\ IsFiniteSet(Units(s))
      /\ Owed(s) <= asked[s]
  BY CartAssumption DEF AskedInv
<1>2. Owed(s) \in Nat
  BY <1>1, FS_CardinalityType DEF Owed
<1> QED
  BY <1>1, <1>2 DEF Room

(* What carts hold still fits where there is no less room.                    *)
LEMMA HeldStep ==
    ASSUME HeldInv,
           \A s \in SessionToken :
             /\ Room(s) \in Nat /\ Room(s)' \in Nat /\ Room(s) <= Room(s)'
             /\ redis'[s] = redis[s] \/ CartEntryInv(redis'[s], Room(s)')
             /\ \A p \in Process :
                  memory'[p][s] = memory[p][s] \/ CartEntryInv(memory'[p][s], Room(s)')
             /\ due'[s] = due[s] \/ Fits(due'[s], Room(s)')
             /\ \A g \in Guest : Serving(g)' /\ guestJob'[g].token = s =>
                  \/ /\ Serving(g) /\ guestJob[g].token = s
                     /\ guestJob'[g].lines = guestJob[g].lines
                  \/ Fits(guestJob'[g].lines, Room(s)')
    PROVE  HeldInv'
<1> SUFFICES ASSUME NEW s \in SessionToken
             PROVE  /\ CartEntryInv(redis'[s], Room(s)')
                    /\ \A p \in Process : CartEntryInv(memory'[p][s], Room(s)')
                    /\ Fits(due'[s], Room(s)')
                    /\ \A g \in Guest : Serving(g)' /\ guestJob'[g].token = s =>
                         Fits(guestJob'[g].lines, Room(s)')
  BY DEF HeldInv, CartEntryInv, Fits, Sound
<1>1. /\ Room(s) \in Nat /\ Room(s)' \in Nat /\ Room(s) <= Room(s)'
  OBVIOUS
<1>2. \A lines : Fits(lines, Room(s)) => Fits(lines, Room(s)')
  BY <1>1, MoreRoom
<1>3. \A e : CartEntryInv(e, Room(s)) => CartEntryInv(e, Room(s)')
  BY <1>2 DEF CartEntryInv
<1> QED
  BY <1>2, <1>3 DEF HeldInv

(* What is in Redis, of a cart that no one touches.                           *)
LEMMA ContentsKept ==
    ASSUME NEW s \in SessionToken, redis'[s] = redis[s], now' = now
    PROVE  Kept'[s] = Kept[s] /\ Contents(s)' = Contents(s)
BY DEF Contents, Kept, Key

(* One request goes on, with the cart as the others left it.                  *)
LEMMA ExactStep ==
    ASSUME GuestsInv, ExactInv, NEW g \in Guest, NEW s \in SessionToken, Serving(g),
           guestJob[g].token = s, NEW j, guestJob' = [guestJob EXCEPT ![g] = j],
           j = Away \/ j.token = s,
           raced' = raced, now' = now, faults' = 0 => faults = 0,
           \A x \in SessionToken \ {s} : redis'[x] = redis[x] /\ due'[x] = due[x],
           faults' = 0 /\ Exact(s) =>
             /\ Contents(s)' = due'[s]
             /\ j.at = "create" => due'[s] = <<>>
             /\ j.at \in {"save", "order"} => j.lines = due'[s]
    PROVE  ExactInv'
<1>1. \A h \in Guest : guestJob'[h] = IF h = g THEN j ELSE guestJob[h]
  BY DEF GuestsInv
<1>2. \A h \in Guest : Serving(h)' =>
         /\ Serving(h) /\ guestJob'[h].token = guestJob[h].token
         /\ h # g => guestJob'[h] = guestJob[h]
  BY <1>1 DEF Serving, Away
<1> SUFFICES ASSUME faults' = 0, NEW x \in SessionToken, ~ raced[x]
             PROVE  /\ \A h, i \in Guest :
                         Serving(h)' /\ guestJob'[h].token = x
                         /\ Serving(i)' /\ guestJob'[i].token = x => h = i
                    /\ Contents(x)' = due'[x]
                    /\ \A h \in Guest : Serving(h)' /\ guestJob'[h].token = x =>
                         /\ guestJob'[h].at = "create" => due'[x] = <<>>
                         /\ guestJob'[h].at \in {"save", "order"} => guestJob'[h].lines = due'[x]
  BY DEF ExactInv, Exact
<1>3. Exact(x)
  BY DEF ExactInv
<1>4. CASE x = s
  <2>1. /\ Contents(x)' = due'[x]
        /\ j.at = "create" => due'[x] = <<>>
        /\ j.at \in {"save", "order"} => j.lines = due'[x]
    BY <1>3, <1>4
  <2>2. \A h \in Guest : Serving(h) /\ guestJob[h].token = x => h = g
    BY <1>3, <1>4 DEF Exact
  <2>3. \A h \in Guest : Serving(h)' /\ guestJob'[h].token = x => h = g /\ guestJob'[h] = j
    BY <1>1, <1>2, <2>2
  <2> QED
    BY <2>1, <2>3
<1>5. CASE x # s
  <2>1. Contents(x)' = Contents(x) /\ due'[x] = due[x]
    BY <1>5, ContentsKept
  <2>2. \A h \in Guest : Serving(h)' /\ guestJob'[h].token = x => guestJob'[h] = guestJob[h]
    BY <1>1, <1>2, <1>5
  <2> QED
    BY <1>2, <1>3, <2>1, <2>2 DEF Exact
<1> QED
  BY <1>4, <1>5

(* A request goes on: it may put its cart away, and leave other lines due.    *)
LEMMA GuestGoes ==
    ASSUME MenuInv, CartInv, NEW g \in Guest, Serving(g), NEW s \in SessionToken,
           guestJob[g].token = s, NEW j, IsGuestJob(j),
           guestJob' = [guestJob EXCEPT ![g] = j], j = Away \/ j.token = s,
           NEW p \in Process, NEW entry, NEW lines, NEW room \in Nat,
           Puts(p, s, entry), faults' \in Nat, faults' = 0 => faults = 0,
           UNCHANGED <<categories, items, menuJob, asked, raced>>,
           due' = [due EXCEPT ![s] = lines],
           \A x \in SessionToken :
             IsFiniteSet(Units(x)') /\ Owed(x)' \in Nat /\ Owed(x)' <= Owed(x),
           room + Owed(s)' <= asked[s],
           CartEntryInv(entry, room), Fits(lines, room), j = Away \/ Fits(j.lines, room),
           faults' = 0 /\ Exact(s) =>
             /\ Contents(s)' = lines
             /\ j.at = "create" => lines = <<>>
             /\ j.at \in {"save", "order"} => j.lines = lines
    PROVE  MenuInv' /\ CartInv'
<1>1. /\ MenuInv'
      /\ redis'[s] \in {redis[s], entry}
      /\ memory'[p][s] \in {memory[p][s], entry}
      /\ \A x \in SessionToken \ {s} : redis'[x] = redis[x]
      /\ \A q \in Process, x \in SessionToken :
           q # p \/ x # s => memory'[q][x] = memory[q][x]
  <2>1. UNCHANGED <<categories, items, menuJob>>
    OBVIOUS
  <2>2. Puts(p, s, entry) /\ MenuInv /\ faults' \in Nat /\ (faults' = 0 => faults = 0)
    OBVIOUS
  <2> QED
    BY <2>1, <2>2, MenuAside
<1>2. \A h \in Guest : guestJob'[h] = IF h = g THEN j ELSE guestJob[h]
  BY DEF CartInv, GuestsInv
<1>3. \A x \in SessionToken : due'[x] = IF x = s THEN lines ELSE due[x]
  BY DEF CartInv, GuestsInv
<1>4. GuestsInv'
  <2>1. \A h \in Guest : IsGuestJob(guestJob'[h])
    BY <1>2 DEF CartInv, GuestsInv
  <2>2. \A h \in Guest : IsGuestJob(guestJob[h])'
    BY <2>1 DEF IsGuestJob, Asks
  <2> QED
    BY <2>2 DEF CartInv, GuestsInv
<1>5. \A x \in SessionToken :
        /\ Room(x) \in Nat /\ asked[x] \in Nat /\ Owed(x) \in Nat
        /\ Room(x) = asked[x] - Owed(x) /\ Owed(x) <= asked[x]
  BY RoomIsThere DEF CartInv, AskedInv
<1>6. \A x \in SessionToken : asked'[x] = asked[x] /\ Owed(x)' <= asked[x]
  BY <1>5
<1>7. AskedInv'
  BY <1>6 DEF CartInv, AskedInv
<1>8. \A x \in SessionToken : Room(x)' = asked[x] - Owed(x)'
  BY <1>6 DEF Room
<1>9. /\ \A x \in SessionToken : Room(x)' \in Nat /\ Room(x) <= Room(x)'
      /\ room <= Room(s)'
  <2>1. ASSUME NEW x \in SessionToken
        PROVE  Room(x)' \in Nat /\ Room(x) <= Room(x)'
    <3>1. PICK a, o, n \in Nat : /\ a = asked[x] /\ o = Owed(x) /\ n = Owed(x)'
                                /\ n <= o /\ o <= a
      BY <1>5
    <3>2. Room(x)' = a - n /\ Room(x) = a - o
      BY <1>5, <1>8, <3>1
    <3>3. a - n \in Nat /\ a - o <= a - n
      BY <3>1
    <3> QED
      BY <3>2, <3>3
  <2>2. Owed(s)' \in Nat /\ asked[s] \in Nat /\ Room(s)' = asked[s] - Owed(s)'
    BY <1>5, <1>8
  <2>3. room <= Room(s)'
    BY <2>2
  <2> QED
    BY <2>1, <2>3
<1>10. /\ CartEntryInv(entry, Room(s)') /\ Fits(lines, Room(s)')
       /\ j = Away \/ Fits(j.lines, Room(s)')
  BY <1>9, MoreRoom DEF CartEntryInv
<1>11. HeldInv'
  <2>1. ASSUME NEW x \in SessionToken
        PROVE  /\ redis'[x] = redis[x] \/ CartEntryInv(redis'[x], Room(x)')
               /\ \A q \in Process :
                    memory'[q][x] = memory[q][x] \/ CartEntryInv(memory'[q][x], Room(x)')
               /\ due'[x] = due[x] \/ Fits(due'[x], Room(x)')
               /\ \A h \in Guest : Serving(h)' /\ guestJob'[h].token = x =>
                    \/ /\ Serving(h) /\ guestJob[h].token = x
                       /\ guestJob'[h].lines = guestJob[h].lines
                    \/ Fits(guestJob'[h].lines, Room(x)')
    <3>1. CASE x = s
      <4>1. \A h \in Guest : Serving(h)' /\ guestJob'[h].token = x =>
              \/ h = g /\ Fits(guestJob'[h].lines, Room(x)')
              \/ Serving(h) /\ guestJob'[h] = guestJob[h]
        BY <1>2, <1>10, <3>1 DEF Serving, Away
      <4>2. CartEntryInv(entry, Room(x)') /\ Fits(lines, Room(x)')
        BY <1>10, <3>1
      <4> QED
        BY <1>1, <1>3, <3>1, <4>1, <4>2
    <3>2. CASE x # s
      <4>1. \A h \in Guest : Serving(h)' /\ guestJob'[h].token = x =>
              Serving(h) /\ guestJob'[h] = guestJob[h]
        BY <1>2, <3>2 DEF Serving, Away
      <4> QED
        BY <1>1, <1>3, <3>2, <4>1
    <3> QED
      BY <3>1, <3>2
  <2> QED
    BY <1>5, <1>9, <2>1, HeldStep DEF CartInv
<1>12. ExactInv'
  <2>1. \A x \in SessionToken \ {s} : redis'[x] = redis[x] /\ due'[x] = due[x]
    BY <1>1, <1>3
  <2>2. due'[s] = lines /\ now' = now
    BY <1>3 DEF Puts
  <2> QED
    BY <2>1, <2>2, ExactStep DEF CartInv
<1> QED
  BY <1>1, <1>4, <1>7, <1>11, <1>12 DEF CartInv

(* The forms in which requests go on.                                         *)
StepWith(g, stage, lines) ==
    guestJob' = [guestJob EXCEPT ![g].at = stage, ![g].lines = lines]

(* To another stage.                                                          *)
LEMMA StageSet ==
    ASSUME GuestsInv, NEW g \in Guest, guestJob[g] \in GuestJob,
           NEW stage, stage \in {"find", "create", "load", "save", "reply", "order", "clear"},
           Step(g, stage)
    PROVE  \E j \in GuestJob :
             /\ guestJob' = [guestJob EXCEPT ![g] = j]
             /\ j.at = stage /\ j.lines = guestJob[g].lines /\ j.token = guestJob[g].token
             /\ j.request = guestJob[g].request /\ j.process = guestJob[g].process
<1> DEFINE j == [guestJob[g] EXCEPT !.at = stage]
<1>1. /\ j \in GuestJob
      /\ j.at = stage /\ j.lines = guestJob[g].lines /\ j.token = guestJob[g].token
      /\ j.request = guestJob[g].request /\ j.process = guestJob[g].process
  BY DEF GuestJob
<1>2. guestJob' = [guestJob EXCEPT ![g] = j]
  BY DEF Step, GuestsInv
<1> HIDE DEF j
<1> QED
  BY <1>1, <1>2

(* To another stage, with what was read.                                      *)
LEMMA StageAndLinesSet ==
    ASSUME GuestsInv, NEW g \in Guest, guestJob[g] \in GuestJob,
           NEW stage, stage \in {"find", "create", "load", "save", "reply", "order", "clear"},
           NEW lines \in Seq(Line), StepWith(g, stage, lines)
    PROVE  \E j \in GuestJob :
             /\ guestJob' = [guestJob EXCEPT ![g] = j]
             /\ j.at = stage /\ j.lines = lines /\ j.token = guestJob[g].token
             /\ j.request = guestJob[g].request /\ j.process = guestJob[g].process
<1> DEFINE j == [guestJob[g] EXCEPT !.at = stage, !.lines = lines]
<1>1. /\ j \in GuestJob
      /\ j.at = stage /\ j.lines = lines /\ j.token = guestJob[g].token
      /\ j.request = guestJob[g].request /\ j.process = guestJob[g].process
  BY DEF GuestJob
<1>2. guestJob' = [guestJob EXCEPT ![g] = j]
  BY DEF StepWith, GuestsInv
<1> HIDE DEF j
<1> QED
  BY <1>1, <1>2

(* A request that is served, its cart and the room that is there.             *)
LEMMA ServedGuest ==
    ASSUME CartInv, NEW g \in Guest, Serving(g)
    PROVE  /\ guestJob[g] \in GuestJob /\ IsGuestJob(guestJob[g])
           /\ guestJob[g].token \in SessionToken /\ guestJob[g].process \in Process
           /\ guestJob[g].request \in Request /\ guestJob[g].lines \in Seq(Line)
           /\ Wanted(guestJob[g]) \in Nat /\ Asks(guestJob[g].request) <= MaxAsked
           /\ Room(guestJob[g].token) \in Nat
           /\ Fits(guestJob[g].lines, Room(guestJob[g].token))
           /\ Fits(due[guestJob[g].token], Room(guestJob[g].token))
<1>1. IsGuestJob(guestJob[g])
  BY DEF CartInv, GuestsInv
<1>2. guestJob[g] \in GuestJob /\ Wanted(guestJob[g]) \in Nat
  BY <1>1, GuestStages
<1>3. /\ guestJob[g].token \in SessionToken /\ guestJob[g].process \in Process
      /\ guestJob[g].request \in Request /\ guestJob[g].lines \in Seq(Line)
      /\ guestJob[g] # Away
  BY <1>2 DEF GuestJob, Away
<1>4. Asks(guestJob[g].request) <= MaxAsked
  BY <1>1, <1>3 DEF IsGuestJob
<1> QED
  BY <1>1, <1>2, <1>3, <1>4, RoomIsThere DEF CartInv, HeldInv

(* A request goes on and leaves the room as it was.                           *)
LEMMA GuestGoesOn ==
    ASSUME MenuInv, CartInv, NEW g \in Guest, Serving(g), NEW s, s = guestJob[g].token,
           NEW j, IsGuestJob(j), guestJob' = [guestJob EXCEPT ![g] = j],
           j = Away \/ (j.token = s /\ j \in GuestJob /\ Fits(j.lines, Room(s))
                        /\ Wanted(j) <= Wanted(guestJob[g])),
           NEW p, p = guestJob[g].process, NEW entry, NEW lines,
           Puts(p, s, entry), faults' \in Nat, faults' = 0 => faults = 0,
           UNCHANGED <<categories, items, menuJob, asked, raced>>,
           due' = [due EXCEPT ![s] = lines],
           CartEntryInv(entry, Room(s)), Fits(lines, Room(s)),
           faults' = 0 /\ Exact(s) =>
             /\ Contents(s)' = lines
             /\ j.at = "create" => lines = <<>>
             /\ j.at \in {"save", "order"} => j.lines = lines
    PROVE  MenuInv' /\ CartInv'
<1>1. s \in SessionToken /\ p \in Process /\ Room(s) \in Nat
  BY ServedGuest
<1>2. j = Away \/ Wanted(j) \in Nat
  <2>1. j \in GuestJob => j.request \in Request
    BY DEF GuestJob
  <2> QED
    BY <2>1, RequestAsks DEF Wanted
<1>3. \A x \in SessionToken : IsFiniteSet(Units(x)') /\ Owed(x)' \in Nat /\ Owed(x)' <= Owed(x)
  <2>1. j = Away \/ (j.token = guestJob[g].token /\ Wanted(j) <= Wanted(guestJob[g]))
    OBVIOUS
  <2>2. GuestsInv /\ AskedInv
    BY DEF CartInv
  <2> QED
    BY <1>2, <2>1, <2>2, OwedLess
<1>4. Room(s) + Owed(s)' <= asked[s]
  <2>1. /\ asked[s] \in Nat /\ Owed(s) \in Nat /\ Room(s) = asked[s] - Owed(s)
        /\ Owed(s)' \in Nat /\ Owed(s)' <= Owed(s)
    BY <1>1, <1>3, RoomIsThere DEF CartInv
  <2> QED
    BY <2>1
<1>5. /\ guestJob[g].token = s /\ (j = Away \/ j.token = s)
      /\ (j = Away \/ Fits(j.lines, Room(s)))
  OBVIOUS
<1>6. /\ Puts(p, s, entry) /\ faults' \in Nat /\ (faults' = 0 => faults = 0)
      /\ UNCHANGED <<categories, items, menuJob, asked, raced>>
  OBVIOUS
<1> QED
  BY <1>1, <1>3, <1>4, <1>5, <1>6, GuestGoes

(* A request goes on and neither writes the cache nor saves anything.         *)
LEMMA GuestGoesQuietly ==
    ASSUME MenuInv, CartInv, NEW g \in Guest, Serving(g), NEW s, s = guestJob[g].token,
           NEW j, IsGuestJob(j), guestJob' = [guestJob EXCEPT ![g] = j],
           j = Away \/ (j.token = s /\ j \in GuestJob /\ Fits(j.lines, Room(s))
                        /\ Wanted(j) <= Wanted(guestJob[g])),
           UNCHANGED <<redis, memory, now>>, faults' \in Nat, faults' = 0 => faults = 0,
           Stays,
           faults' = 0 /\ Exact(s) =>
             /\ j.at = "create" => due[s] = <<>>
             /\ j.at \in {"save", "order"} => j.lines = due[s]
    PROVE  MenuInv' /\ CartInv'
<1>1. /\ s \in SessionToken /\ guestJob[g].process \in Process
      /\ Fits(due[s], Room(s))
  BY ServedGuest
<1>2. due' = [due EXCEPT ![s] = due[s]]
  BY <1>1 DEF Stays, CartInv, GuestsInv
<1>3. UNCHANGED <<categories, items, menuJob, asked, raced>>
  BY DEF Stays, menuVars
<1>4. PICK p : p = guestJob[g].process
  OBVIOUS
<1>5. Puts(p, s, None)
  BY DEF Puts
<1>6. CartEntryInv(None, Room(s))
  BY DEF CartEntryInv
<1>7. Exact(s) => Contents(s)' = due[s]
  BY <1>1, ContentsKept DEF Exact
<1> QED
  BY <1>1, <1>2, <1>3, <1>4, <1>5, <1>6, <1>7, GuestGoesOn

(* What a request finds of its cart fits, and is the cart if Redis answers.   *)
LEMMA FoundCart ==
    ASSUME CartInv, NEW s \in SessionToken, NEW p \in Process, NEW how
    PROVE  /\ Found(p, s, how) # None => Fits(Found(p, s, how), Room(s))
           /\ how = "done" =>
                Contents(s) = IF Found(p, s, how) = None THEN <<>> ELSE Found(p, s, how)
<1>1. s \in Key
  BY DEF Key
<1>2. Found(p, s, how) # None =>
        \E e \in {redis[s], memory[p][s]} : e # None /\ Found(p, s, how) = e.value
  BY <1>1 DEF Found, Kept, Remembered
<1>3. \A e \in {redis[s], memory[p][s]} : e # None => Fits(e.value, Room(s))
  BY DEF CartInv, HeldInv, CartEntryInv
<1>4. how = "done" => Found(p, s, how) = Kept[s]
  BY DEF Found
<1> QED
  BY <1>2, <1>3, <1>4 DEF Contents

(* A request ends, whatever it was at.                                        *)
LEMMA LeaveKeeps ==
    ASSUME MenuInv, CartInv, NEW g \in Guest, Serving(g), Leave(g), Stays,
           UNCHANGED <<redis, memory, now>>, faults' \in Nat, faults' = 0 => faults = 0
    PROVE  MenuInv' /\ CartInv'
<1>1. guestJob' = [guestJob EXCEPT ![g] = Away] /\ IsGuestJob(Away)
  BY DEF Leave, IsGuestJob
<1>2. Away.at = "away"
  BY DEF Away
<1>3. PICK s : s = guestJob[g].token
  OBVIOUS
<1>4. UNCHANGED <<redis, memory, now>>
  OBVIOUS
<1> QED
  BY <1>1, <1>2, <1>3, <1>4, GuestGoesQuietly

(* A request goes to another stage with the lines that it has.                *)
LEMMA StepKeeps ==
    ASSUME MenuInv, CartInv, NEW g \in Guest, Serving(g), NEW stage, Step(g, stage), Stays,
           stage \in {"create", "load", "clear"},
           stage \in {"create", "load"} => guestJob[g].at \in {"find", "create"},
           UNCHANGED <<redis, memory, now>>, faults' \in Nat, faults' = 0 => faults = 0,
           faults' = 0 /\ Exact(guestJob[g].token) /\ stage = "create" =>
             due[guestJob[g].token] = <<>>
    PROVE  MenuInv' /\ CartInv'
<1> DEFINE job == guestJob[g]
<1>1. /\ job \in GuestJob /\ IsGuestJob(job) /\ job.request \in Request
      /\ job.lines \in Seq(Line) /\ Fits(job.lines, Room(job.token))
      /\ Wanted(job) \in Nat /\ Asks(job.request) <= MaxAsked
  BY ServedGuest
<1>2. /\ Step(g, stage) /\ GuestsInv
      /\ stage \in {"find", "create", "load", "save", "reply", "order", "clear"}
  BY DEF CartInv
<1>3. PICK j \in GuestJob :
        /\ guestJob' = [guestJob EXCEPT ![g] = j]
        /\ j.at = stage /\ j.lines = job.lines /\ j.token = job.token
        /\ j.request = job.request /\ j.process = job.process
  BY <1>1, <1>2, StageSet
<1>4. stage \in {"create", "load"} => job.request.kind = "add"
  BY <1>1 DEF IsGuestJob, Away
<1>5. IsGuestJob(j)
  BY <1>1, <1>3, <1>4 DEF IsGuestJob
<1>6. Wanted(j) <= Wanted(job)
  <2>1. CASE stage \in {"create", "load"}
    BY <1>1, <1>3, <2>1 DEF Wanted
  <2>2. CASE stage = "clear"
    BY <1>1, <1>3, <2>2 DEF Wanted
  <2> QED
    BY <2>1, <2>2
<1>7. PICK s : s = job.token
  OBVIOUS
<1>8. j.token = s /\ Fits(j.lines, Room(s))
  BY <1>1, <1>3, <1>7
<1>9. /\ j.at \notin {"save", "order"}
      /\ faults' = 0 /\ Exact(s) => (j.at = "create" => due[s] = <<>>)
  BY <1>3, <1>7
<1>10. UNCHANGED <<redis, memory, now>>
  OBVIOUS
<1> QED
  BY <1>3, <1>5, <1>6, <1>7, <1>8, <1>9, <1>10, GuestGoesQuietly

(* The requests that read the cart, and those that end.                       *)
LEMMA GuestReadsKeep ==
    ASSUME MenuInv, CartInv, NEW g \in Guest,
           GetOrCreateCart(g) \/ Respond(g) \/ WriteOrder(g) \/ Vanish(g)
    PROVE  MenuInv' /\ CartInv'
<1>0. RowsInv
  BY DEF MenuInv
<1>1. CASE GetOrCreateCart(g)
  <2> DEFINE job == guestJob[g]
  <2>1. job.at = "find" /\ Serving(g)
    BY <1>1 DEF GetOrCreateCart, Serving
  <2>2. PICK how \in Outcome :
          /\ CacheGet(how)
          /\ Step(g, IF Found(job.process, job.token, how) = None THEN "create" ELSE "load")
    BY <1>1 DEF GetOrCreateCart
  <2>3. Stays
    BY <1>1 DEF GetOrCreateCart
  <2>4. /\ UNCHANGED <<redis, memory, now>>
        /\ faults' \in Nat /\ (faults' = 0 => faults = 0 /\ how = "done")
    BY <1>0, <2>2, CountedStep DEF CacheGet
  <2>5. PICK stage \in {"create", "load"} :
          /\ Step(g, stage)
          /\ stage = "create" => Found(job.process, job.token, how) = None
    BY <2>2
  <2>6. job.token \in SessionToken /\ job.process \in Process
    BY <2>1, ServedGuest
  <2>7. faults' = 0 /\ Exact(job.token) /\ stage = "create" => due[job.token] = <<>>
    BY <2>4, <2>5, <2>6, FoundCart DEF Exact
  <2> HIDE DEF job
  <2>8. stage \in {"create", "load", "clear"}
    OBVIOUS
  <2>9. guestJob[g].at \in {"find", "create"}
    BY <2>1 DEF job
  <2>10. faults' = 0 /\ Exact(guestJob[g].token) /\ stage = "create" => due[guestJob[g].token] = <<>>
    BY <2>7 DEF job
  <2> QED
    BY <2>1, <2>3, <2>4, <2>5, <2>8, <2>9, <2>10, StepKeeps
<1>2. CASE Respond(g)
  <2>1. Serving(g) /\ Leave(g) /\ Stays
    BY <1>2 DEF Respond, Serving
  <2>2. PICK how \in Outcome : CacheGet(how)
    BY <1>2 DEF Respond
  <2>3. UNCHANGED <<redis, memory, now>> /\ faults' \in Nat /\ (faults' = 0 => faults = 0)
    BY <1>0, <2>2, CountedStep DEF CacheGet
  <2> QED
    BY <2>1, <2>3, LeaveKeeps
<1>3. CASE WriteOrder(g)
  <2>1. Serving(g) /\ Step(g, "clear") /\ Stays
    BY <1>3 DEF WriteOrder, Serving
  <2>2. UNCHANGED <<redis, memory, now>> /\ faults' \in Nat /\ (faults' = 0 => faults = 0)
    BY <1>0, <1>3 DEF WriteOrder, cacheVars, RowsInv
  <2> QED
    BY <2>1, <2>2, StepKeeps
<1>4. CASE Vanish(g)
  <2>1. Serving(g) /\ Leave(g) /\ Stays
    BY <1>4 DEF Vanish
  <2>2. UNCHANGED <<redis, memory, now>> /\ faults' \in Nat /\ (faults' = 0 => faults = 0)
    BY <1>0, <1>4 DEF Vanish, cacheVars, RowsInv
  <2> QED
    BY <2>1, <2>2, LeaveKeeps
<1> QED
  BY <1>1, <1>2, <1>3, <1>4

(* The cart is read to be changed or ordered, or is not there.                *)
LEMMA LoadCartKeeps ==
    ASSUME MenuInv, CartInv, NEW g \in Guest, LoadCart(g)
    PROVE  MenuInv' /\ CartInv'
<1> DEFINE job == guestJob[g]
<1>1. job.at = "load" /\ Serving(g) /\ Stays
  BY DEF LoadCart, Serving
<1>2. /\ job \in GuestJob /\ IsGuestJob(job) /\ job.request \in Request
      /\ job.token \in SessionToken /\ job.process \in Process
      /\ Wanted(job) \in Nat /\ Asks(job.request) <= MaxAsked
  BY <1>1, ServedGuest
<1>3. job.request.kind \in {"add", "update", "remove", "checkout"}
  BY <1>1, <1>2 DEF IsGuestJob, Away
<1>4. PICK how \in Outcome :
        LET lines == Found(job.process, job.token, how)
        IN  /\ CacheGet(how)
            /\ IF lines = None \/ (job.request.kind = "checkout" /\ lines = <<>>)
                 THEN Leave(g)
                 ELSE guestJob' = [guestJob EXCEPT
                        ![g].at = IF job.request.kind = "checkout" THEN "order" ELSE "save",
                        ![g].lines = lines]
  BY DEF LoadCart
<1>5. RowsInv /\ GuestsInv
  BY DEF MenuInv, CartInv
<1>6. /\ UNCHANGED <<redis, memory, now>>
      /\ faults' \in Nat /\ (faults' = 0 => faults = 0 /\ how = "done")
  BY <1>4, <1>5, CountedStep DEF CacheGet
<1>7. CASE Leave(g)
  BY <1>1, <1>6, <1>7, LeaveKeeps
<1>8. CASE ~ Leave(g)
  <2>1. PICK stage, lines :
          /\ stage = IF job.request.kind = "checkout" THEN "order" ELSE "save"
          /\ lines = Found(job.process, job.token, how)
    OBVIOUS
  <2>2. StepWith(g, stage, lines) /\ lines # None
    BY <1>4, <1>8, <2>1 DEF StepWith
  <2>3. Fits(lines, Room(job.token)) /\ (how = "done" => Contents(job.token) = lines)
    BY <1>2, <2>1, <2>2, FoundCart
  <2>4. lines \in Seq(Line)
    BY <2>3 DEF Fits
  <2>5. /\ stage \in {"order", "save"}
        /\ stage \in {"find", "create", "load", "save", "reply", "order", "clear"}
    BY <2>1
  <2>6. PICK j \in GuestJob :
          /\ guestJob' = [guestJob EXCEPT ![g] = j]
          /\ j.at = stage /\ j.lines = lines /\ j.token = job.token
          /\ j.request = job.request /\ j.process = job.process
    <3>1. guestJob[g] \in GuestJob /\ GuestsInv
      BY <1>2, <1>5
    <3>2. StepWith(g, stage, lines) /\ lines \in Seq(Line)
      BY <2>2, <2>4
    <3>3. stage \in {"find", "create", "load", "save", "reply", "order", "clear"}
      BY <2>5
    <3>4. \E j \in GuestJob :
            /\ guestJob' = [guestJob EXCEPT ![g] = j]
            /\ j.at = stage /\ j.lines = lines /\ j.token = guestJob[g].token
            /\ j.request = guestJob[g].request /\ j.process = guestJob[g].process
      BY <3>1, <3>2, <3>3, StageAndLinesSet
    <3> QED
      BY <3>4
  <2>7. IsGuestJob(j)
    BY <1>2, <1>3, <2>1, <2>6 DEF IsGuestJob
  <2>8. Wanted(j) <= Wanted(job)
    BY <1>1, <1>2, <2>5, <2>6 DEF Wanted
  <2>9. PICK s : s = job.token
    OBVIOUS
  <2>10. j.token = s /\ Fits(j.lines, Room(s))
    BY <2>3, <2>6, <2>9
  <2>11. faults' = 0 /\ Exact(s) => j.at # "create" /\ j.lines = due[s]
    BY <1>6, <2>3, <2>5, <2>6, <2>9 DEF Exact
  <2> QED
    BY <1>1, <1>6, <2>6, <2>7, <2>8, <2>9, <2>10, <2>11, GuestGoesQuietly
<1> QED
  BY <1>7, <1>8

(* What has been put into Redis is there.                                     *)
LEMMA ContentsPut ==
    ASSUME RowsInv, NEW s \in SessionToken, NEW lines \in Seq(Line),
           redis'[s] = Timed(lines, CartTTL), now' = now
    PROVE  /\ Timed(lines, CartTTL) \in [value : Seq(Line), until : Nat]
           /\ Timed(lines, CartTTL).value = lines
           /\ Contents(s)' = lines
<1> DEFINE entry == Timed(lines, CartTTL)
<1>1. entry = [value |-> lines, until |-> now + CartTTL]
  BY DEF Timed
<1>2. now \in Nat /\ CartTTL \in Nat /\ CartTTL # 0
  BY CacheAssumption DEF RowsInv
<1>3. now + CartTTL \in Nat /\ now < now + CartTTL
  BY <1>2
<1>4. /\ entry \in [value : Seq(Line), until : Nat]
      /\ entry.value = lines /\ entry.until = now + CartTTL
  BY <1>1, <1>3
<1> HIDE DEF entry
<1>5. entry # None /\ lines # None
  BY <1>4, CartAssumption
<1>6. Kept'[s] = lines
  BY <1>3, <1>4, <1>5 DEF Kept, Key, entry
<1>7. Contents(s)' = lines
  BY <1>5, <1>6 DEF Contents
<1> QED
  BY <1>4, <1>7 DEF entry

(* What a call that puts a cart into the cache, or takes it out, leaves.      *)
LEMMA CartPut ==
    ASSUME RowsInv, NEW p, NEW s, NEW how, NEW lines,
           CacheSet(p, s, lines, CartTTL, how)
    PROVE  /\ Puts(p, s, Timed(lines, CartTTL)) /\ now' = now
           /\ faults' \in Nat /\ (faults' = 0 => faults = 0)
           /\ faults' = 0 => redis' = [redis EXCEPT ![s] = Timed(lines, CartTTL)]
<1>1. Counted(how) /\ now' = now
  BY DEF CacheSet
<1>2. /\ redis' = IF how = "lost" THEN redis ELSE [redis EXCEPT ![s] = Timed(lines, CartTTL)]
      /\ memory' = IF how = "done" THEN memory
                   ELSE [memory EXCEPT ![p][s] = Timed(lines, CartTTL)]
  BY DEF CacheSet
<1>3. faults' \in Nat /\ (faults' = 0 => faults = 0 /\ how = "done")
  BY <1>1, CountedStep
<1> QED
  BY <1>1, <1>2, <1>3 DEF Puts

(* A new cart is made.                                                        *)
LEMMA CreateCartKeeps ==
    ASSUME MenuInv, CartInv, NEW g \in Guest, CreateCart(g)
    PROVE  MenuInv' /\ CartInv'
<1>1. guestJob[g].at = "create" /\ Serving(g) /\ Step(g, "load") /\ Stays
  BY DEF CreateCart, Serving
<1>2. PICK s, p : s = guestJob[g].token /\ p = guestJob[g].process
  OBVIOUS
<1>3. /\ guestJob[g] \in GuestJob /\ IsGuestJob(guestJob[g])
      /\ s \in SessionToken /\ p \in Process
      /\ guestJob[g].lines \in Seq(Line) /\ Fits(guestJob[g].lines, Room(s))
      /\ Wanted(guestJob[g]) \in Nat /\ Fits(due[s], Room(s))
  BY <1>1, <1>2, ServedGuest
<1>4. RowsInv /\ GuestsInv /\ CacheShape
  BY DEF MenuInv, CartInv
<1>5. PICK how \in Outcome : CacheSet(p, s, <<>>, CartTTL, how)
  BY <1>2 DEF CreateCart
<1>6. PICK entry : entry = Timed(<<>>, CartTTL)
  OBVIOUS
<1>7. /\ Puts(p, s, entry) /\ now' = now
      /\ faults' \in Nat /\ (faults' = 0 => faults = 0)
      /\ faults' = 0 => redis' = [redis EXCEPT ![s] = entry]
  BY <1>4, <1>5, <1>6, CartPut
<1>8. CartEntryInv(entry, Room(s))
  <2>1. entry = [value |-> <<>>, until |-> now + CartTTL]
    BY <1>6 DEF Timed
  <2>2. now + CartTTL \in Nat
    BY <1>4, CacheAssumption DEF RowsInv
  <2>3. <<>> \in Seq(Line)
    BY EmptySeq
  <2>4. entry \in [value : Seq(Line), until : Nat] /\ entry.value = <<>>
    BY <2>1, <2>2, <2>3
  <2> QED
    BY <2>4, NoLines DEF CartEntryInv
<1>9. faults' = 0 => Contents(s)' = <<>>
  <2>1. faults' = 0 => redis'[s] = entry
    BY <1>3, <1>4, <1>7 DEF CacheShape, Key
  <2>2. <<>> \in Seq(Line)
    BY EmptySeq
  <2> QED
    BY <1>3, <1>4, <1>6, <1>7, <2>1, <2>2, ContentsPut
<1>10. PICK j \in GuestJob :
         /\ guestJob' = [guestJob EXCEPT ![g] = j]
         /\ j.at = "load" /\ j.lines = guestJob[g].lines /\ j.token = guestJob[g].token
         /\ j.request = guestJob[g].request /\ j.process = guestJob[g].process
  <2>1. "load" \in {"find", "create", "load", "save", "reply", "order", "clear"}
    OBVIOUS
  <2> QED
    BY <1>1, <1>3, <1>4, <2>1, StageSet
<1>11. IsGuestJob(j) /\ Wanted(j) <= Wanted(guestJob[g])
  BY <1>1, <1>3, <1>10 DEF IsGuestJob, Wanted, Away
<1>12. j.token = s /\ Fits(j.lines, Room(s))
  BY <1>2, <1>3, <1>10
<1>13. /\ UNCHANGED <<categories, items, menuJob, asked, raced>>
       /\ due' = [due EXCEPT ![s] = due[s]]
  BY <1>1, <1>4 DEF Stays, GuestsInv, menuVars
<1>14. faults' = 0 /\ Exact(s) => Contents(s)' = due[s]
  BY <1>1, <1>2, <1>9 DEF Exact
<1>15. j.at \notin {"create", "save", "order"}
  BY <1>10
<1> QED
  BY <1>1, <1>2, <1>3, <1>7, <1>8, <1>10, <1>11, <1>12, <1>13, <1>14, <1>15, GuestGoesOn

(* A cart is deleted.                                                         *)
LEMMA DeleteCartKeeps ==
    ASSUME MenuInv, CartInv, NEW g \in Guest, DeleteCart(g)
    PROVE  MenuInv' /\ CartInv'
<1>1. /\ guestJob[g].at = "clear" /\ Serving(g) /\ Leave(g)
      /\ UNCHANGED <<categories, items, menuJob, asked, raced>>
  BY DEF DeleteCart, Serving, menuVars
<1>2. PICK s, p : s = guestJob[g].token /\ p = guestJob[g].process
  OBVIOUS
<1>3. s \in SessionToken /\ p \in Process
  BY <1>1, <1>2, ServedGuest
<1>4. RowsInv /\ CacheShape
  BY DEF MenuInv
<1>5. PICK how \in Outcome : CacheDelete(p, s, how)
  BY <1>2 DEF DeleteCart
<1>6. /\ redis' = IF how = "lost" THEN redis ELSE [redis EXCEPT ![s] = None]
      /\ memory' = IF how = "done" THEN memory ELSE [memory EXCEPT ![p][s] = None]
      /\ Counted(how) /\ now' = now
  BY <1>5 DEF CacheDelete
<1>7. faults' \in Nat /\ (faults' = 0 => faults = 0 /\ how = "done")
  BY <1>4, <1>6, CountedStep
<1>8. Puts(p, s, None) /\ (faults' = 0 => redis' = [redis EXCEPT ![s] = None])
  BY <1>6, <1>7 DEF Puts
<1>9. faults' = 0 => Contents(s)' = <<>>
  BY <1>3, <1>4, <1>8 DEF Contents, Kept, Key, CacheShape
<1>10. /\ guestJob' = [guestJob EXCEPT ![g] = Away] /\ IsGuestJob(Away) /\ Away.at = "away"
       /\ due' = [due EXCEPT ![s] = <<>>]
  BY <1>2 DEF DeleteCart, Leave, IsGuestJob, Away
<1>11. CartEntryInv(None, Room(s)) /\ Fits(<<>>, Room(s))
  BY NoLines DEF CartEntryInv
<1> QED
  BY <1>1, <1>2, <1>6, <1>7, <1>8, <1>9, <1>10, <1>11, GuestGoesOn

(* A changed cart is saved: what was asked for is no longer owed.             *)
LEMMA SaveCartKeeps ==
    ASSUME MenuInv, CartInv, NEW g \in Guest, SaveCart(g)
    PROVE  MenuInv' /\ CartInv'
<1>1. /\ guestJob[g].at = "save" /\ Serving(g) /\ Step(g, "reply")
      /\ UNCHANGED <<categories, items, menuJob, asked, raced>>
  BY DEF SaveCart, Serving, menuVars
<1>2. PICK s, p, r, was : /\ s = guestJob[g].token /\ p = guestJob[g].process
                          /\ r = guestJob[g].request /\ was = guestJob[g].lines
  OBVIOUS
<1>3. /\ guestJob[g] \in GuestJob /\ IsGuestJob(guestJob[g])
      /\ s \in SessionToken /\ p \in Process /\ r \in Request
      /\ was \in Seq(Line) /\ Fits(was, Room(s)) /\ Room(s) \in Nat
      /\ Asks(r) <= MaxAsked /\ Fits(due[s], Room(s))
  BY <1>1, <1>2, ServedGuest
<1>4. RowsInv /\ GuestsInv /\ AskedInv /\ CacheShape
  BY DEF MenuInv, CartInv
<1>5. r.kind \in {"add", "update", "remove"}
  BY <1>1, <1>2, <1>3 DEF IsGuestJob, Away
<1>6. PICK q \in Nat : q = Asks(r) /\ q = Wanted(guestJob[g])
  BY <1>1, <1>2, <1>3, RequestAsks DEF Wanted
<1>7. PICK j \in GuestJob :
        /\ guestJob' = [guestJob EXCEPT ![g] = j]
        /\ j.at = "reply" /\ j.lines = was /\ j.token = s
        /\ j.request = r /\ j.process = p
  <2>1. "reply" \in {"find", "create", "load", "save", "reply", "order", "clear"}
    OBVIOUS
  <2> QED
    BY <1>1, <1>2, <1>3, <1>4, <2>1, StageSet
<1>8. IsGuestJob(j) /\ Wanted(j) = 0
  BY <1>3, <1>7 DEF IsGuestJob, Wanted
<1>9. \A x \in SessionToken : IsFiniteSet(Units(x)') /\ Owed(x)' \in Nat /\ Owed(x)' <= Owed(x)
  <2>1. j.token = guestJob[g].token /\ Wanted(j) <= Wanted(guestJob[g]) /\ Wanted(j) \in Nat
    BY <1>2, <1>6, <1>7, <1>8
  <2> QED
    BY <1>1, <1>4, <1>7, <2>1, OwedLess
<1>10. Owed(s)' + q <= Owed(s)
  <2>1. q <= MaxAsked
    BY <1>3, <1>6
  <2>2. Wanted(guestJob[g]) = q /\ guestJob[g].token = s
    BY <1>2, <1>6
  <2> QED
    BY <1>1, <1>3, <1>4, <1>7, <1>8, <2>1, <2>2, OwedSaved
<1>11. PICK room \in Nat : /\ room = Room(s) + q /\ room <= MaxAsked
                           /\ room + Owed(s)' <= asked[s] /\ Room(s) <= room
  <2>1. /\ Room(s) \in Nat /\ asked[s] \in Nat /\ Owed(s) \in Nat
        /\ Room(s) = asked[s] - Owed(s) /\ asked[s] <= MaxAsked /\ MaxAsked \in Nat
    BY <1>3, <1>4, RoomIsThere
  <2>2. Owed(s)' \in Nat
    BY <1>3, <1>9
  <2> QED
    BY <1>10, <2>1, <2>2
<1>12. PICK lines : lines = Changed(was, r)
  OBVIOUS
<1>13. Fits(lines, room)
  BY <1>3, <1>5, <1>6, <1>11, <1>12, ChangedFits
<1>14. Fits(Changed(due[s], r), room)
  BY <1>3, <1>5, <1>6, <1>11, ChangedFits
<1>15. PICK how \in Outcome : CacheSet(p, s, lines, CartTTL, how)
  BY <1>2, <1>12 DEF SaveCart
<1>16. PICK entry : entry = Timed(lines, CartTTL)
  OBVIOUS
<1>17. /\ Puts(p, s, entry) /\ now' = now
       /\ faults' \in Nat /\ (faults' = 0 => faults = 0)
       /\ faults' = 0 => redis' = [redis EXCEPT ![s] = entry]
  BY <1>4, <1>15, <1>16, CartPut
<1>18. CartEntryInv(entry, room)
  <2>1. entry = [value |-> lines, until |-> now + CartTTL]
    BY <1>16 DEF Timed
  <2>2. now + CartTTL \in Nat
    BY <1>4, CacheAssumption DEF RowsInv
  <2>3. lines \in Seq(Line)
    BY <1>13 DEF Fits
  <2>4. entry \in [value : Seq(Line), until : Nat] /\ entry.value = lines
    BY <2>1, <2>2, <2>3
  <2> QED
    BY <1>13, <2>4 DEF CartEntryInv
<1>19. faults' = 0 => Contents(s)' = lines
  <2>1. faults' = 0 => redis'[s] = entry
    BY <1>3, <1>4, <1>17 DEF CacheShape, Key
  <2>2. lines \in Seq(Line)
    BY <1>13 DEF Fits
  <2> QED
    BY <1>3, <1>4, <1>16, <1>17, <2>1, <2>2, ContentsPut
<1>20. PICK left : left = Changed(due[s], r)
  OBVIOUS
<1>21. due' = [due EXCEPT ![s] = left]
  BY <1>2, <1>20 DEF SaveCart
<1>22. faults' = 0 /\ Exact(s) => Contents(s)' = left
  BY <1>1, <1>2, <1>12, <1>19, <1>20 DEF Exact
<1>23. Fits(j.lines, room)
  BY <1>3, <1>7, <1>11, MoreRoom
<1>24. Fits(left, room)
  BY <1>14, <1>20
<1>25. j.at \notin {"create", "save", "order"}
  BY <1>7
<1>26. guestJob[g].token = s
  BY <1>2
<1> QED
  BY <1>1, <1>3, <1>7, <1>8, <1>9, <1>11, <1>17, <1>18, <1>21, <1>22, <1>23, <1>24, <1>25,
     <1>26, GuestGoes

(* A request begins: what it asks for is owed.                                *)
LEMMA BeginKeeps ==
    ASSUME MenuInv, CartInv, NEW g \in Guest, NEW p \in Process, NEW s \in SessionToken,
           NEW r \in Request, NEW stage \in {"find", "load", "clear"},
           stage = "find" => r.kind = "add",
           stage = "load" => r.kind \in {"add", "update", "remove", "checkout"},
           NEW q, q = Asks(r), Begin(g, p, s, r, stage, q)
    PROVE  MenuInv' /\ CartInv'
<1> DEFINE j == [at |-> stage, process |-> p, token |-> s, request |-> r, lines |-> <<>>]
<1>1. /\ ~ Serving(g) /\ asked[s] + q <= MaxAsked
      /\ guestJob' = [guestJob EXCEPT ![g] = j]
      /\ asked' = [asked EXCEPT ![s] = @ + q]
      /\ raced' = [raced EXCEPT ![s] = Others(g, s) \/ (@ /\ Kept[s] # None)]
      /\ due' = [due EXCEPT ![s] = IF Kept[s] = None /\ ~ Others(g, s) THEN <<>> ELSE @]
      /\ UNCHANGED <<categories, items, menuJob, redis, memory, faults, now>>
  BY DEF Begin, menuVars, cacheVars
<1>2. /\ j \in GuestJob /\ j.at = stage /\ j.token = s /\ j.lines = <<>> /\ j.request = r
  <2>1. <<>> \in Seq(Line)
    BY EmptySeq
  <2> QED
    BY <2>1 DEF GuestJob
<1> HIDE DEF j
<1>3. q \in Nat
  BY RequestAsks
<1>4. RowsInv /\ GuestsInv /\ AskedInv /\ HeldInv /\ ExactInv
  BY DEF MenuInv, CartInv
<1>5. \A x \in SessionToken :
        /\ Room(x) \in Nat /\ asked[x] \in Nat /\ Owed(x) \in Nat
        /\ Room(x) = asked[x] - Owed(x) /\ asked[x] <= MaxAsked /\ MaxAsked \in Nat
  BY <1>4, RoomIsThere
<1>6. IsGuestJob(j)
  <2>1. q <= MaxAsked
    BY <1>1, <1>3, <1>5
  <2> QED
    BY <1>2, <2>1 DEF IsGuestJob
<1>7. Wanted(j) \in Nat /\ Wanted(j) <= q
  BY <1>2, <1>3 DEF Wanted
<1>8. \A x \in SessionToken :
        /\ IsFiniteSet(Units(x)') /\ Owed(x)' \in Nat
        /\ Owed(x)' <= IF s = x THEN Owed(x) + q ELSE Owed(x)
  BY <1>1, <1>2, <1>3, <1>4, <1>7, OwedBegun
<1>9. \A x \in SessionToken : asked'[x] = IF x = s THEN asked[x] + q ELSE asked[x]
  BY <1>1, <1>4 DEF GuestsInv
<1>10. ASSUME NEW x \in SessionToken
       PROVE  /\ asked'[x] \in 0..MaxAsked /\ Owed(x)' <= asked'[x]
              /\ Room(x)' \in Nat /\ Room(x) <= Room(x)'
  <2>1. PICK a, o, n \in Nat : /\ a = asked[x] /\ o = Owed(x) /\ n = Owed(x)'
                              /\ Room(x) \in Nat /\ Room(x) = a - o /\ a <= MaxAsked
                              /\ MaxAsked \in Nat
    BY <1>5, <1>8
  <2>2. Room(x)' = asked'[x] - Owed(x)'
    BY DEF Room
  <2>3. CASE x = s
    <3>1. asked'[x] = a + q /\ a + q <= MaxAsked /\ n <= o + q
      BY <1>1, <1>8, <1>9, <2>1, <2>3
    <3> QED
      BY <1>3, <2>1, <2>2, <3>1
  <2>4. CASE x # s
    <3>1. asked'[x] = a /\ n <= o
      BY <1>8, <1>9, <2>1, <2>4
    <3> QED
      BY <2>1, <2>2, <3>1
  <2> QED
    BY <2>3, <2>4
<1>11. AskedInv'
  BY <1>8, <1>10 DEF AskedInv
<1>12. \A h \in Guest : guestJob'[h] = IF h = g THEN j ELSE guestJob[h]
  BY <1>1, <1>4 DEF GuestsInv
<1>13. GuestsInv'
  <2>1. \A h \in Guest : IsGuestJob(guestJob'[h])
    BY <1>4, <1>6, <1>12 DEF GuestsInv
  <2>2. \A h \in Guest : IsGuestJob(guestJob[h])'
    BY <2>1 DEF IsGuestJob, Asks
  <2> QED
    BY <1>1, <1>4, <2>2 DEF GuestsInv
<1>14. \A x \in SessionToken : due'[x] \in {due[x], <<>>} /\ (x # s => due'[x] = due[x])
  BY <1>1, <1>4 DEF GuestsInv
<1>15. HeldInv'
  <2>1. ASSUME NEW x \in SessionToken
        PROVE  /\ redis'[x] = redis[x]
               /\ \A i \in Process : memory'[i][x] = memory[i][x]
               /\ due'[x] = due[x] \/ Fits(due'[x], Room(x)')
               /\ \A h \in Guest : Serving(h)' /\ guestJob'[h].token = x =>
                    \/ /\ Serving(h) /\ guestJob[h].token = x
                       /\ guestJob'[h].lines = guestJob[h].lines
                    \/ Fits(guestJob'[h].lines, Room(x)')
    <3>1. Fits(<<>>, Room(x)')
      BY NoLines
    <3>2. \A h \in Guest : h # g => guestJob'[h] = guestJob[h] /\ (Serving(h)' => Serving(h))
      BY <1>12 DEF Serving
    <3>3. guestJob'[g].lines = <<>>
      BY <1>2, <1>12
    <3> QED
      BY <1>1, <1>14, <3>1, <3>2, <3>3
  <2> QED
    BY <1>4, <1>5, <1>10, <2>1, HeldStep
<1>16. ExactInv'
  <2> SUFFICES ASSUME faults' = 0, NEW x \in SessionToken, ~ raced'[x]
               PROVE  /\ \A h, i \in Guest :
                           Serving(h)' /\ guestJob'[h].token = x
                           /\ Serving(i)' /\ guestJob'[i].token = x => h = i
                      /\ Contents(x)' = due'[x]
                      /\ \A h \in Guest : Serving(h)' /\ guestJob'[h].token = x =>
                           /\ guestJob'[h].at = "create" => due'[x] = <<>>
                           /\ guestJob'[h].at \in {"save", "order"} =>
                                guestJob'[h].lines = due'[x]
    BY DEF ExactInv, Exact
  <2>1. Contents(x)' = Contents(x) /\ faults = 0
    BY <1>1, ContentsKept
  <2>2. CASE x = s
    <3>1. ~ Others(g, x) /\ (raced[x] => Kept[x] = None)
      BY <1>1, <1>4, <2>2 DEF GuestsInv
    <3>2. \A h \in Guest : Serving(h)' /\ guestJob'[h].token = x => h = g
      BY <1>12, <3>1 DEF Others, Serving
    <3>3. guestJob'[g].at \notin {"create", "save", "order"}
      BY <1>2, <1>12
    <3>4. due'[x] = IF Kept[x] = None THEN <<>> ELSE due[x]
      BY <1>1, <1>4, <2>2, <3>1 DEF GuestsInv
    <3>5. Contents(x) = due'[x]
      BY <1>4, <2>1, <3>1, <3>4 DEF ExactInv, Exact, Contents
    <3> QED
      BY <2>1, <3>2, <3>3, <3>5
  <2>3. CASE x # s
    <3>1. ~ raced[x] /\ due'[x] = due[x]
      BY <1>1, <1>4, <1>14, <2>3 DEF GuestsInv
    <3>2. Exact(x)
      BY <1>4, <2>1, <3>1 DEF ExactInv
    <3>3. \A h \in Guest : Serving(h)' /\ guestJob'[h].token = x =>
            Serving(h) /\ guestJob'[h] = guestJob[h]
      BY <1>2, <1>12, <2>3 DEF Serving
    <3> QED
      BY <2>1, <3>1, <3>2, <3>3 DEF Exact
  <2> QED
    BY <2>2, <2>3
<1>17. MenuInv'
  <2>1. Puts(p, s, None)
    BY <1>1 DEF Puts
  <2>2. /\ faults' \in Nat /\ (faults' = 0 => faults = 0)
        /\ UNCHANGED <<categories, items, menuJob>>
    BY <1>1, <1>4 DEF RowsInv
  <2> QED
    BY <2>1, <2>2, MenuAside
<1> QED
  BY <1>11, <1>13, <1>15, <1>16, <1>17 DEF CartInv

(* The five requests that guests make.                                        *)
LEMMA GuestRequestsKeep ==
    ASSUME MenuInv, CartInv, NEW g \in Guest, NEW p \in Process, NEW s \in SessionToken,
           \/ AddToCart(g, p, s) \/ UpdateCartItem(g, p, s) \/ RemoveCartItem(g, p, s)
           \/ ClearCart(g, p, s) \/ Checkout(g, p, s)
    PROVE  MenuInv' /\ CartInv'
<1>1. CASE AddToCart(g, p, s)
  <2>1. PICK i \in Item, options \in {Selected(named) : named \in Named}, q \in Quantity :
          /\ items[i] # None
          /\ Begin(g, p, s, [kind |-> "add", line |-> [item |-> i, options |-> options,
                                           quantity |-> q, price |-> items[i].price]],
                   "find", q)
    BY <1>1 DEF AddToCart
  <2>2. items[i].price \in Price
    <3>1. items[i] \in Row
      BY <2>1 DEF MenuInv, RowsInv
    <3> QED
      BY <3>1 DEF Row
  <2>3. PICK line :
          line = [item |-> i, options |-> options, quantity |-> q, price |-> items[i].price]
    OBVIOUS
  <2>4. line \in Ask /\ line.quantity = q
    BY <2>2, <2>3 DEF Ask
  <2>5. PICK r : r = [kind |-> "add", line |-> line]
    OBVIOUS
  <2>6. r \in Request /\ r.kind = "add" /\ Asks(r) = q
    BY <2>4, <2>5 DEF Request, Asks
  <2>7. Begin(g, p, s, r, "find", q)
    BY <2>1, <2>3, <2>5
  <2> QED
    BY <2>6, <2>7, BeginKeeps
<1>2. CASE UpdateCartItem(g, p, s)
  <2>1. PICK i \in Item, q \in Quantity \cup {0} :
          Begin(g, p, s, [kind |-> "update", item |-> i, quantity |-> q], "load", q)
    BY <1>2 DEF UpdateCartItem
  <2>2. PICK r : r = [kind |-> "update", item |-> i, quantity |-> q]
    OBVIOUS
  <2>3. r \in Request /\ r.kind = "update" /\ Asks(r) = q
    BY <2>2 DEF Request, Asks
  <2>4. Begin(g, p, s, r, "load", q)
    BY <2>1, <2>2
  <2> QED
    BY <2>3, <2>4, BeginKeeps
<1>3. CASE RemoveCartItem(g, p, s)
  <2>1. PICK i \in Item : Begin(g, p, s, [kind |-> "remove", item |-> i], "load", 0)
    BY <1>3 DEF RemoveCartItem
  <2>2. PICK r : r = [kind |-> "remove", item |-> i]
    OBVIOUS
  <2>3. r \in Request /\ r.kind = "remove" /\ Asks(r) = 0
    BY <2>2 DEF Request, Asks
  <2>4. Begin(g, p, s, r, "load", 0)
    BY <2>1, <2>2
  <2> QED
    BY <2>3, <2>4, BeginKeeps
<1>4. CASE ClearCart(g, p, s)
  <2>1. PICK r : r = [kind |-> "clear"]
    OBVIOUS
  <2>2. r \in Request /\ r.kind = "clear" /\ Asks(r) = 0
    BY <2>1 DEF Request, Asks
  <2>3. Begin(g, p, s, r, "clear", 0)
    BY <1>4, <2>1 DEF ClearCart
  <2> QED
    BY <2>2, <2>3, BeginKeeps
<1>5. CASE Checkout(g, p, s)
  <2>1. PICK r : r = [kind |-> "checkout"]
    OBVIOUS
  <2>2. r \in Request /\ r.kind = "checkout" /\ Asks(r) = 0
    BY <2>1 DEF Request, Asks
  <2>3. Begin(g, p, s, r, "load", 0)
    BY <1>5, <2>1 DEF Checkout
  <2> QED
    BY <2>2, <2>3, BeginKeeps
<1> QED
  BY <1>1, <1>2, <1>3, <1>4, <1>5

--------------------------------------------------------------------------------
(* Time, and steps of the menu                                                *)

(* There is as much room as before when no request asks or goes on.           *)
LEMMA RoomKept ==
    ASSUME UNCHANGED <<guestJob, asked>>, NEW s \in SessionToken
    PROVE  /\ Units(s)' = Units(s) /\ Owed(s)' = Owed(s) /\ Room(s)' = Room(s)
<1>1. Units(s)' = Units(s)
  BY DEF Units, Serving, Wanted, Asks
<1>2. Owed(s)' = Owed(s)
  BY <1>1 DEF Owed
<1> QED
  BY <1>1, <1>2 DEF Room

(* The same for all that depends on the requests.                             *)
LEMMA GuestsWait ==
    ASSUME CartInv, UNCHANGED <<guestJob, asked>>,
           due' = [s \in SessionToken |-> due'[s]], raced' = [s \in SessionToken |-> raced'[s]],
           \A s \in SessionToken :
             /\ redis'[s] \in {redis[s], None}
             /\ \A p \in Process : memory'[p][s] \in {memory[p][s], None}
             /\ due'[s] \in {due[s], <<>>}
    PROVE  GuestsInv' /\ AskedInv' /\ HeldInv'
<1>1. GuestsInv'
  <2>1. \A g \in Guest : IsGuestJob(guestJob[g])'
    BY DEF CartInv, GuestsInv, IsGuestJob, Asks
  <2> QED
    BY <2>1 DEF CartInv, GuestsInv
<1>2. AskedInv'
  BY RoomKept DEF CartInv, AskedInv
<1>3. HeldInv'
  <2>1. ASSUME NEW s \in SessionToken
        PROVE  /\ Room(s) \in Nat /\ Room(s)' \in Nat /\ Room(s) <= Room(s)'
               /\ redis'[s] = redis[s] \/ CartEntryInv(redis'[s], Room(s)')
               /\ \A p \in Process :
                    memory'[p][s] = memory[p][s] \/ CartEntryInv(memory'[p][s], Room(s)')
               /\ due'[s] = due[s] \/ Fits(due'[s], Room(s)')
               /\ \A g \in Guest : Serving(g)' /\ guestJob'[g].token = s =>
                    /\ Serving(g) /\ guestJob[g].token = s
                    /\ guestJob'[g].lines = guestJob[g].lines
    <3>1. Room(s) \in Nat /\ Room(s)' = Room(s)
      BY RoomIsThere, RoomKept DEF CartInv
    <3>2. CartEntryInv(None, Room(s)') /\ Fits(<<>>, Room(s)')
      BY NoLines DEF CartEntryInv
    <3>3. \A g \in Guest : Serving(g)' => Serving(g)
      BY DEF Serving
    <3> QED
      BY <3>1, <3>2, <3>3
  <2> QED
    BY <2>1, HeldStep DEF CartInv
<1> QED
  BY <1>1, <1>2, <1>3

(* What a guest's request is at, and its cart, are as they were.              *)
LEMMA ExactKept ==
    ASSUME NEW s \in SessionToken, Exact(s), guestJob' = guestJob,
           due'[s] = due[s], Contents(s)' = Contents(s)
    PROVE  Exact(s)'
BY DEF Exact, Serving

(* Time passes, and a cart may end.                                           *)
LEMMA CartTickKeeps ==
    ASSUME MenuInv, CartInv, CartTick
    PROVE  MenuInv' /\ CartInv'
<1>1. MenuInv'
  BY MenuTickKeeps DEF CartTick
<1>2. /\ Elapse /\ UNCHANGED <<guestJob, asked>>
      /\ raced' = [s \in SessionToken |->
                     raced[s] \/ (Ends(s) /\ \E g \in Guest : Serving(g) /\ guestJob[g].token = s)]
      /\ due' = [s \in SessionToken |-> IF Ends(s) THEN <<>> ELSE due[s]]
  BY DEF CartTick, MenuTick
<1>3. \A s \in SessionToken : s \in Key
  BY DEF Key
<1>4. /\ now' = now + 1 /\ faults' = faults
      /\ \A s \in SessionToken :
           redis'[s] = IF redis[s] # None /\ now + 1 < redis[s].until THEN redis[s] ELSE None
      /\ \A s \in SessionToken, p \in Process : memory'[p][s] \in {memory[p][s], None}
  BY <1>2, <1>3 DEF Elapse
<1>5. \A s \in SessionToken : due'[s] = IF Ends(s) THEN <<>> ELSE due[s]
  BY <1>2
<1>6. GuestsInv' /\ AskedInv' /\ HeldInv'
  <2>1. /\ due' = [s \in SessionToken |-> due'[s]] /\ raced' = [s \in SessionToken |-> raced'[s]]
    BY <1>2
  <2>2. \A s \in SessionToken :
          /\ redis'[s] \in {redis[s], None}
          /\ \A p \in Process : memory'[p][s] \in {memory[p][s], None}
          /\ due'[s] \in {due[s], <<>>}
    BY <1>4, <1>5
  <2> QED
    BY <1>2, <2>1, <2>2, GuestsWait
<1>7. ExactInv'
  <2> SUFFICES ASSUME faults' = 0, NEW s \in SessionToken, ~ raced'[s]
               PROVE  Exact(s)'
    BY DEF ExactInv
  <2>1. ~ raced[s] /\ (Ends(s) => \A g \in Guest : ~ (Serving(g) /\ guestJob[g].token = s))
    BY <1>2
  <2>2. Exact(s)
    BY <1>4, <2>1 DEF CartInv, ExactInv
  <2>3. now \in Nat /\ (redis[s] # None => redis[s].until \in Nat)
    BY DEF MenuInv, RowsInv, CartInv, HeldInv, CartEntryInv
  <2>4. /\ Kept[s] = IF redis[s] # None /\ now < redis[s].until THEN redis[s].value ELSE None
        /\ Kept'[s] = IF redis'[s] # None /\ now + 1 < redis'[s].until
                        THEN redis'[s].value ELSE None
    BY <1>3, <1>4 DEF Kept
  <2>5. CASE Ends(s)
    <3>1. redis[s].until <= now + 1 /\ redis[s] # None
      BY <2>3, <2>4, <2>5 DEF Ends
    <3>2. ~ (now + 1 < redis[s].until)
      BY <2>3, <3>1
    <3>3. redis'[s] = None
      BY <1>4, <3>2
    <3>4. Contents(s)' = <<>> /\ due'[s] = <<>>
      BY <1>5, <2>4, <2>5, <3>3 DEF Contents
    <3>5. \A g \in Guest : ~ (Serving(g)' /\ guestJob'[g].token = s)
      BY <1>2, <2>1, <2>5 DEF Serving
    <3> QED
      BY <3>4, <3>5 DEF Exact
  <2>6. CASE ~ Ends(s)
    <3>1. Contents(s)' = Contents(s)
      <4>1. CASE Kept[s] = None
        <5>1. redis'[s] = None
          <6>1. SUFFICES ASSUME redis[s] # None, now + 1 < redis[s].until
                         PROVE  FALSE
            BY <1>4
          <6>2. now < redis[s].until
            BY <2>3, <6>1
          <6>3. redis[s].value = None
            BY <2>4, <4>1, <6>1, <6>2
          <6>4. redis[s].value \in Seq(Line)
            BY <6>1 DEF CartInv, HeldInv, CartEntryInv, Fits
          <6> QED
            BY <6>3, <6>4, CartAssumption
        <5> QED
          BY <2>4, <4>1, <5>1 DEF Contents
      <4>2. CASE Kept[s] # None
        <5>1. redis[s] # None /\ ~ (now + 1 >= redis[s].until)
          BY <2>4, <2>6, <4>2 DEF Ends
        <5>2. now + 1 < redis[s].until /\ now < redis[s].until
          BY <2>3, <5>1
        <5>3. redis'[s] = redis[s]
          BY <1>4, <5>1, <5>2
        <5>4. Kept'[s] = Kept[s]
          BY <2>4, <5>1, <5>2, <5>3
        <5> QED
          BY <5>4 DEF Contents
      <4> QED
        BY <4>1, <4>2
    <3>2. due'[s] = due[s]
      BY <1>5, <2>6
    <3> QED
      BY <1>2, <2>2, <3>1, <3>2, ExactKept
  <2> QED
    BY <2>5, <2>6
<1> QED
  BY <1>1, <1>6, <1>7 DEF CartInv

(* Carts are as they were.                                                    *)
LEMMA CartsAside ==
    ASSUME CartInv, UNCHANGED <<cartVars, now>>, faults' = 0 => faults = 0,
           \A s \in SessionToken :
             redis'[s] = redis[s] /\ \A p \in Process : memory'[p][s] = memory[p][s]
    PROVE  CartInv'
<1>1. UNCHANGED <<guestJob, due, asked, raced, now>>
  BY DEF cartVars
<1>2. GuestsInv' /\ AskedInv' /\ HeldInv'
  <2>1. due' = [s \in SessionToken |-> due'[s]] /\ raced' = [s \in SessionToken |-> raced'[s]]
    BY <1>1 DEF CartInv, GuestsInv
  <2>2. \A s \in SessionToken :
          /\ redis'[s] \in {redis[s], None}
          /\ \A p \in Process : memory'[p][s] \in {memory[p][s], None}
          /\ due'[s] \in {due[s], <<>>}
    BY <1>1
  <2> QED
    BY <1>1, <2>1, <2>2, GuestsWait
<1>3. ExactInv'
  <2> SUFFICES ASSUME faults' = 0, NEW s \in SessionToken, ~ raced'[s]
               PROVE  Exact(s)'
    BY DEF ExactInv
  <2>1. Exact(s)
    BY <1>1 DEF CartInv, ExactInv
  <2>2. Contents(s)' = Contents(s)
    BY <1>1, ContentsKept
  <2> QED
    BY <1>1, <2>1, <2>2, ExactKept
<1> QED
  BY <1>2, <1>3 DEF CartInv

(* No request for the menu touches a cart.                                    *)
LEMMA MenuSparesCarts ==
    ASSUME MenuInv, NEW t \in Task, ListingStep(t) \/ ChangeStep(t) \/ RollBack(t)
    PROVE  /\ now' = now /\ (faults' = 0 => faults = 0)
           /\ \A s \in SessionToken :
                redis'[s] = redis[s] /\ \A p \in Process : memory'[p][s] = memory[p][s]
<1>0. \A s \in SessionToken : s \in Key /\ s \notin Listings
  BY CacheAssumption DEF Key, Listings
<1>1. RowsInv /\ CacheShape
  BY DEF MenuInv
<1>2. \A how : Counted(how) => (faults' = 0 => faults = 0)
  BY <1>1, CountedStep
<1>3. CASE UNCHANGED cacheVars
  BY <1>3 DEF cacheVars
<1>4. CASE \E how : CacheGet(how)
  BY <1>2, <1>4 DEF CacheGet
<1>5. CASE StoreListing(t)
  <2>1. PICK how \in Outcome : CacheSet(menuJob[t].process, menuJob[t].key, menuJob[t].copy, MenuTTL, how)
    BY <1>5 DEF StoreListing
  <2>2. menuJob[t].key \in Listings
    <3>1. Lists(t)
      BY <1>5 DEF StoreListing, Lists
    <3> QED
      BY <3>1, Stages DEF MenuInv, JobsInv, ListingJob
  <2>3. /\ \E e : redis' \in {redis, [redis EXCEPT ![menuJob[t].key] = e]}
        /\ \E e : memory' \in {memory, [memory EXCEPT ![menuJob[t].process][menuJob[t].key] = e]}
        /\ now' = now /\ Counted(how)
    BY <2>1 DEF CacheSet
  <2>4. \A s \in SessionToken : redis'[s] = redis[s]
    BY <1>0, <1>1, <2>2, <2>3 DEF CacheShape
  <2>5. ASSUME NEW s \in SessionToken, NEW p \in Process
        PROVE  memory'[p][s] = memory[p][s]
    <3>1. PICK e : memory' \in {memory, [memory EXCEPT ![menuJob[t].process][menuJob[t].key] = e]}
      BY <2>3
    <3>2. s # menuJob[t].key /\ s \in Key
      BY <1>0, <2>2
    <3>3. CASE memory' = [memory EXCEPT ![menuJob[t].process][menuJob[t].key] = e]
      BY <1>1, <3>2, <3>3 DEF CacheShape
    <3> QED
      BY <3>1, <3>3
  <2> QED
    BY <1>2, <2>3, <2>4, <2>5
<1>6. CASE \E how : CacheDeletePattern(how)
  <2>1. PICK how : CacheDeletePattern(how)
    BY <1>6
  <2>2. "menu:categories" \in Listings
    BY DEF Listings
  <2>3. \A s \in SessionToken : redis'[s] = redis[s]
    BY <1>0, <1>1, <2>1, <2>2 DEF CacheDeletePattern, CacheShape
  <2> QED
    BY <1>2, <2>1, <2>3 DEF CacheDeletePattern
<1>7. CASE Commit(t)
  <2>1. PICK cats, rows : /\ redis' = AgedCache(redis, cats, rows)
                          /\ memory' = [p \in Process |-> AgedCache(memory[p], cats, rows)]
                          /\ UNCHANGED <<faults, now>>
    BY <1>7 DEF Commit
  <2>2. \A cache : \A s \in SessionToken : AgedCache(cache, cats, rows)[s] = cache[s]
    BY <1>0 DEF AgedCache
  <2>3. \A s \in SessionToken : redis'[s] = redis[s]
    BY <2>1, <2>2
  <2>4. \A s \in SessionToken, p \in Process : memory'[p][s] = memory[p][s]
    BY <2>1, <2>2
  <2> QED
    BY <2>1, <2>3, <2>4
<1>8. CASE ListingStep(t)
  <2>1. CASE \E p \in Process, key \in Listings : StartListing(t, p, key)
    BY <1>4, <2>1 DEF StartListing
  <2>2. CASE ReadCategories(t) \/ ReadItems(t) \/ LoadItemModifiers(t) \/ Answer(t)
    BY <1>3, <2>2 DEF ReadCategories, ReadItems, LoadItemModifiers, Answer
  <2> QED
    BY <1>5, <1>8, <2>1, <2>2 DEF ListingStep
<1>9. CASE ChangeStep(t)
  <2>1. CASE CreateCategory(t) \/ UpdateCategory(t) \/ DeleteCategory(t)
    BY <1>3, <2>1 DEF CreateCategory, UpdateCategory, DeleteCategory, StartChange
  <2>2. CASE CreateItem(t) \/ UpdateItem(t) \/ AttachModifiers(t)
    BY <1>3, <2>2 DEF CreateItem, UpdateItem, AttachModifiers, StartChange
  <2>3. CASE Flush(t)
    BY <1>3, <2>3 DEF Flush
  <2>4. CASE Invalidate(t)
    BY <1>6, <2>4 DEF Invalidate
  <2> QED
    BY <1>7, <1>9, <2>1, <2>2, <2>3, <2>4 DEF ChangeStep
<1>10. CASE RollBack(t)
  BY <1>3, <1>10 DEF RollBack
<1> QED
  BY <1>8, <1>9, <1>10

--------------------------------------------------------------------------------
(* The invariant                                                              *)

diningVars == <<menuVars, cacheVars, cartVars>>

(* Nothing is kept and no one is served at first.                             *)
LEMMA DiningStarts ==
    ASSUME CacheInit, MenuInit, CartsInit
    PROVE  MenuInv /\ CartInv
<1>1. /\ redis = [k \in Key |-> None] /\ memory = [p \in Process |-> [k \in Key |-> None]]
      /\ faults = 0 /\ now = 0
      /\ categories = [c \in Category |-> "absent"] /\ items = [i \in Item |-> None]
      /\ menuJob = [t \in Task |-> Away]
      /\ guestJob = [g \in Guest |-> Away] /\ due = [s \in SessionToken |-> <<>>]
      /\ asked = [s \in SessionToken |-> 0] /\ raced = [s \in SessionToken |-> FALSE]
  BY DEF CacheInit, MenuInit, CartsInit
<1>2. Away.at = "away"
  BY DEF Away
<1>3. /\ \A k \in Listings : k \in Key
      /\ \A s \in SessionToken : s \in Key
  BY DEF Key, Listings
<1>4. RowsInv
  BY <1>1, CacheAssumption DEF RowsInv, MenuCategory
<1>5. CacheShape /\ CacheInv
  BY <1>1, <1>3 DEF CacheShape, CacheInv, EntryInv
<1>6. JobsInv
  BY <1>1, <1>2 DEF JobsInv, IsJob, Lists, Changes
<1>7. FreshInv
  BY <1>1, <1>3 DEF FreshInv, Listings
<1>8. \A g \in Guest : ~ Serving(g)
  BY <1>1, <1>2 DEF Serving
<1>9. GuestsInv
  BY <1>1 DEF GuestsInv, IsGuestJob
<1>10. \A s \in SessionToken : IsFiniteSet(Units(s)) /\ Owed(s) = 0 /\ Room(s) = 0
  <2> TAKE s \in SessionToken
  <2>1. Units(s) = {}
    BY <1>8 DEF Units
  <2>2. IsFiniteSet(Units(s)) /\ Owed(s) = 0
    BY <2>1, FS_EmptySet DEF Owed
  <2>3. asked[s] = 0
    BY <1>1
  <2> QED
    BY <2>2, <2>3 DEF Room
<1>11. AskedInv
  BY <1>1, <1>10, CartAssumption DEF AskedInv
<1>12. HeldInv
  BY <1>1, <1>3, <1>8, NoLines DEF HeldInv, CartEntryInv
<1>13. ExactInv
  <2>1. \A s \in SessionToken : Contents(s) = <<>> /\ due[s] = <<>>
    BY <1>1, <1>3 DEF Contents, Kept
  <2> QED
    BY <1>8, <2>1 DEF ExactInv, Exact
<1> QED
  BY <1>4, <1>5, <1>6, <1>7, <1>9, <1>11, <1>12, <1>13 DEF MenuInv, CartInv

(* Requests for the menu keep both.                                           *)
LEMMA MenuStepKeeps ==
    ASSUME MenuInv, CartInv, MenuStep
    PROVE  MenuInv' /\ CartInv'
<1>1. PICK t \in Task : ListingStep(t) \/ ChangeStep(t) \/ RollBack(t)
  BY DEF MenuStep
<1>2. MenuInv'
  <2>1. CASE ListingStep(t)
    BY <2>1, StartListingKeeps, ReadsKeep, StoreKeeps, EndKeeps DEF ListingStep
  <2>2. CASE ChangeStep(t)
    BY <2>2, RequestsKeep, FlushKeeps, InvalidateKeeps, CommitKeeps DEF ChangeStep
  <2>3. CASE RollBack(t)
    BY <2>3, EndKeeps
  <2> QED
    BY <1>1, <2>1, <2>2, <2>3
<1>3. /\ now' = now /\ (faults' = 0 => faults = 0)
      /\ \A s \in SessionToken :
           redis'[s] = redis[s] /\ \A p \in Process : memory'[p][s] = memory[p][s]
  BY <1>1, MenuSparesCarts
<1>4. cartVars' = cartVars
  BY DEF MenuStep
<1>5. CartInv'
  BY <1>3, <1>4, CartsAside
<1> QED
  BY <1>2, <1>5

(* And so do the steps of guests.                                             *)
LEMMA GuestStepKeeps ==
    ASSUME MenuInv, CartInv, NEW g \in Guest, GuestStep(g)
    PROVE  MenuInv' /\ CartInv'
<1>1. CASE \E p \in Process, s \in SessionToken :
             \/ AddToCart(g, p, s) \/ UpdateCartItem(g, p, s) \/ RemoveCartItem(g, p, s)
             \/ ClearCart(g, p, s) \/ Checkout(g, p, s)
  BY <1>1, GuestRequestsKeep
<1>2. CASE GetOrCreateCart(g) \/ Respond(g) \/ WriteOrder(g) \/ Vanish(g)
  BY <1>2, GuestReadsKeep
<1>3. CASE CreateCart(g)
  BY <1>3, CreateCartKeeps
<1>4. CASE LoadCart(g)
  BY <1>4, LoadCartKeeps
<1>5. CASE SaveCart(g)
  BY <1>5, SaveCartKeeps
<1>6. CASE DeleteCart(g)
  BY <1>6, DeleteCartKeeps
<1> QED
  BY <1>1, <1>2, <1>3, <1>4, <1>5, <1>6 DEF GuestStep

(* Nothing happens.                                                           *)
LEMMA DiningStutters ==
    ASSUME MenuInv, CartInv, UNCHANGED diningVars
    PROVE  MenuInv' /\ CartInv'
<1>1. /\ UNCHANGED <<categories, items, menuJob, redis, memory, faults, now>>
      /\ UNCHANGED <<cartVars, now>>
  BY DEF diningVars, menuVars, cacheVars
<1>2. MenuInv'
  <2>1. RowsInv' /\ CacheShape'
    BY <1>1 DEF MenuInv, RowsInv, CacheShape
  <2>2. CacheInv'
    BY <1>1 DEF MenuInv, CacheInv, EntryInv
  <2>3. JobsInv'
    BY <1>1 DEF MenuInv, JobsInv, IsJob, IsChange, ListingJob, Lists, Changes, ListingInv,
                ChangeInv, Quiet, Agrees, Active
  <2>4. FreshInv'
    BY <1>1 DEF MenuInv, FreshInv, Agrees
  <2> QED
    BY <2>1, <2>2, <2>3, <2>4 DEF MenuInv
<1>3. CartInv'
  BY <1>1, CartsAside
<1> QED
  BY <1>2, <1>3

(* Together                                                                   *)
LEMMA DiningStep ==
    ASSUME MenuInv, CartInv, [CartsNext]_diningVars
    PROVE  MenuInv' /\ CartInv'
<1>1. CASE \E g \in Guest : GuestStep(g)
  BY <1>1, GuestStepKeeps
<1>2. CASE CartTick
  BY <1>2, CartTickKeeps
<1>3. CASE MenuStep
  BY <1>3, MenuStepKeeps
<1>4. CASE UNCHANGED diningVars
  BY <1>4, DiningStutters
<1> QED
  BY <1>1, <1>2, <1>3, <1>4 DEF CartsNext

(* The invariant holds, whatever the menu, the guests and the cache do.       *)
THEOREM DiningInvariance == CartsSpec => [](MenuInv /\ CartInv)
<1>1. CacheInit /\ MenuInit /\ CartsInit => MenuInv /\ CartInv
  BY DiningStarts
<1>2. (MenuInv /\ CartInv) /\ [CartsNext]_diningVars => (MenuInv /\ CartInv)'
  BY DiningStep
<1> QED
  BY <1>1, <1>2, PTL DEF CartsSpec, diningVars

--------------------------------------------------------------------------------
(* What follows                                                               *)

(* Rows, listings and changes have their types.                               *)
THEOREM MenuTypes == CartsSpec => []MenuTypeOK
<1>1. MenuInv /\ CartInv => MenuTypeOK
  <2> SUFFICES ASSUME MenuInv
               PROVE  MenuTypeOK
    OBVIOUS
  <2>1. ASSUME NEW t \in Task
        PROVE  /\ Lists(t) => menuJob[t].copy \in Copy /\ menuJob[t].began \in 0..now
               /\ Busy(t) => Lists(t) \/ Changes(t)
    <3>1. IsJob(menuJob[t])
      BY DEF MenuInv, JobsInv
    <3>2. ASSUME Lists(t)
          PROVE  menuJob[t].copy \in Copy /\ menuJob[t].began \in 0..now
      <4>1. menuJob[t].copy \in Copy /\ menuJob[t].began \in 0..MaxTime
        BY <3>1, <3>2, Stages DEF ListingJob
      <4>2. menuJob[t].began <= now /\ now \in 0..MaxTime
        BY <3>2 DEF MenuInv, JobsInv, ListingInv, RowsInv
      <4> QED
        BY <4>1, <4>2, CacheAssumption
    <3> QED
      BY <3>1, <3>2, Stages
  <2> QED
    BY <2>1 DEF MenuTypeOK, MenuInv, RowsInv
<1> QED
  BY <1>1, DiningInvariance, PTL

(* Carts, what is due and what was asked for have their types.                *)
THEOREM CartsTypes == CartsSpec => []CartsTypeOK
<1>1. MenuInv /\ CartInv => CartsTypeOK
  <2> SUFFICES ASSUME CartInv
               PROVE  CartsTypeOK
    OBVIOUS
  <2>1. ASSUME NEW s \in SessionToken
        PROVE  Contents(s) \in Seq(Line) /\ due[s] \in Seq(Line) /\ asked[s] \in 0..MaxAsked
    <3>1. redis[s] # None => redis[s].value \in Seq(Line)
      BY DEF CartInv, HeldInv, CartEntryInv, Fits
    <3>2. Contents(s) \in Seq(Line)
      BY <3>1, EmptySeq DEF Contents, Kept, Key
    <3> QED
      BY <3>2 DEF CartInv, HeldInv, Fits, AskedInv
  <2>2. \A g \in Guest : Serving(g) => guestJob[g].lines \in Seq(Line)
    BY ServedGuest
  <2> QED
    BY <2>1, <2>2 DEF CartsTypeOK
<1> QED
  BY <1>1, DiningInvariance, PTL

(* No listing is answered that was out of date for longer than a listing is   *)
(* kept and takes to be made (menu.py 571-656, cache.py 29-80).               *)
THEOREM MenusAgeHolds == CartsSpec => []MenusAge
<1>1. MenuInv /\ CartInv => MenusAge
  BY DEF MenuInv, JobsInv, ListingInv, Lists, MenusAge
<1> QED
  BY <1>1, DiningInvariance, PTL

(* While Redis answers, the listing of categories in it is the menu as it is, *)
(* unless a change was under way when it was made (menu.py 42-44).            *)
THEOREM CategoriesFreshHolds == CartsSpec => []CategoriesFresh
<1>1. MenuInv /\ CartInv => CategoriesFresh
  <2> SUFFICES ASSUME MenuInv, faults = 0, Kept["menu:categories"] # None
               PROVE  \/ Kept["menu:categories"].raced
                      \/ Agrees(Kept["menu:categories"], categories, items)
    BY DEF CategoriesFresh
  <2>1. /\ redis["menu:categories"] # None
        /\ Kept["menu:categories"] = redis["menu:categories"].value
    BY DEF Kept, Key
  <2> QED
    BY <2>1 DEF MenuInv, FreshInv
<1> QED
  BY <1>1, DiningInvariance, PTL

(* A cart holds what the requests for it, one after the other, leave in it,   *)
(* and no copy of one has two lines for the same or more than was asked for   *)
(* (cart_service.py 63-144, cart.py 15-138).                                  *)
THEOREM CartsHoldRequestsHolds == CartsSpec => []CartsHoldRequests
<1>1. MenuInv /\ CartInv => CartsHoldRequests
  <2> SUFFICES ASSUME MenuInv, CartInv, NEW s \in SessionToken
               PROVE  /\ \A lines \in Copies(s) : Sound(lines, asked[s])
                      /\ ~ raced[s] /\ faults = 0 =>
                           /\ (\A g \in Guest : Serving(g) => guestJob[g].token # s)
                                => Contents(s) = due[s]
                           /\ \A g \in Guest : guestJob[g].at = "order" /\ guestJob[g].token = s
                                                 => guestJob[g].lines = due[s]
    BY DEF CartsHoldRequests
  <2>1. Room(s) \in Nat /\ asked[s] \in Nat /\ Room(s) <= asked[s]
    <3>1. /\ Room(s) \in Nat /\ asked[s] \in Nat /\ Owed(s) \in Nat
          /\ Room(s) = asked[s] - Owed(s)
      BY RoomIsThere DEF CartInv
    <3> QED
      BY <3>1
  <2>2. \A lines : Fits(lines, Room(s)) => Sound(lines, asked[s])
    BY <2>1, MoreRoom DEF Fits
  <2>3. \A lines \in Copies(s) : Fits(lines, Room(s))
    <3>1. Fits(Contents(s), Room(s))
      BY NoLines DEF Contents, Kept, Key, CartInv, HeldInv, CartEntryInv
    <3>2. \A p \in Process : Remembered(p)[s] # None => Fits(Remembered(p)[s], Room(s))
      BY DEF Remembered, Key, CartInv, HeldInv, CartEntryInv
    <3>3. \A g \in Guest : Serving(g) /\ guestJob[g].token = s => Fits(guestJob[g].lines, Room(s))
      BY DEF CartInv, HeldInv
    <3> QED
      BY <3>1, <3>2, <3>3 DEF Copies
  <2>4. ~ raced[s] /\ faults = 0 => Exact(s)
    BY DEF CartInv, ExactInv
  <2> QED
    BY <2>2, <2>3, <2>4 DEF Exact, Serving
<1> QED
  BY <1>1, DiningInvariance, PTL

--------------------------------------------------------------------------------
(* The menu, the carts and the tables together                                *)

(* Requests for a cart have overlapped or not.                                *)
RacesKnown == raced \in [SessionToken -> BOOLEAN]

(* Requests and time say of each cart whether they have.                      *)
LEMMA RacesStayKnown ==
    ASSUME RacesKnown, [CartsNext]_diningVars
    PROVE  RacesKnown'
<1>1. ASSUME NEW g \in Guest, NEW p, NEW s \in SessionToken, NEW request, NEW stage, NEW n,
             Begin(g, p, s, request, stage, n)
      PROVE  RacesKnown'
  <2>1. (Others(g, s) \/ (raced[s] /\ Kept[s] # None)) \in BOOLEAN
    OBVIOUS
  <2>2. raced' = [raced EXCEPT ![s] = Others(g, s) \/ (raced[s] /\ Kept[s] # None)]
    BY <1>1 DEF Begin
  <2> QED
    BY <2>1, <2>2 DEF RacesKnown
<1>2. CASE UNCHANGED raced
  BY <1>2 DEF RacesKnown
<1>3. ASSUME NEW g \in Guest, GuestStep(g)
      PROVE  RacesKnown'
  <2>1. ASSUME NEW p \in Process, NEW s \in SessionToken,
               \/ AddToCart(g, p, s) \/ UpdateCartItem(g, p, s) \/ RemoveCartItem(g, p, s)
               \/ ClearCart(g, p, s) \/ Checkout(g, p, s)
        PROVE  RacesKnown'
    BY <1>1, <2>1 DEF AddToCart, UpdateCartItem, RemoveCartItem, ClearCart, Checkout
  <2>2. CASE \/ GetOrCreateCart(g) \/ CreateCart(g) \/ LoadCart(g) \/ SaveCart(g)
             \/ Respond(g) \/ WriteOrder(g) \/ DeleteCart(g) \/ Vanish(g)
    BY <1>2, <2>2 DEF GetOrCreateCart, CreateCart, LoadCart, SaveCart, Respond, WriteOrder,
                      DeleteCart, Vanish, Stays
  <2> QED
    BY <1>3, <2>1, <2>2 DEF GuestStep
<1>4. CASE CartTick
  BY <1>4, Zenon DEF CartTick, RacesKnown
<1>5. CASE MenuStep
  BY <1>2, <1>5 DEF MenuStep, cartVars
<1>6. CASE UNCHANGED diningVars
  BY <1>2, <1>6 DEF diningVars, cartVars
<1> QED
  BY <1>3, <1>4, <1>5, <1>6 DEF CartsNext

(* Time that passes while there are no carts passes for carts too.            *)
LEMMA NoCartEnds ==
    ASSUME CartInv, RacesKnown, NoCarts, MenuTick, UNCHANGED cartVars
    PROVE  CartTick
<1>1. \A s \in SessionToken : ~ Ends(s)
  BY DEF NoCarts, Cached, Ends, Kept, Key
<1>2. \A s \in SessionToken : ~ raced[s]
  BY DEF NoCarts
<1>3. /\ raced = [s \in SessionToken |-> raced[s]]
      /\ \A s \in SessionToken : raced[s] \in BOOLEAN
  BY DEF RacesKnown
<1>4. due = [s \in SessionToken |-> due[s]]
  BY DEF CartInv, GuestsInv
<1>5. /\ raced' = raced /\ due' = due
      /\ UNCHANGED <<guestJob, asked>>
  BY DEF cartVars
<1>6. raced' = [s \in SessionToken |->
        raced[s] \/ (Ends(s) /\ \E g \in Guest : Serving(g) /\ guestJob[g].token = s)]
  <2>1. \A s \in SessionToken :
            raced[s] = (raced[s] \/ (Ends(s) /\ \E g \in Guest :
                                          Serving(g) /\ guestJob[g].token = s))
    BY <1>1, <1>2, <1>3
  <2> QED
    BY <1>3, <1>5, <2>1, Zenon
<1>7. due' = [s \in SessionToken |-> IF Ends(s) THEN <<>> ELSE due[s]]
  BY <1>1, <1>4, <1>5
<1> QED
  BY <1>5, <1>6, <1>7 DEF CartTick

(* A step of the composition is one of the menu and the carts, or none.       *)
LEMMA DiningStepsAreCarts ==
    ASSUME CartInv, RacesKnown, [MCNext]_<<menuVars, cacheVars, cartVars, tablesVars>>
    PROVE  [CartsNext]_diningVars
<1>1. CASE MenuPart
  <2>1. UNCHANGED cartVars /\ NoCarts
    BY <1>1 DEF MenuPart
  <2>2. ASSUME NEW t \in Task, ListingStep(t) \/ ChangeStep(t) \/ RollBack(t)
        PROVE  CartsNext
    BY <2>1, <2>2 DEF MenuStep, CartsNext
  <2>3. CASE MenuTick
    BY <2>1, <2>3, NoCartEnds DEF CartsNext
  <2> QED
    BY <1>1, <2>2, <2>3 DEF MenuPart
<1>2. CASE CartsPart
  <2>1. ASSUME NEW t \in Task, ItemStep(t), UNCHANGED cartVars
        PROVE  CartsNext
    BY <2>1 DEF ItemStep, ChangeStep, MenuStep, CartsNext
  <2> QED
    BY <1>2, <2>1 DEF CartsPart, CartsNext
<1>3. CASE UNCHANGED <<menuVars, cacheVars, cartVars>>
  BY <1>3 DEF diningVars
<1> QED
  BY <1>1, <1>2, <1>3 DEF MCNext

(* A step of the composition is one of the tables, or none.                   *)
LEMMA DiningStepsAreTables ==
    ASSUME [MCNext]_<<menuVars, cacheVars, cartVars, tablesVars>>
    PROVE  [TablesNext]_tablesVars
BY DEF MCNext, TablesPart

(* What is checked on the composition is behaviour of the menu and the carts  *)
(* (menu.py, cart.py) and behaviour of the tables (tables.py): looking at one *)
(* part at a time adds no step to any of them.                                *)
THEOREM DiningIsBoth == DiningSpec => CartsSpec /\ TablesSpec
<1>1. DiningInit => MenuInv /\ CartInv /\ RacesKnown
  BY DiningStarts DEF DiningInit, CartsInit, RacesKnown
<1>2. (MenuInv /\ CartInv /\ RacesKnown) /\ [CartsNext]_diningVars
      => (MenuInv /\ CartInv /\ RacesKnown)'
  BY DiningStep, RacesStayKnown
<1>3. (MenuInv /\ CartInv /\ RacesKnown) /\ [MCNext]_<<menuVars, cacheVars, cartVars, tablesVars>>
      => [CartsNext]_diningVars
  BY DiningStepsAreCarts
<1>4. [MCNext]_<<menuVars, cacheVars, cartVars, tablesVars>> => [TablesNext]_tablesVars
  BY DiningStepsAreTables
<1>5. DiningInit => CacheInit /\ MenuInit /\ CartsInit /\ TablesInit
  BY DEF DiningInit
<1> QED
  BY <1>1, <1>2, <1>3, <1>4, <1>5, PTL DEF DiningSpec, CartsSpec, TablesSpec, diningVars

(* Whatever the parts do beside one another, each keeps its types.            *)
THEOREM DiningTypes == DiningSpec => []TypeOK
<1>1. MenuTypeOK /\ CartsTypeOK /\ TablesTypeOK => TypeOK
  BY DEF TypeOK
<1> QED
  BY <1>1, DiningIsBoth, MenuTypes, CartsTypes, TablesTypes, PTL

================================================================================
