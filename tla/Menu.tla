-------------------------------- MODULE Menu ----------------------------------
(* One merchant's menu: the categories and items that its staff change, each  *)
(* request in a database session of its own (app/api/v1/endpoints/menu.py),   *)
(* and the two listings that are kept in the cache. A change deletes the      *)
(* listing of categories from the cache before it is committed, and leaves    *)
(* the public menu there until its time is over.                              *)
EXTENDS Cache

CONSTANTS
    Category, Item, Extra,   \* rows: categories, items, modifiers
    Price,
    Task                     \* requests for the menu that may be under way at once

VARIABLES
    categories,   \* committed: "absent", "active" or "hidden"
    items,        \* committed: None, or a row with its modifiers
    menuJob       \* what each request is doing

menuVars == <<categories, items, menuJob>>

Away == [at |-> "away"]

(* is_active says whether a category is hidden; none is ever deleted.         *)
MenuCategory == {"absent", "active", "hidden"}

(* The modifiers of an item. They and their options never change.             *)
ItemModifierLinks == SUBSET Extra

Row == [category : Category \cup {None}, price : Price, available : BOOLEAN,
        extras : ItemModifierLinks]

ASSUME MenuAssumption == None \notin Row

(* One entry; and some entries written over those that were there.            *)
Only(x, value) == [y \in {x} |-> value]
Over(change, before) ==
    [x \in DOMAIN change \cup DOMAIN before |-> IF x \in DOMAIN change THEN change[x] ELSE before[x]]

MenuInit ==
    /\ categories = [c \in Category |-> "absent"]
    /\ items = [i \in Item |-> None]
    /\ menuJob = [t \in Task |-> Away]

(*-----------------------------------------------------------------------------*)
(* Listings. A copy holds what the SELECTs of one listing returned so far.    *)
(* Two histories: "old" is the time since when the menu is another, and       *)
(* "raced" says that a change was under way while the copy was made.          *)
NoCopy == [cats |-> None, rows |-> None, extras |-> None, old |-> None, raced |-> FALSE]

Active(cats) == {c \in Category : cats[c] = "active"}
Offered(rows, cats) ==
    {<<i, rows[i].category, rows[i].price>> :
       i \in {j \in Item : rows[j] # None /\ rows[j].available /\ rows[j].category \in cats}}
ExtrasOf(rows, listed) == {<<r[1], rows[r[1]].extras>> : r \in listed}

(* Would the SELECTs that made the copy return the same of these rows?        *)
Agrees(copy, cats, rows) ==
    /\ copy.cats \in {None, Active(cats)}
    /\ copy.rows = None \/ copy.rows = Offered(rows, copy.cats)
    /\ copy.extras = None \/ copy.extras = ExtrasOf(rows, copy.rows)

Aged(copy, cats, rows) ==
    IF copy.old = None /\ ~Agrees(copy, cats, rows) THEN [copy EXCEPT !.old = now] ELSE copy

Listings == {"menu:categories", "menu:public"}
AgedCache(cache, cats, rows) ==
    [k \in Key |-> IF k \in Listings /\ cache[k] # None
                     THEN [cache[k] EXCEPT !.value = Aged(@, cats, rows)] ELSE cache[k]]

Busy(t) == menuJob[t].at # "away"
Lists(t) == menuJob[t].at \in {"categories", "items", "extras", "store", "answer"}
Reads(t) == Lists(t) /\ menuJob[t].at # "answer"
Changes(t) == menuJob[t].at \in {"flush", "invalidate", "commit"}

(* An empty list of categories is as good as none.                            *)
Usable(key, copy) ==
    copy # None /\ (key = "menu:categories" => copy.cats # {})

StartListing(t, p, key) ==
    /\ ~Busy(t)
    /\ \E how \in Outcome :
         LET copy == Found(p, key, how)
         IN  /\ CacheGet(how)
             /\ menuJob' = [menuJob EXCEPT ![t] =
                  [at |-> IF Usable(key, copy) THEN "answer" ELSE "categories",
                   key |-> key, process |-> p, began |-> now,
                   copy |-> IF Usable(key, copy) THEN copy
                            ELSE [NoCopy EXCEPT !.raced = \E u \in Task : Changes(u)]]]
    /\ UNCHANGED <<categories, items>>

Goes(t, stage, copy) == menuJob' = [menuJob EXCEPT ![t].at = stage, ![t].copy = copy]

ReadCategories(t) ==
    /\ menuJob[t].at = "categories"
    /\ Goes(t, "items", [menuJob[t].copy EXCEPT !.cats = Active(categories)])
    /\ UNCHANGED <<categories, items, cacheVars>>

ReadItems(t) ==
    LET job == menuJob[t]
    IN  /\ job.at = "items"
        /\ Goes(t, IF job.key = "menu:public" THEN "extras" ELSE "store",
                   [job.copy EXCEPT !.rows = Offered(items, job.copy.cats)])
        /\ UNCHANGED <<categories, items, cacheVars>>

LoadItemModifiers(t) ==
    LET job == menuJob[t]
    IN  /\ job.at = "extras"
        /\ Goes(t, "store", [job.copy EXCEPT !.extras = ExtrasOf(items, job.copy.rows)])
        /\ UNCHANGED <<categories, items, cacheVars>>

StoreListing(t) ==
    LET job == menuJob[t]
    IN  /\ job.at = "store"
        /\ \E how \in Outcome : CacheSet(job.process, job.key, job.copy, MenuTTL, how)
        /\ Goes(t, "answer", job.copy)
        /\ UNCHANGED <<categories, items>>

Answer(t) ==
    /\ menuJob[t].at = "answer"
    /\ menuJob' = [menuJob EXCEPT ![t] = Away]
    /\ UNCHANGED <<categories, items, cacheVars>>

(*-----------------------------------------------------------------------------*)
(* Changes. A request selects its row, writes what differs, deletes the       *)
(* listing from the cache, and is committed when it has been served. "cats"   *)
(* and "rows" are what it writes; "closes" a category whose items it hides.   *)
StartChange(t, cats, rows, closes) ==
    /\ ~Busy(t)
    /\ menuJob' = [u \in Task |->
         IF u = t THEN [at |-> "flush", cats |-> cats, rows |-> rows, closes |-> closes,
                        spared |-> {}]
         ELSE IF Reads(u) THEN [menuJob[u] EXCEPT !.copy.raced = TRUE] ELSE menuJob[u]]
    /\ UNCHANGED <<categories, items, cacheVars>>

Nothing == [x \in {} |-> x]
Unwritten(i) == items[i] = None /\ \A t \in Task : Changes(t) => i \notin DOMAIN menuJob[t].rows
Unmade(c) == categories[c] = "absent" /\ \A t \in Task : Changes(t) => c \notin DOMAIN menuJob[t].cats

CreateCategory(t) == \E c \in Category :
    Unmade(c) /\ StartChange(t, Only(c, "active"), Nothing, None)

(* What is set to what it was is not written.                                 *)
UpdateCategory(t) == \E c \in Category, status \in {"active", "hidden"} :
    /\ categories[c] # "absent"
    /\ StartChange(t, IF categories[c] = status THEN Nothing ELSE Only(c, status), Nothing, None)

DeleteCategory(t) == \E c \in Category :
    /\ categories[c] # "absent"
    /\ StartChange(t, IF categories[c] = "hidden" THEN Nothing ELSE Only(c, "hidden"), Nothing, c)

(* A new item can be ordered at once: the request has no field for that.      *)
ItemCreate == {row \in Row : row.available}

(* What a request may set, a field at a time.                                 *)
ItemUpdate == {Only("price", n) : n \in Price}
         \cup {Only("available", yes) : yes \in BOOLEAN}
         \cup {Only("category", c) : c \in {c \in Category : categories[c] # "absent"} \cup {None}}

CreateItem(t) == \E i \in Item, row \in ItemCreate :
    /\ Unwritten(i)
    /\ row.category # None => categories[row.category] # "absent"
    /\ StartChange(t, Nothing, Only(i, row), None)

UpdateItem(t) == \E i \in Item, row \in ItemUpdate :
    /\ items[i] # None
    /\ LET same == \A field \in DOMAIN row : items[i][field] = row[field]
       IN  StartChange(t, Nothing, Only(i, IF same THEN Nothing ELSE row), None)

(* The links are deleted and written again.                                   *)
AttachModifiers(t) == \E i \in Item, extras \in ItemModifierLinks :
    /\ items[i] # None
    /\ StartChange(t, Nothing, Only(i, Only("extras", extras)), None)

(* The rows of a request are locked from its flush to its end.                *)
Attaches(t, i) == /\ Changes(t) /\ i \in DOMAIN menuJob[t].rows /\ items[i] # None
                  /\ "extras" \in DOMAIN menuJob[t].rows[i]
Writes(t) == {i \in DOMAIN menuJob[t].rows : ~Attaches(t, i) /\ menuJob[t].rows[i] # Nothing}
Hides(job) ==
    IF job.closes = None THEN {}
    ELSE {i \in Item : items[i] # None /\ items[i].category = job.closes}
Flushed(t) == menuJob[t].at \in {"invalidate", "commit"}
Locked(t) ==
    \E u \in Task \ {t} :
        /\ Flushed(u)
        /\ \/ DOMAIN menuJob[u].cats \cap DOMAIN menuJob[t].cats # {}
           \/ Writes(u) \cap (Writes(t) \cup Hides(menuJob[t])) # {}
           \/ \E i \in Item : Attaches(u, i) /\ Attaches(t, i) /\ items[i].extras # {}

Flush(t) ==
    LET job == menuJob[t]
    IN  /\ job.at = "flush"
        /\ ~Locked(t)
        /\ menuJob' = [menuJob EXCEPT ![t].at = "invalidate",
             ![t].rows = Over([i \in Hides(job) |-> Only("available", FALSE)], job.rows)]
        /\ UNCHANGED <<categories, items, cacheVars>>

Invalidate(t) ==
    /\ menuJob[t].at = "invalidate"
    /\ \E how \in Outcome : CacheDeletePattern(how)
    /\ menuJob' = [menuJob EXCEPT ![t].at = "commit"]
    /\ UNCHANGED <<categories, items>>

(* The rows as the changes of a job leave them.                               *)
Merged(job) ==
    [i \in Item |->
       IF i \notin DOMAIN job.rows THEN items[i]
       ELSE IF items[i] = None THEN job.rows[i]
       ELSE LET row == Over(job.rows[i], items[i])
            IN  IF "extras" \in DOMAIN job.rows[i] THEN [row EXCEPT !.extras = @ \cup job.spared]
                ELSE row]

(* Two requests that write the links of one item: the second does not see,    *)
(* and so does not delete, the links of the first if it deleted before those  *)
(* were committed, or was waiting ("waits") to delete what the first deleted. *)
Spared(t, u, waits) ==
    \E i \in Item : /\ Attaches(t, i) /\ Attaches(u, i)
                    /\ Flushed(u) \/ (waits /\ items[i].extras # {})

(* What other requests know when one is committed.                            *)
Told(t, waits, cats, rows) ==
    [u \in Task |->
       IF u = t THEN Away
       ELSE IF Lists(u) THEN [menuJob[u] EXCEPT !.copy = Aged(@, cats, rows)]
       ELSE IF Changes(u) /\ Spared(t, u, waits)
              THEN [menuJob[u] EXCEPT !.spared = @ \cup UNION {rows[i].extras : i \in {j \in Item : Attaches(t, j)}}]
       ELSE menuJob[u]]

Commit(t) ==
    /\ menuJob[t].at = "commit"
    /\ LET cats == Over(menuJob[t].cats, categories)
           rows == Merged(menuJob[t])
       IN  /\ categories' = cats
           /\ items' = rows
           /\ redis' = AgedCache(redis, cats, rows)
           /\ memory' = [p \in Process |-> AgedCache(memory[p], cats, rows)]
           /\ \E waits \in BOOLEAN : menuJob' = Told(t, waits, cats, rows)
    /\ UNCHANGED <<faults, now>>

(* The request ends at any point and its session with it.                     *)
RollBack(t) ==
    /\ Busy(t)
    /\ menuJob' = [menuJob EXCEPT ![t] = Away]
    /\ UNCHANGED <<categories, items, cacheVars>>

ListingStep(t) ==
    \/ \E p \in Process, key \in Listings : StartListing(t, p, key)
    \/ ReadCategories(t) \/ ReadItems(t) \/ LoadItemModifiers(t) \/ StoreListing(t) \/ Answer(t)

ChangeStep(t) ==
    \/ CreateCategory(t) \/ UpdateCategory(t) \/ DeleteCategory(t)
    \/ CreateItem(t) \/ UpdateItem(t) \/ AttachModifiers(t)
    \/ Flush(t) \/ Invalidate(t) \/ Commit(t)

(* A listing takes less time than passes between two ticks.                   *)
MenuTick ==
    /\ \A t \in Task : Lists(t) => menuJob[t].began = now
    /\ Elapse
    /\ UNCHANGED menuVars

MenuNext == \/ \E t \in Task : ListingStep(t) \/ ChangeStep(t) \/ RollBack(t)
            \/ MenuTick

(*-----------------------------------------------------------------------------*)
Copy == [cats : (SUBSET Category) \cup {None},
         rows : (SUBSET (Item \X Category \X Price)) \cup {None},
         extras : (SUBSET (Item \X SUBSET Extra)) \cup {None},
         old : 0..MaxTime \cup {None}, raced : BOOLEAN]

MenuTypeOK ==
    /\ categories \in [Category -> MenuCategory]
    /\ items \in [Item -> Row \cup {None}]
    /\ \A t \in Task :
         /\ Lists(t) => menuJob[t].copy \in Copy /\ menuJob[t].began \in 0..now
         /\ Busy(t) => Lists(t) \/ Changes(t)

(* Whatever changes, fails or overlaps, no listing is answered that was out   *)
(* of date, when it was asked for, for longer than a listing is kept and      *)
(* takes to be made: not the public menu either, which no change takes out of *)
(* the cache, and not one from a process's memory (menu.py 571-656, cache.py  *)
(* 29-80).                                                                    *)
MenusAge ==
    \A t \in Task : menuJob[t].at = "answer" /\ menuJob[t].copy.old # None
                      => menuJob[t].began - menuJob[t].copy.old <= MenuTTL + 1

(* While Redis answers, the listing of categories in it shows the menu as it  *)
(* is, unless a change was under way when it was made: the deletion before    *)
(* the commit is too early only for those (menu.py 42-44, 120, 160, 206).     *)
CategoriesFresh ==
    LET copy == Kept["menu:categories"]
    IN  faults = 0 /\ copy # None => copy.raced \/ Agrees(copy, categories, items)
================================================================================
