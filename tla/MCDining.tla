------------------------------ MODULE MCDining --------------------------------
EXTENDS Carts, Tables

CONSTANTS r1, r2, x1, mild, hot

(* Two options of one modifier, named in either order.                        *)
MCModifierOf == [o \in {mild, hot} |-> x1]
MCNamed == {<<mild, hot>>, <<hot, mild>>}

(* Tables share nothing with the menu and the carts; carts and listings only  *)
(* the rows of items. One part is looked at at a time.                        *)
Cached(key) == redis[key] # None \/ \E p \in Process : memory[p][key] # None
Listed(key) == Cached(key) \/ \E t \in Task : Lists(t) /\ menuJob[t].key = key
NoTables == /\ \A b \in Table : tables[b] = NoRow
            /\ codes = 0 /\ hour = 0
            /\ \A h \in Host : Free(h)
NoCarts == /\ \A g \in Guest : ~Serving(g)
           /\ \A s \in SessionToken : asked[s] = 0 /\ ~raced[s] /\ ~Cached(s)
NoListings == \A key \in Listings : ~Listed(key)
NoMenu == menuVars = <<[c \in Category |-> "absent"], [i \in Item |-> None], [t \in Task |-> Away]>>

(* One listing, of one kind, at a time: that of categories beside two changes *)
(* of items without modifiers, the public menu beside one change. Redis fails *)
(* only under the public menu, beside changes of an item in a category. A     *)
(* change in the last two ticks is too late for a copy to be kept too long.   *)
Plain == \A i \in Item : items[i] # None => items[i].extras = {}
SmallMenu ==
    /\ \E key \in Listings : ~Listed(key)
    /\ Listed("menu:categories") => Plain /\ now <= 1 /\ faults = 0
    /\ Listed("menu:public") => Cardinality({t \in Task : Changes(t)}) <= 1
    /\ now >= 2 => \A t \in Task : ~Changes(t)
    /\ faults > 0 =>
         /\ Listed("menu:public")
         /\ Plain
         /\ \A c \in Category : categories[c] = "active"
         /\ \A i \in Item : items[i] # None /\ items[i].category # None
         /\ \A t \in Task : Changes(t) => menuJob[t].cats = Nothing /\ menuJob[t].closes = None

(* Two requests for the cart, between changes of an item.                     *)
PlainMenu ==
    /\ \A c \in Category : categories[c] = "absent"
    /\ \A i \in Item : items[i] # None => items[i].category = None /\ items[i].extras = {}
    /\ \A t \in Task : ~Lists(t)
SmallCarts ==
    /\ now <= 1 /\ faults <= 1
    /\ faults = 1 => \A s \in SessionToken : asked[s] <= 2

(* Guests come while two codes have been made, and time only passes then; no  *)
(* table is reserved when there is a third code.                              *)
SmallTables ==
    /\ codes = 3 => /\ hour = 0 /\ \A s \in Scan : sessions[s] = NoRow
                    /\ \A b \in Table : tables[b] # NoRow => tables[b].status # "reserved"
                    /\ \A h \in Host : ~Works(h, {"scan"})
    /\ hour > 0 => \A h \in Host : ~Works(h, {"create", "regenerate", "update"})

DiningInit == CacheInit /\ MenuInit /\ CartsInit /\ TablesInit

ItemStep(t) == UpdateItem(t) \/ Flush(t) \/ Invalidate(t) \/ Commit(t)

MenuPart ==
    /\ NoCarts
    /\ UNCHANGED cartVars
    /\ \/ \E t \in Task : (\A u \in Task \ {t} : ~Lists(u)) /\ ListingStep(t)
       \/ \E t \in Task : ChangeStep(t) \/ RollBack(t)
       \/ MenuTick
    /\ SmallMenu'

CartsPart ==
    /\ NoListings /\ PlainMenu /\ \E i \in Item : items[i] # None
    /\ NoCarts => /\ now = 0 /\ faults = 0
                  /\ \A i \in Item : items[i] # None => items[i].available
    /\ \/ (\A t \in Task : ~Busy(t)) /\ (\E g \in Guest : GuestStep(g)) /\ SmallCarts'
       \/ ~NoCarts /\ CartTick /\ SmallCarts'
       \/ /\ ~NoCarts
          /\ \A g \in Guest : ~Serving(g)
          /\ \E t \in Task : (\A u \in Task \ {t} : ~Busy(u)) /\ ItemStep(t)
          /\ PlainMenu' /\ faults' <= 1
          /\ UNCHANGED cartVars

TablesPart == NoMenu /\ NoListings /\ NoCarts /\ now = 0 /\ TablesNext /\ SmallTables'

MCNext ==
    \/ NoTables /\ UNCHANGED tablesVars /\ MenuPart
    \/ NoTables /\ UNCHANGED tablesVars /\ CartsPart
    \/ UNCHANGED <<menuVars, cacheVars, cartVars>> /\ TablesPart

DiningSpec == DiningInit /\ [][MCNext]_<<menuVars, cacheVars, cartVars, tablesVars>>

(* The types of the three parts together.                                     *)
TypeOK == MenuTypeOK /\ CartsTypeOK /\ TablesTypeOK
Symmetry == Permutations({r1, r2})
================================================================================
