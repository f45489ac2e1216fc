-------------------------------- MODULE Carts ---------------------------------
(* The carts of guests (app/services/cart_service.py and                      *)
(* app/api/v1/endpoints/cart.py): a cart is one value in the cache that each  *)
(* request reads, changes and writes whole, without a lock. An item comes     *)
(* from the menu with the price of that moment. Checkout reads the cart and   *)
(* deletes it; its order is the subject of OrderPayments.                     *)
EXTENDS Menu, SequencesExt

CONSTANTS
    Guest,      \* requests for carts that may be under way at once
    Option,     \* modifier options
    ModifierOf, \* the modifier of each
    Named,      \* lists of options that requests name
    Quantity,   \* that requests ask for
    MaxAsked    \* bound on the quantities that are asked of one cart

VARIABLES
    guestJob,   \* what each request is doing
    due,        \* history: the lines that the requests, one by one, leave
    asked,      \* history: how much was asked for in all
    raced       \* history: requests for the cart overlapped, or it ended under one

cartVars == <<guestJob, due, asked, raced>>

CartsInit ==
    /\ guestJob = [g \in Guest |-> Away]
    /\ due = [s \in SessionToken |-> <<>>]
    /\ asked = [s \in SessionToken |-> 0]
    /\ raced = [s \in SessionToken |-> FALSE]

(* The options that a list names, by modifier, each modifier's in the order   *)
(* of the list and as often as it names them.                                 *)
Selected(named) ==
    LET OfModifier(x) == SelectSeq(named, LAMBDA o : ModifierOf[o] = x)
    IN  {<<x, OfModifier(x)>> : x \in {ModifierOf[named[n]] : n \in DOMAIN named}}

Line == [item : Item, options : {Selected(named) : named \in Named},
         quantity : 1..MaxAsked, price : Price]

ASSUME CartAssumption ==
    /\ ModifierOf \in [Option -> Extra]
    /\ \A named \in Named : named \in Seq(Option)
    /\ Quantity \subseteq Nat \ {0} /\ MaxAsked \in Nat
    /\ None \notin Seq(Line)
    /\ None \notin [value : Seq(Line), until : Nat]

(*-----------------------------------------------------------------------------*)
(* What requests do to the lines of a cart.                                   *)
First(places) == CHOOSE n \in places : \A m \in places : n <= m

(* The same options in another order are not the same.                        *)
Same(a, b) == a.item = b.item /\ a.options = b.options

(* A line that is there already keeps its price.                              *)
AddItem(lines, line) ==
    LET there == {n \in DOMAIN lines : Same(lines[n], line)}
    IN  IF there = {} THEN Append(lines, line)
        ELSE [lines EXCEPT ![First(there)].quantity = @ + line.quantity]

(* Mutant: zero is a quantity like any other.                                 *)
UpdateItemAlways(lines, item, quantity) ==
    LET there == {n \in DOMAIN lines : lines[n].item = item}
    IN  IF there = {} THEN lines ELSE [lines EXCEPT ![First(there)].quantity = quantity]

(* Only the first line of the item is updated; zero takes it out.             *)
UpdateItemIn(lines, item, quantity) ==
    LET there == {n \in DOMAIN lines : lines[n].item = item}
    IN  IF there = {} THEN lines
        ELSE IF quantity = 0 THEN RemoveAt(lines, First(there))
        ELSE [lines EXCEPT ![First(there)].quantity = quantity]

RemoveItem(lines, item) ==
    LET stay == {n \in DOMAIN lines : lines[n].item # item}
        Place(n) == Cardinality({m \in stay : m <= n})
    IN  [k \in 1..Cardinality(stay) |-> lines[CHOOSE n \in stay : Place(n) = k]]

Changed(lines, request) ==
    CASE request.kind = "add" -> AddItem(lines, request.line)
      [] request.kind = "update" -> UpdateItemIn(lines, request.item, request.quantity)
      [] request.kind = "remove" -> RemoveItem(lines, request.item)

(*-----------------------------------------------------------------------------*)
Serving(g) == guestJob[g].at # "away"
Others(g, s) == \E h \in Guest \ {g} : Serving(h) /\ guestJob[h].token = s
Contents(s) == IF Kept[s] = None THEN <<>> ELSE Kept[s]

(* A request begins. The histories of a cart that has ended begin anew.       *)
Begin(g, p, s, request, stage, quantity) ==
    /\ ~Serving(g)
    /\ asked[s] + quantity <= MaxAsked
    /\ guestJob' = [guestJob EXCEPT ![g] =
         [at |-> stage, process |-> p, token |-> s, request |-> request, lines |-> <<>>]]
    /\ asked' = [asked EXCEPT ![s] = @ + quantity]
    /\ raced' = [raced EXCEPT ![s] = Others(g, s) \/ (@ /\ Kept[s] # None)]
    /\ due' = [due EXCEPT ![s] = IF Kept[s] = None /\ ~Others(g, s) THEN <<>> ELSE @]
    /\ UNCHANGED <<menuVars, cacheVars>>

(* The item is looked up before the cart: 404 if it cannot be had.            *)
AddToCart(g, p, s) == \E i \in Item, named \in Named, q \in Quantity :
    /\ items[i] # None
    /\ items[i].available
    /\ Begin(g, p, s, [kind |-> "add", line |-> [item |-> i, options |-> Selected(named),
                                                 quantity |-> q, price |-> items[i].price]],
             "find", q)

UpdateCartItem(g, p, s) == \E i \in Item, q \in Quantity \cup {0} :
    Begin(g, p, s, [kind |-> "update", item |-> i, quantity |-> q], "load", q)

RemoveCartItem(g, p, s) == \E i \in Item :
    Begin(g, p, s, [kind |-> "remove", item |-> i], "load", 0)

ClearCart(g, p, s) == Begin(g, p, s, [kind |-> "clear"], "clear", 0)
Checkout(g, p, s) == Begin(g, p, s, [kind |-> "checkout"], "load", 0)

Stays == UNCHANGED <<menuVars, due, asked, raced>>
Step(g, stage) == guestJob' = [guestJob EXCEPT ![g].at = stage]
Leave(g) == guestJob' = [guestJob EXCEPT ![g] = Away]

(* Mutant: a new cart is made for every item that is added.                   *)
GetOrCreateAnew(g) ==
    /\ guestJob[g].at = "find"
    /\ \E how \in Outcome : CacheGet(how)
    /\ Step(g, "create")
    /\ Stays

GetOrCreateCart(g) ==
    LET job == guestJob[g]
    IN  /\ job.at = "find"
        /\ \E how \in Outcome :
             /\ CacheGet(how)
             /\ Step(g, IF Found(job.process, job.token, how) = None THEN "create" ELSE "load")
        /\ Stays

CreateCart(g) ==
    LET job == guestJob[g]
    IN  /\ job.at = "create"
        /\ \E how \in Outcome : CacheSet(job.process, job.token, <<>>, CartTTL, how)
        /\ Step(g, "load")
        /\ Stays

(* The cart is read again by the method that changes it. Without a cart the   *)
(* request fails, as checkout does without a line.                            *)
LoadCart(g) ==
    LET job == guestJob[g]
    IN  /\ job.at = "load"
        /\ \E how \in Outcome :
             LET lines == Found(job.process, job.token, how)
             IN  /\ CacheGet(how)
                 /\ IF lines = None \/ (job.request.kind = "checkout" /\ lines = <<>>)
                      THEN Leave(g)
                      ELSE guestJob' = [guestJob EXCEPT
                             ![g].at = IF job.request.kind = "checkout" THEN "order" ELSE "save",
                             ![g].lines = lines]
        /\ Stays

SaveCart(g) ==
    LET job == guestJob[g]
        lines == Changed(job.lines, job.request)
    IN  /\ job.at = "save"
        /\ \E how \in Outcome : CacheSet(job.process, job.token, lines, CartTTL, how)
        /\ Step(g, "reply")
        /\ due' = [due EXCEPT ![job.token] = Changed(@, job.request)]
        /\ UNCHANGED <<menuVars, asked, raced>>

(* The response reads the cart once more, and fails if it is gone.            *)
Respond(g) ==
    /\ guestJob[g].at = "reply"
    /\ \E how \in Outcome : CacheGet(how)
    /\ Leave(g)
    /\ Stays

(* The order is written and paid for between the two (see OrderPayments).     *)
WriteOrder(g) ==
    /\ guestJob[g].at = "order"
    /\ Step(g, "clear")
    /\ UNCHANGED cacheVars
    /\ Stays

DeleteCart(g) ==
    LET job == guestJob[g]
    IN  /\ job.at = "clear"
        /\ \E how \in Outcome : CacheDelete(job.process, job.token, how)
        /\ Leave(g)
        /\ due' = [due EXCEPT ![job.token] = <<>>]
        /\ UNCHANGED <<menuVars, asked, raced>>

(* The process ends, or the request fails elsewhere.                          *)
Vanish(g) ==
    /\ Serving(g)
    /\ Leave(g)
    /\ UNCHANGED cacheVars
    /\ Stays

GuestStep(g) ==
    \/ \E p \in Process, s \in SessionToken :
         \/ AddToCart(g, p, s) \/ UpdateCartItem(g, p, s) \/ RemoveCartItem(g, p, s)
         \/ ClearCart(g, p, s) \/ Checkout(g, p, s)
    \/ GetOrCreateCart(g) \/ CreateCart(g) \/ LoadCart(g) \/ SaveCart(g) \/ Respond(g)
    \/ WriteOrder(g) \/ DeleteCart(g) \/ Vanish(g)

(* A cart ends unless it is written again in time.                            *)
Ends(s) == Kept[s] # None /\ now + 1 >= redis[s].until
CartTick ==
    /\ MenuTick
    /\ raced' = [s \in SessionToken |->
                   raced[s] \/ (Ends(s) /\ \E g \in Guest : Serving(g) /\ guestJob[g].token = s)]
    /\ due' = [s \in SessionToken |-> IF Ends(s) THEN <<>> ELSE due[s]]
    /\ UNCHANGED <<guestJob, asked>>

MenuStep ==
    /\ \E t \in Task : ListingStep(t) \/ ChangeStep(t) \/ RollBack(t)
    /\ UNCHANGED cartVars

CartsNext == (\E g \in Guest : GuestStep(g)) \/ CartTick \/ MenuStep

CartsSpec ==
    CacheInit /\ MenuInit /\ CartsInit /\ [][CartsNext]_<<menuVars, cacheVars, cartVars>>

(*-----------------------------------------------------------------------------*)
CartsTypeOK ==
    /\ \A s \in SessionToken :
         /\ Contents(s) \in Seq(Line) /\ due[s] \in Seq(Line)
         /\ asked[s] \in 0..MaxAsked
    /\ \A g \in Guest : Serving(g) => guestJob[g].lines \in Seq(Line)

Sound(lines, most) ==
    \A n \in DOMAIN lines :
        /\ lines[n].quantity <= most
        /\ \A m \in DOMAIN lines \ {n} : ~Same(lines[m], lines[n])
Copies(s) ==
    {Contents(s)}
    \cup {Remembered(p)[s] : p \in {q \in Process : Remembered(q)[s] # None}}
    \cup {guestJob[g].lines : g \in {h \in Guest : Serving(h) /\ guestJob[h].token = s}}

(* A cart holds what the requests for it, one after the other, leave in it,   *)
(* and that is what an order is made of, unless two of them overlapped, the   *)
(* cart ended under one, or Redis failed. Even then no copy of it, in Redis,  *)
(* in a process or in an order, has two lines for the same item with the same *)
(* options named in the same order, or more on a line than was asked for in   *)
(* all (cart_service.py 63-144, cart.py 15-138, order_service.py 77-186).     *)
CartsHoldRequests ==
    \A s \in SessionToken :
        /\ \A lines \in Copies(s) : Sound(lines, asked[s])
        /\ ~raced[s] /\ faults = 0 =>
             /\ (\A g \in Guest : Serving(g) => guestJob[g].token # s) => Contents(s) = due[s]
             /\ \A g \in Guest : guestJob[g].at = "order" /\ guestJob[g].token = s
                                   => guestJob[g].lines = due[s]
================================================================================
