----------------------------- MODULE MCService ------------------------------
(* An instance of Service for TLC. *)
EXTENDS Service, TLC, Sequences

CONSTANTS c1, c2, c3, c4, c5, usd, eur, shop

Plain(w) == [word |-> w, cased |-> FALSE, padded |-> FALSE]
Shouted(w) == [word |-> w, cased |-> TRUE, padded |-> FALSE]
Padded(w) == [word |-> w, cased |-> FALSE, padded |-> TRUE]

NamedFor(currency, domain) ==
    [d \in Dimensions |-> CASE d = "currency" -> currency
                            [] d = "domain" -> domain
                            [] OTHER -> Absent]

Intent(key, payment, amount, names, at) ==
    [key |-> key, payment |-> payment, agent |-> "agent", amount |-> amount,
     names |-> names, at |-> at]

At(day, time) == [weekday |-> day, time |-> time]
InShop == NamedFor(Plain(usd), Plain(shop))

\* Two equal requests, one with their key and a currency that no route lists
\* in that spelling, one that competes for the budget under a spelling of the
\* shop that only the second route serves, and one for nothing.
MCIntentOf ==
    c1 :> Intent("k1", "pay1", 3, InShop, At(0, 1)) @@
    c2 :> Intent("k1", "pay1", 3, InShop, At(0, 3)) @@
    c3 :> Intent("k1", "pay1", 3, NamedFor(Shouted(usd), Plain(shop)), At(0, 1)) @@
    c4 :> Intent("k2", "pay2", 5, NamedFor(Plain(usd), Padded(shop)), At(6, 3)) @@
    c5 :> Intent("k3", "pay3", 0, NamedFor(Plain(eur), Plain(shop)), Absent)

MCRoutes ==
    <<[rail |-> "card", domains |-> {Plain(shop)}, currencies |-> {Plain(usd)}],
      [rail |-> "wallet", domains |-> {}, currencies |-> {Plain(usd), Plain(eur)}]>>

Open == [limit |-> 9, approval |-> Absent, notify |-> Absent,
         allow |-> [d \in Dimensions |-> Absent],
         deny |-> [d \in Dimensions |-> {}],
         weekdays |-> Absent, start |-> Absent, end |-> Absent]

MCRulebooks ==
    {Open,
     [Open EXCEPT !.limit = 0],
     [Open EXCEPT !.limit = 4, !.notify = 2, !.end = 2],
     [Open EXCEPT !.approval = 4, !.notify = 1,
                  !.deny["currency"] = {Shouted(usd)},
                  !.deny["domain"] = {Padded(eur)}],
     [Open EXCEPT !.approval = 2, !.notify = 4, !.start = 3, !.end = 1],
     [Open EXCEPT !.start = 1, !.end = 2, !.weekdays = {0},
                  !.deny["region"] = {Plain(shop)}],
     [Open EXCEPT !.start = 2, !.weekdays = {0, 6},
                  !.deny["currency"] = {Padded(usd)}],
     [Open EXCEPT !.start = 3, !.end = 1,
                  !.allow["currency"] = {Shouted(usd)}],
     [Open EXCEPT !.deny["domain"] = {Padded(shop)}],
     [Open EXCEPT !.allow["category"] = {Plain(shop)}]}
=============================================================================
