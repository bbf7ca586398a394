------------------------------- MODULE MCRelay --------------------------------
EXTENDS Relay

CONSTANTS p1, p2, m1, m2, l1

\* Nothing happens but what a scenario adds.
Calm ==
    [present |-> {}, pages |-> Pages, started |-> Pages,
     window |-> 1, may |-> [p \in Pages |-> {}], each |-> 1, foreign |-> {},
     commits |-> 0, refusals |-> 0, outages |-> 0, stale |-> {}, drops |-> 0, deaths |-> 0]

Ins(keys) == [op |-> "ins", keys |-> keys]
Del(keys) == [op |-> "del", keys |-> keys]

\* The first page writes; the second, when it is there, writes or only reads.
May(first, second) == [p \in Pages |-> IF p = p1 THEN first ELSE second]

\* Two pages at one row, one write refused by the server.
Contended == [Calm EXCEPT !.may = May({Ins({m1}), Del({m1})}, {Ins({m1})}), !.each = 2,
                          !.refusals = 1]

\* One page, and its worker replaced twice.
Alone == [Calm EXCEPT !.pages = {p1}, !.started = {p1}]
Replaced == [Alone EXCEPT !.may = May({Ins({m1}), Ins({l1})}, {}), !.each = 2, !.deaths = 2,
                          !.refusals = 1]

\* Its tab reaped, after writes to either tier and to both at once.
Reaped == [Alone EXCEPT !.may = May({Ins({m1}), Ins({l1}), Ins({m2, l1})}, {}), !.each = 2,
                        !.drops = 1, !.foreign = {Ins({m1})}, !.commits = 1]

\* Two pages at a row of the device's own.
Private == [Calm EXCEPT !.may = May({Ins({l1}), Del({l1})}, {Ins({l1})}), !.each = 2]

\* Rows change elsewhere while the link is lost, and the worker resynchronises.
Resynced == [Alone EXCEPT !.present = {m1, l1}, !.may = May({Ins({m2}), Del({m1})}, {}),
                          !.foreign = {Del({m1}), Ins({m1})}, !.commits = 2, !.outages = 1,
                          !.stale = {"retention", "history"}]

\* A page arrives while the other writes.
Joining == [Calm EXCEPT !.present = {m1, l1}, !.started = {p1},
                        !.may = May({Ins({m2}), Del({l1})}, {Del({m1})}),
                        !.foreign = {Del({m1})}, !.commits = 1]

MCScenarios == {Contended, Replaced, Reaped, Private, Resynced, Joining}
===============================================================================
