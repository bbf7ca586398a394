------------------------------- MODULE MCFiles -------------------------------
EXTENDS Files, TLC
CONSTANTS d1, d2, f1, f2, h1, h2, h3, k1, k2
MCChunking == d1 :> (f1 :> {h1} @@ f2 :> {h3}) @@ d2 :> (f1 :> {h2, h3} @@ f2 :> {h3})
MCLen == h1 :> 2 @@ h2 :> 1 @@ h3 :> 1
MCPinned == d1 :> {f1} @@ d2 :> {f1}
Users(a, b) == d1 :> a @@ d2 :> b
MCScenarios ==
    {[key |-> Users(k1, k1), adds |-> Users({f2}, {f1}), quota |-> 2,
      breaks |-> 1, overtaken |-> 1, crashes |-> 0, losses |-> 0, backups |-> 0],
     [key |-> Users(k1, k2), adds |-> Users({f2}, {f1}), quota |-> 2,
      breaks |-> 1, overtaken |-> 0, crashes |-> 0, losses |-> 0, backups |-> 0],
     [key |-> Users(k1, k2), adds |-> Users({f1}, {f1}), quota |-> 2,
      breaks |-> 0, overtaken |-> 0, crashes |-> 1, losses |-> 2, backups |-> 0],
     [key |-> Users(k1, k2), adds |-> Users({}, {f1, f2}), quota |-> 3,
      breaks |-> 0, overtaken |-> 0, crashes |-> 2, losses |-> 1, backups |-> 0],
     [key |-> Users(k1, k2), adds |-> Users({f2}, {}), quota |-> 2,
      breaks |-> 1, overtaken |-> 1, crashes |-> 1, losses |-> 0, backups |-> 1],
     [key |-> Users(k1, k2), adds |-> Users({f2}, {}), quota |-> 2,
      breaks |-> 0, overtaken |-> 0, crashes |-> 2, losses |-> 0, backups |-> 1],
     [key |-> Users(k1, k2), adds |-> Users({f1, f2}, {}), quota |-> 2,
      breaks |-> 1, overtaken |-> 0, crashes |-> 0, losses |-> 0, backups |-> 0]}
MCSees == k1 :> {f1, f2} @@ k2 :> {f1, f2}
==============================================================================
