----------------------------- MODULE MCWorkspace -----------------------------
(* Two owners, and one person to invite.  One execution sees the commands  *)
(* of one agenda: two owners who demote, deactivate and revoke themselves  *)
(* and each other; one directory, or two of which one refers to the other; *)
(* or invitations.                                                         *)
EXTENDS Pages, TLC

CONSTANTS ana, bea, caro, a0, b0, i1, i2, e1, e2, t1, k1, k2, w1, w2, p1

MCUserOf == a0 :> ana @@ b0 :> bea
MCUserAt == p1 :> ana

SendIn(area, act, by, on, value, parent, version) ==
  [area |-> area, act |-> act, by |-> by, on |-> on, value |-> value, parent |-> parent,
   version |-> version]
Send(area, act, by, on, value, version) ==
  SendIn(area, act, by, on, value, Nothing, version)

Owners ==
  {Send("membership", "role", u, s, r, v) :
     u \in {ana, bea}, s \in {a0, b0}, r \in {"ADMIN", "OWNER"}, v \in {1, 2}} \cup
  {Send("membership", "revoke", u, s, Nothing, 1) : u \in {ana, bea}, s \in {a0, b0}} \cup
  {Send("membership", "status", ana, s, r, v) : s \in {a0, b0}, r \in Status, v \in {1, 2}}

Rows(area) ==
  {Send(area, "create", ana, Nothing, x, 0) :
     x \in IF area = "expense_category" THEN {NoCode} ELSE {t1, NoCode}} \cup
  (IF area = "expense_category" THEN {}
   ELSE {Send(area, "update", ana, e, x, 1) : e \in Entry, x \in {t1}}) \cup
  {Send(area, "status", bea, e, "INACTIVE", v) : e \in Entry, v \in {1, 2}} \cup
  {Send(area, "delete", bea, e, Nothing, v) : e \in Entry, v \in {1, 2}}

Catalog ==
  {Send("catalog_category", "create", ana, Nothing, NoCode, 0)} \cup
  {Send("catalog_category", "status", bea, e, "INACTIVE", 1) : e \in Entry} \cup
  {Send("catalog_category", "delete", bea, e, Nothing, v) : e \in Entry, v \in {1, 2}} \cup
  {SendIn("catalog_item", "create", ana, Nothing, t1, p, 0) : p \in Entry \cup {Nothing}} \cup
  {SendIn("catalog_item", "update", bea, e, Nothing, p, 1) :
     e \in Entry, p \in Entry \cup {Nothing}}

Registers ==
  {Send("branch", "create", ana, Nothing, NoCode, 0)} \cup
  {SendIn("cash_register", "create", ana, Nothing, t1, p, 0) : p \in Entry} \cup
  {Send("cash_register", "update", bea, e, t1, 1) : e \in Entry} \cup
  {Send("cash_register", "status", ana, e, "INACTIVE", v) : e \in Entry, v \in {1, 2}}

Spending ==
  Rows("expense_category") \cup
  {Send("organization", "currency", ana, Organization, Nothing, 1)}

Settings ==
  {Send("organization", act, u, Organization, Nothing, v) :
     act \in {"update", "timezone"}, u \in {ana, bea}, v \in {1, 2}}

Mails ==
  {Send("invitation", "create", ana, caro, "OWNER", 0)} \cup
  {Send("invitation", act, ana, i, Nothing, 0) : act \in {"resend", "revoke"}, i \in Invitation}

Arrivals ==
  {Send("invitation", "create", ana, caro, r, 0) : r \in {"OWNER", "CASHIER"}} \cup
  {Send("membership", "revoke", caro, i, Nothing, 1) : i \in Invitation}

(* The rows there are when a page is opened.                               *)
OneOf(directory) == [NoRow EXCEPT !.directory = directory, !.status = "ACTIVE", !.version = 1]

(* ana has a page open: it sends one request while bea sends one command,  *)
(* or two of its own on the pages that wait as a whole.                    *)
Alone(page, rows) ==
  [page |-> page, rows |-> rows, invitations |-> {}, commands |-> {}, clicks |-> 2]
Beside(page, rows, act, on, value) ==
  [page |-> page, rows |-> rows, invitations |-> {},
   commands |-> {Send(page, act, bea, on, value, 1)}, clicks |-> 1]

Renames(area, e) == Beside(area, e :> OneOf(area), "update", e, Nothing)
Deactivates(area, e) == Beside(area, e :> OneOf(area), "status", e, "INACTIVE")
InBranch(b, r) == b :> OneOf("branch") @@ r :> [OneOf("cash_register") EXCEPT !.parent = b]

Opened ==
  {Alone(page, <<>>) : page \in {"branch", "organization", "membership"}} \cup
  {Alone("cash_register", e :> OneOf("branch")) : e \in Entry} \cup
  {Alone(area, e :> OneOf(area)) : e \in Entry, area \in {"expense_category", "catalog_category"}}
  \cup {Beside("organization", <<>>, "update", Organization, Nothing),
        Beside("cash_register", InBranch(e1, e2), "update", e2, Nothing),
        Beside("cash_register", InBranch(e2, e1), "update", e1, Nothing)} \cup
  {Beside("membership", <<>>, "role", s, "ADMIN") : s \in {a0, b0}} \cup
  {Renames(area, e) : area \in {"customer", "catalog_item", "catalog_category"}, e \in Entry} \cup
  {Deactivates(area, e) : area \in {"supplier", "expense_category"}, e \in Entry}

Unattended(commands, open) ==
  [commands |-> commands, invitations |-> open, rows |-> <<>>, page |-> "none", clicks |-> 0]

MCAgenda ==
  {Unattended(Arrivals, Invitation)} \cup
  {Unattended(Mails, {i}) : i \in Invitation} \cup
  {Unattended(commands, {}) :
     commands \in {Owners, Catalog, Registers, Settings, Rows("customer"), Spending}} \cup
  Opened
MCSymmetry ==
  UNION {Permutations(s) : s \in {Worker, Key, Entry, Invitation}}
=============================================================================
