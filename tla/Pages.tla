------------------------------- MODULE Pages -------------------------------
(***************************************************************************)
(* The pages of the back office, open in browser tabs while others send    *)
(* commands of their own.  A page shows the list its query last received   *)
(* (TanStack Query), keeps forms that were filled from it, and sends each  *)
(* change with the version the list shows and an idempotency key of its    *)
(* own; when the answer comes it closes the form and asks for the list     *)
(* again.                                                                  *)
(*                                                                         *)
(* A page offers its buttons by the role it was loaded with; what a        *)
(* demoted owner's page still offers, the server refuses.  Invitations,    *)
(* payment methods and the deactivation of a branch are left out, and so   *)
(* are the lists longer than one page of the server's answer.              *)
(***************************************************************************)
EXTENDS Workspace

CONSTANTS
  Tab,       \* browser tabs
  UserAt     \* whose they are

VARIABLES
  lists,     \* what the page of a tab shows, Nothing while it shows no list
  fetches,   \* the query of a tab: the list it has asked the server for
  editors,   \* of each row shown: its open forms, the version that filled
             \* them, and the request whose answer its buttons wait for
  occupied,  \* the request the buttons of the whole page wait for
  requests   \* what the tabs have sent; bound: offered.clicks of them

pageVars == <<lists, fetches, editors, occupied, requests>>

ASSUME PagesAssumption ==
  /\ UserAt \in [Tab -> User]
  /\ Nothing \notin [{Organization} -> [status: Status \cup {"ABSENT", "DELETED"}, version: Nat]]

Idle == [step |-> "IDLE", rows |-> <<>>]
Asked == [step |-> "ASKED", rows |-> <<>>]

Fresh(row) == [open |-> {}, filled |-> row.version, waiting |-> Nothing]

PagesInit ==
  /\ WorkspaceInit
  /\ lists = [t \in Tab |-> Nothing]
  /\ fetches = [t \in Tab |-> IF offered.page = "none" THEN Idle ELSE Asked]
  /\ editors = [t \in Tab |-> <<>>]
  /\ occupied = [t \in Tab |-> Nothing]
  /\ requests = {}

-----------------------------------------------------------------------------
(* The lists the server answers with: what is committed.                   *)
Listed(live) == [e \in live |-> [status |-> entries[e].status, version |-> entries[e].version]]
In(directory) == {e \in Entry : entries[e].directory = directory /\ entries[e].status \in Status}

ListCustomers == Listed(In("customer"))
ListSuppliers == Listed(In("supplier"))
ListExpenseCategories == Listed(In("expense_category"))
ReadManagedCategories == Listed(In("catalog_category"))
ReadManagedItems == Listed(In("catalog_item"))
ListRegisters == Listed(In("cash_register"))
ListBranches == Listed(In("branch"))
ReadSettings == Listed({Organization})

Visible(u) ==
  {s \in Seat : seats[s].status \in Status /\ (Holds(u, {"OWNER"}) \/ seats[s].role # "OWNER")}
ReadUsers(u) ==
  [s \in Visible(u) |-> [status |-> seats[s].status, version |-> seats[s].version]]

Answer(u) ==
  CASE offered.page = "customer" -> ListCustomers
    [] offered.page = "supplier" -> ListSuppliers
    [] offered.page = "expense_category" -> ListExpenseCategories
    [] offered.page = "catalog_category" -> ReadManagedCategories
    [] offered.page = "catalog_item" -> ReadManagedItems
    [] offered.page = "cash_register" -> ListRegisters
    [] offered.page = "branch" -> ListBranches
    [] offered.page = "organization" -> ReadSettings
    [] OTHER -> ReadUsers(u)

-----------------------------------------------------------------------------
(* The query of the page.  refetch() drops the fetch under way; the focus  *)
(* of the window and a new connection start one only when there is none.   *)

(* Mutated form: a refetch joins the fetch that is under way.              *)
JoinsFetch(fetch) == IF fetch.step = "IDLE" THEN Asked ELSE fetch

Refetched(fetch) == Asked

(* Revalidation, or "Reintentar" on a page that could not load.            *)
Ask(t) ==
  /\ offered.page # "none" /\ fetches[t].step = "IDLE"
  /\ fetches' = [fetches EXCEPT ![t] = Asked]
  /\ UNCHANGED <<lists, editors, occupied, requests>>

ServerAnswers(t) ==
  /\ fetches[t].step = "ASKED" /\ Holds(UserAt[t], Managers)
  /\ fetches' = [fetches EXCEPT ![t] = [step |-> "ANSWERED", rows |-> Answer(UserAt[t])]]
  /\ UNCHANGED <<lists, editors, occupied, requests>>

(* Mutated form: key={member.id}.                                          *)
KeepsById(t, e, row) == e \in DOMAIN editors[t]

(* React keeps the editor of a row it has shown before; on the page of     *)
(* users the key is the membership and its version.                        *)
KeepsEditor(t, e, row) ==
  /\ e \in DOMAIN editors[t]
  /\ offered.page = "membership" => editors[t][e].filled = row.version

(* The settings keep what they were first given.                           *)
Arrives(t) ==
  LET rows == fetches[t].rows IN
  /\ fetches[t].step = "ANSWERED"
  /\ fetches' = [fetches EXCEPT ![t] = Idle]
  /\ IF offered.page = "organization" /\ lists[t] # Nothing
     THEN UNCHANGED <<lists, editors>>
     ELSE /\ lists' = [lists EXCEPT ![t] = rows]
          /\ editors' = [editors EXCEPT ![t] =
               [e \in DOMAIN rows |->
                  IF KeepsEditor(t, e, rows[e]) THEN editors[t][e] ELSE Fresh(rows[e])]]
  /\ UNCHANGED <<occupied, requests>>

(* After one more try the page gives way to the error.                     *)
FetchFails(t) ==
  /\ fetches[t].step # "IDLE"
  /\ fetches' = [fetches EXCEPT ![t] = Idle]
  /\ lists' = [lists EXCEPT ![t] = Nothing]
  /\ editors' = [editors EXCEPT ![t] = <<>>]
  /\ occupied' = [occupied EXCEPT ![t] = Nothing]
  /\ UNCHANGED requests

-----------------------------------------------------------------------------
(* Requests.                                                               *)
Asks(t, act, on, value, parent) ==
  [area |-> offered.page, act |-> act, by |-> UserAt[t], on |-> on, value |-> value,
   parent |-> parent, version |-> IF on = Nothing THEN 0 ELSE lists[t][on].version]

Request(t, k, command, filled) ==
  /\ Cardinality(requests) < offered.clicks /\ \A r \in requests : r.key # k
  /\ requests' = requests \cup
       {[tab |-> t, key |-> k, command |-> command, filled |-> filled,
         outcome |-> "awaited", received |-> FALSE]}

Opposite(status) == IF status = "ACTIVE" THEN "INACTIVE" ELSE "ACTIVE"

(* A page that waits as a whole: the category pages, users and settings.   *)
SubmitPage(t, e, act, value) ==
  \E k \in Key :
    /\ occupied[t] = Nothing
    /\ Request(t, k, Asks(t, act, e, value, Nothing), editors[t][e].filled)
    /\ occupied' = [occupied EXCEPT ![t] = k]
    /\ UNCHANGED <<lists, fetches, editors>>

(* Each row of the others waits for itself.                                *)
SubmitRow(t, e, act, value) ==
  \E k \in Key :
    /\ editors[t][e].waiting = Nothing
    /\ Request(t, k, Asks(t, act, e, value, Nothing), editors[t][e].filled)
    /\ editors' = [editors EXCEPT ![t][e].waiting = k]
    /\ UNCHANGED <<lists, fetches, occupied>>

(* The form for a new row.                                                 *)
Create(t, parent) ==
  \E k \in Key :
    /\ lists[t] # Nothing /\ occupied[t] = Nothing
    /\ Request(t, k, Asks(t, "create", Nothing, NoCode, parent), 0)
    /\ occupied' = [occupied EXCEPT ![t] = k]
    /\ UNCHANGED <<lists, fetches, editors>>

(* Its key reaches the server at most once.                                *)
ServerReceives(r) ==
  /\ ~r.received
  /\ Begin(r.key, r.command) \/ BeginUnkeyed(r.key, r.command)
  /\ requests' = (requests \ {r}) \cup {[r EXCEPT !.received = TRUE]}
  /\ UNCHANGED <<lists, fetches, editors, occupied>>

Settled(r, outcome) ==
  /\ requests' = (requests \ {r}) \cup {[r EXCEPT !.outcome = outcome]}
  /\ occupied' = [occupied EXCEPT ![r.tab] = IF @ = r.key THEN Nothing ELSE @]

Answered(r, e) == editors[r.tab][e].waiting = r.key

(* A saved form closes, a new status leaves it as it is where no form asks *)
(* to confirm it; the category page also gives up the deletion it was      *)
(* asking to confirm.                                                      *)
Closed(r, e) ==
  LET open == editors[r.tab][e].open IN
  CASE offered.page \in {"catalog_category", "expense_category"} ->
         IF r.command.act = "update" THEN {} ELSE open \ {"delete"}
    [] Answered(r, e) /\ (r.command.act # "status" \/ offered.page = "cash_register") -> {}
    [] OTHER -> open

(* The settings take the version of the answer, and no list is asked for.  *)
SettingsSaved(r) ==
  /\ IF occupied[r.tab] = r.key
     THEN /\ lists' = [lists EXCEPT ![r.tab][Organization].version = r.command.version + 1]
          /\ editors' = [editors EXCEPT ![r.tab][Organization].filled = r.command.version + 1]
     ELSE UNCHANGED <<lists, editors>>
  /\ UNCHANGED fetches

Saved(r) ==
  /\ editors' = [editors EXCEPT ![r.tab] =
       [e \in DOMAIN editors[r.tab] |->
          [editors[r.tab][e] EXCEPT !.open = Closed(r, e),
                                    !.waiting = IF @ = r.key THEN Nothing ELSE @]]]
  /\ fetches' = [fetches EXCEPT ![r.tab] = Refetched(@)]
  /\ UNCHANGED lists

Carries(done, r) == done.key = r.key /\ done.command = r.command

Succeeds(r) ==
  /\ r.outcome = "awaited" /\ \E done \in ledger : Carries(done, r)
  /\ Settled(r, "done")
  /\ IF offered.page = "organization" THEN SettingsSaved(r) ELSE Saved(r)

(* Refused, or the connection lost, whatever the server does or has done.  *)
Fails(r) ==
  /\ r.outcome = "awaited"
  /\ Settled(r, "failed")
  /\ editors' = [editors EXCEPT ![r.tab] =
       [e \in DOMAIN editors[r.tab] |->
          [editors[r.tab][e] EXCEPT !.waiting = IF @ = r.key THEN Nothing ELSE @]]]
  /\ UNCHANGED <<lists, fetches>>

-----------------------------------------------------------------------------
(* The pages.                                                              *)
Shown(t) == IF lists[t] = Nothing THEN {} ELSE DOMAIN lists[t]
OpenAt(t, e, form) == form \in editors[t][e].open

SetOpen(t, e, open) ==
  /\ editors' = [editors EXCEPT ![t][e].open = open]
  /\ UNCHANGED <<lists, fetches, occupied, requests>>

(* "status" asks to confirm a deactivation.                                *)
Toggle(t, e, form) == SetOpen(t, e, IF OpenAt(t, e, form) THEN {} ELSE {form})

(* The row leaves the page, by the search box or when its details are      *)
(* folded, and comes back: its forms are filled anew.                      *)
Remount(t, e) ==
  /\ editors' = [editors EXCEPT ![t][e] = Fresh(lists[t][e])]
  /\ UNCHANGED <<lists, fetches, occupied, requests>>

CustomerRequests == {"create", "update", "status", "delete"}
SupplierRequests == CustomerRequests
ItemRequests == CustomerRequests \cup {"price", "structural"}
RegisterRequests == {"create", "update", "status"}
SettingsRequests == {"update", "timezone", "currency"}

CustomerPage(t) == offered.page = "customer" /\ Create(t, Nothing)
CustomerItemEditor(t, e) ==
  /\ offered.page = "customer"
  /\ \/ \E form \in CustomerRequests \ {"create", "status"} :
          Toggle(t, e, form) \/ (OpenAt(t, e, form) /\ SubmitRow(t, e, form, Nothing))
     \/ SubmitRow(t, e, "status", Opposite(lists[t][e].status))
     \/ Remount(t, e)

SupplierPage(t) == offered.page = "supplier" /\ Create(t, Nothing)
SupplierItemEditor(t, e) ==
  /\ offered.page = "supplier"
  /\ \/ \E form \in SupplierRequests \ {"create", "status"} :
          Toggle(t, e, form) \/ (OpenAt(t, e, form) /\ SubmitRow(t, e, form, Nothing))
     \/ SubmitRow(t, e, "status", Opposite(lists[t][e].status))
     \/ Remount(t, e)

CatalogItemPage(t) == offered.page = "catalog_item" /\ Create(t, Nothing)

(* The editor of an item opens with its forms filled from the list; "menu" *)
(* is the editor with no form.                                             *)
EditItem(t, e) ==
  /\ editors[t][e].waiting = Nothing
  /\ editors' = [editors EXCEPT ![t][e] =
       [Fresh(lists[t][e]) EXCEPT !.open = IF editors[t][e].open = {} THEN {"update"} ELSE {}]]
  /\ UNCHANGED <<lists, fetches, occupied, requests>>

ChooseItemForm(t, e, form) ==
  /\ editors[t][e].waiting = Nothing /\ editors[t][e].open # {}
  /\ SetOpen(t, e, IF OpenAt(t, e, form) THEN {"update"} ELSE {form})

ItemForms(t, e) ==
  \/ \E form \in ItemRequests \ {"create", "status"} :
       OpenAt(t, e, form) /\ SubmitRow(t, e, form, Nothing)
  \/ OpenAt(t, e, "delete") /\ editors[t][e].waiting = Nothing /\ SetOpen(t, e, {"menu"})

ItemEditor(t, e) ==
  /\ offered.page = "catalog_item"
  /\ \/ EditItem(t, e) \/ ItemForms(t, e) \/ Remount(t, e)
     \/ \E form \in ItemRequests \ {"create", "status"} : ChooseItemForm(t, e, form)
     \/ editors[t][e].open # {} /\ SubmitRow(t, e, "status", Opposite(lists[t][e].status))

(* The branch is the one selected in the header.                           *)
CashRegisterPage(t) ==
  /\ offered.page = "cash_register"
  /\ \E b \in Entry : entries[b].directory = "branch" /\ Create(t, b)
CashRegisterItemEditor(t, e) ==
  /\ offered.page = "cash_register"
  /\ \E form \in RegisterRequests \ {"create"} :
       \/ (form = "status" => lists[t][e].status = "ACTIVE") /\ Toggle(t, e, form)
       \/ /\ OpenAt(t, e, form)
          /\ SubmitRow(t, e, form, IF form = "status" THEN "INACTIVE" ELSE Nothing)

(* One row of the page is edited at a time, and one asked to be deleted.   *)
EditCategory(t, e) ==
  /\ occupied[t] = Nothing
  /\ editors' = [editors EXCEPT ![t] =
       [f \in DOMAIN editors[t] |->
          IF f = e THEN [Fresh(lists[t][e]) EXCEPT !.open = {"update"}]
          ELSE [editors[t][f] EXCEPT !.open = {}]]]
  /\ UNCHANGED <<lists, fetches, occupied, requests>>

CancelEdition(t, e) ==
  occupied[t] = Nothing /\ OpenAt(t, e, "update") /\ SetOpen(t, e, editors[t][e].open \ {"update"})

ConfirmCategory(t, chosen) ==
  /\ occupied[t] = Nothing
  /\ editors' = [editors EXCEPT ![t] =
       [f \in DOMAIN editors[t] |->
          [editors[t][f] EXCEPT !.open = (@ \ {"delete"}) \cup
                                          IF f = chosen THEN {"delete"} ELSE {}]]]
  /\ UNCHANGED <<lists, fetches, occupied, requests>>

CatalogCategoryManagement(t, e) ==
  \/ SubmitPage(t, e, "status", Opposite(lists[t][e].status))
  \/ ConfirmCategory(t, e)
  \/ OpenAt(t, e, "delete") /\ (SubmitPage(t, e, "delete", Nothing) \/ ConfirmCategory(t, Nothing))

CategoryPage(t) ==
  offered.page \in {"catalog_category", "expense_category"} /\ Create(t, Nothing)
CatalogCategoryRow(t, e) ==
  /\ offered.page = "catalog_category"
  /\ \/ CatalogCategoryManagement(t, e) \/ EditCategory(t, e) \/ CancelEdition(t, e)
     \/ OpenAt(t, e, "update") /\ SubmitPage(t, e, "update", Nothing)
ExpenseCategoryRow(t, e) ==
  offered.page = "expense_category" /\ CatalogCategoryManagement(t, e)

BranchPage(t) == offered.page = "branch" /\ Create(t, Nothing)

MemberEditor(t, e) ==
  /\ offered.page = "membership"
  /\ \/ /\ lists[t][e].status = "ACTIVE"
        /\ \/ \E role \in Role : SubmitPage(t, e, "role", role)
           \/ SubmitPage(t, e, "revoke", Nothing)
     \/ SubmitPage(t, e, "status", Opposite(lists[t][e].status))

(* "Volver a cargar", under the error of a refused request.                *)
ReloadUsers(t) ==
  /\ offered.page = "membership" /\ lists[t] # Nothing
  /\ \E r \in requests : r.tab = t /\ r.outcome = "failed"
  /\ fetches' = [fetches EXCEPT ![t] = Refetched(@)]
  /\ UNCHANGED <<lists, editors, occupied, requests>>

OrganizationSettings(t, e) ==
  /\ offered.page = "organization"
  /\ \E act \in SettingsRequests : SubmitPage(t, e, act, Nothing)

(* Its "Volver a cargar" reloads the window.                               *)
ReloadSettings(t) ==
  /\ offered.page = "organization" /\ lists[t] # Nothing
  /\ \E r \in requests : r.tab = t /\ r.outcome = "failed"
  /\ lists' = [lists EXCEPT ![t] = Nothing]
  /\ fetches' = [fetches EXCEPT ![t] = Asked]
  /\ editors' = [editors EXCEPT ![t] = <<>>]
  /\ occupied' = [occupied EXCEPT ![t] = Nothing]
  /\ UNCHANGED requests

PageForm(t) ==
  \/ CustomerPage(t) \/ SupplierPage(t) \/ CatalogItemPage(t) \/ CashRegisterPage(t)
  \/ CategoryPage(t) \/ BranchPage(t) \/ ReloadUsers(t) \/ ReloadSettings(t)

PageRow(t, e) ==
  \/ CustomerItemEditor(t, e) \/ SupplierItemEditor(t, e) \/ ItemEditor(t, e)
  \/ CashRegisterItemEditor(t, e) \/ CatalogCategoryRow(t, e) \/ ExpenseCategoryRow(t, e)
  \/ MemberEditor(t, e) \/ OrganizationSettings(t, e)

PageStep(t) ==
  \/ Ask(t) \/ ServerAnswers(t) \/ Arrives(t) \/ FetchFails(t)
  \/ PageForm(t) \/ \E e \in Shown(t) : PageRow(t, e)

PagesNext ==
  \/ WorkspaceNext /\ UNCHANGED pageVars
  \/ \E t \in Tab : PageStep(t) /\ UNCHANGED workspaceVars
  \/ \E r \in requests : (Succeeds(r) \/ Fails(r)) /\ UNCHANGED workspaceVars
  \/ \E r \in requests : ServerReceives(r)

PagesSpec == PagesInit /\ [][PagesNext]_<<workspaceVars, pageVars>>

-----------------------------------------------------------------------------
(* Once a page has announced a change and its list is at rest, the list    *)
(* shows the change or a later one: whatever fetch was under way when the  *)
(* change was sent, committed or answered (onReload of workspace.tsx).  A  *)
(* settings page that failed to load in between has missed the answer.     *)
ShowsItsChange(r, list) ==
  IF r.command.act = "create"
  THEN \E done \in ledger : Carries(done, r) /\ (done.new \in DOMAIN list \/ ~Live(done.new))
  ELSE \/ r.command.on \notin DOMAIN list
       \/ /\ r.command.act \notin {"delete", "revoke"}
          /\ list[r.command.on].version > r.command.version

ShowsWhatItDid ==
  offered.page # "organization" =>
    \A r \in requests :
      r.outcome = "done" /\ lists[r.tab] # Nothing /\ fetches[r.tab].step = "IDLE"
        => ShowsItsChange(r, lists[r.tab])

(* A button does what it said: "Desactivar" and "Activar" never commit on  *)
(* a row that already is so, and a role or the settings that are saved     *)
(* replace the very version the form was filled from, so that nobody       *)
(* overwrites what they have not seen (MEMBERSHIP_VERSION_CONFLICT of      *)
(* user-management.tsx; the forms of the lists do not keep this promise).  *)
StatusOf(c) == IF c.on \in Seat THEN seats[c.on].status ELSE entries[c.on].status
VersionOf(c) == IF c.on \in Seat THEN seats[c.on].version ELSE entries[c.on].version

ActsOnWhatItShows ==
  [][\A done \in ledger' \ ledger, r \in requests :
       Carries(done, r) =>
         /\ r.command.act = "status" => StatusOf(r.command) # r.command.value
         /\ r.command.act = "role" \/ r.command.area = "organization"
              => VersionOf(r.command) = r.filled]_<<workspaceVars, pageVars>>
=============================================================================
