---------------------------- MODULE Directories ----------------------------
(***************************************************************************)
(* What the organization keeps lists of: customers, suppliers, categories, *)
(* catalog items, branches and registers, and the organization's own row.  *)
(* Every change carries the version its sender read.                       *)
(*                                                                         *)
(* No device holds a grant here (Configuration models what exposes an item *)
(* or a category), an item is created without a price (a price set with it *)
(* is one more change of the same row), no document sells an item here, so *)
(* that neither its structure nor its deletion meets a sale (Trade sells   *)
(* them), and no branch is deactivated (Trade).                            *)
(***************************************************************************)
EXTENDS Commands

CodeFree(c, e) ==
  c.value \in Code =>
    ~\E other \in Entry \ {e} :
       /\ entries[other].directory = c.area /\ entries[other].code = c.value
       /\ c.area = "cash_register" => entries[other].parent = ParentOf(c)
       /\ entries[other].status \in Status

(* The locks of the row can be had; FOR SHARE finds its parent ACTIVE.     *)
Free(c, e) ==
  /\ OrganizationFree
  /\ LocksOfRow(c, e) \cap (Locked \cup Shared) = {}
  /\ SharesOfRow(c) \cap Locked = {}

ParentActive(c, directory) ==
  SharesOfRow(c) # {} =>
    entries[ParentOf(c)].directory = directory /\ entries[ParentOf(c)].status = "ACTIVE"

Insert(t) ==
  \E e \in Entry :
    /\ entries[e].status = "ABSENT"
    /\ Free(t.command, e) /\ CodeFree(t.command, e)
    /\ Stage(t, e)

(* The row, FOR UPDATE, in the version the sender has read.                *)
Current(c) ==
  /\ c.on \in DOMAIN entries
  /\ entries[c.on].directory = c.area /\ entries[c.on].status \in Status
  /\ Free(c, c.on)
  /\ entries[c.on].version = c.version

Change(t) == Current(t.command) /\ CodeFree(t.command, t.command.on) /\ Stage(t, Nothing)
Unreferenced(t) == t.command.on \notin used

CreateCustomer(t) == Runs(t, "customer", "create") /\ Insert(t)
UpdateCustomer(t) == Runs(t, "customer", "update") /\ Change(t)
ChangeCustomerStatus(t) == Runs(t, "customer", "status") /\ Change(t)
DeleteCustomer(t) == Runs(t, "customer", "delete") /\ Unreferenced(t) /\ Change(t)

CreateSupplier(t) == Runs(t, "supplier", "create") /\ Insert(t)
UpdateSupplier(t) == Runs(t, "supplier", "update") /\ Change(t)
ChangeSupplierStatus(t) == Runs(t, "supplier", "status") /\ Change(t)
DeleteSupplier(t) == Runs(t, "supplier", "delete") /\ Unreferenced(t) /\ Change(t)

CreateExpenseCategory(t) == Runs(t, "expense_category", "create") /\ Insert(t)
ChangeExpenseCategoryStatus(t) ==
  /\ Runs(t, "expense_category", "status")
  /\ Current(t.command) /\ entries[t.command.on].status # t.command.value
  /\ Stage(t, Nothing)
DeleteExpenseCategory(t) ==
  Runs(t, "expense_category", "delete") /\ Unreferenced(t) /\ Change(t)

CreateCatalogCategory(t) ==
  Reaches(t, "catalog_category", "create") /\ AloneInOrganization(t) /\ Insert(t)
UpdateCatalogCategory(t) ==
  Reaches(t, "catalog_category", "update") /\ AloneInOrganization(t) /\ Change(t)
ChangeCatalogCategoryStatus(t) ==
  /\ Reaches(t, "catalog_category", "status") /\ AloneInOrganization(t)
  /\ Current(t.command) /\ entries[t.command.on].status # t.command.value
  /\ Stage(t, Nothing)
(* Foreign keys restrict it: no item is in the category.                   *)
DeleteCatalogCategory(t) ==
  /\ Reaches(t, "catalog_category", "delete") /\ AloneInOrganization(t)
  /\ ~\E e \in Entry : entries[e].parent = t.command.on /\ entries[e].status \in Status
  /\ Change(t)

CreateCatalogItem(t) ==
  /\ Reaches(t, "catalog_item", "create") /\ AloneInOrganization(t)
  /\ ParentActive(t.command, "catalog_category") /\ Insert(t)
EditCatalogItem(t) ==
  /\ Reaches(t, "catalog_item", "update")
  /\ ParentActive(t.command, "catalog_category") /\ Change(t)

SetCatalogPrice(t) ==
  Reaches(t, "catalog_item", "price") /\ AloneInOrganization(t) /\ Change(t)
ChangeCatalogItemStatus(t) ==
  /\ Reaches(t, "catalog_item", "status") /\ AloneInOrganization(t)
  /\ Current(t.command) /\ entries[t.command.on].status # t.command.value
  /\ Stage(t, Nothing)
ChangeCatalogItemStructure(t) ==
  Reaches(t, "catalog_item", "structural") /\ AloneInOrganization(t) /\ Change(t)
(* The versions of its price are history.                                  *)
DeleteCatalogItem(t) ==
  /\ Reaches(t, "catalog_item", "delete") /\ AloneInOrganization(t)
  /\ Unreferenced(t) /\ Change(t)

CreateBranch(t) == Runs(t, "branch", "create") /\ AloneInOrganization(t) /\ Insert(t)

CreateRegister(t) ==
  Runs(t, "cash_register", "create") /\ ParentActive(t.command, "branch") /\ Insert(t)
RenameRegister(t) ==
  Runs(t, "cash_register", "update") /\ ParentActive(t.command, "branch") /\ Change(t)
DeactivateRegister(t) ==
  /\ Runs(t, "cash_register", "status") /\ ParentActive(t.command, "branch")
  /\ Current(t.command) /\ entries[t.command.on].status = "ACTIVE"
  /\ Stage(t, Nothing)

UpdateProfile(t) == Runs(t, "organization", "update") /\ Change(t)
UpdateTimezone(t) == Runs(t, "organization", "timezone") /\ Change(t)
(* The first price or document starts the history that locks the currency; *)
(* a request for the currency it already has changes nothing.              *)
ChangeCurrency(t) ==
  Runs(t, "organization", "currency") /\ AloneInOrganization(t) /\ used = {} /\ Change(t)

RowAfter(c, old) ==
  CASE c.act = "create" ->
         [directory |-> c.area, code |-> c.value, parent |-> c.parent,
          status |-> "ACTIVE", version |-> 1]
    [] c.act = "update" ->
         [old EXCEPT !.code = IF c.value = Nothing THEN old.code ELSE c.value,
                     !.parent = IF c.area = "catalog_item" THEN c.parent ELSE old.parent,
                     !.version = old.version + 1]
    [] c.act = "status" -> [old EXCEPT !.status = c.value, !.version = old.version + 1]
    [] c.act \in {"price", "structural", "timezone", "currency"} ->
         [old EXCEPT !.version = old.version + 1]
    [] OTHER -> [old EXCEPT !.status = "DELETED"]

CommitEntry(t) ==
  /\ t.command.area \in Directory
  /\ entries' = [entries EXCEPT ![EntryOf(t)] = RowAfter(t.command, entries[EntryOf(t)])]
  /\ used' = IF t.command.act = "price" THEN used \cup {t.command.on} ELSE used
  /\ UNCHANGED <<outboxVars, peopleVars>>

(* A confirmed document refers to an entry: the foreign key, or FOR SHARE, *)
(* waits for whoever writes the row.  A sale reads its customer without a  *)
(* lock, so what it found ACTIVE may be so no longer.                      *)
Refer(e) ==
  /\ <<"entry", e>> \notin Locked /\ OrganizationFree
  /\ used' = used \cup {e}
  /\ UNCHANGED <<outboxVars, entries, peopleVars, mailVars, commandVars>>

SellTo(e) == entries[e].directory = "customer" /\ entries[e].status \in Status /\ Refer(e)
BuyFrom(e) == entries[e].directory = "supplier" /\ entries[e].status = "ACTIVE" /\ Refer(e)
SpendOn(e) ==
  entries[e].directory = "expense_category" /\ entries[e].status = "ACTIVE" /\ Refer(e)

DirectoryService(t) ==
  \/ CreateCustomer(t) \/ UpdateCustomer(t) \/ ChangeCustomerStatus(t) \/ DeleteCustomer(t)
  \/ CreateSupplier(t) \/ UpdateSupplier(t) \/ ChangeSupplierStatus(t) \/ DeleteSupplier(t)
  \/ CreateExpenseCategory(t) \/ ChangeExpenseCategoryStatus(t) \/ DeleteExpenseCategory(t)
  \/ CreateCatalogCategory(t) \/ UpdateCatalogCategory(t)
  \/ ChangeCatalogCategoryStatus(t) \/ DeleteCatalogCategory(t)
  \/ CreateCatalogItem(t) \/ EditCatalogItem(t) \/ SetCatalogPrice(t)
  \/ ChangeCatalogItemStatus(t) \/ ChangeCatalogItemStructure(t) \/ DeleteCatalogItem(t)
  \/ CreateBranch(t)
  \/ CreateRegister(t) \/ RenameRegister(t) \/ DeactivateRegister(t)
  \/ UpdateProfile(t) \/ UpdateTimezone(t) \/ ChangeCurrency(t)

-----------------------------------------------------------------------------
(* No command takes effect twice under one key, no two changes replace the *)
(* same version of a row, no row that history refers to is deleted, no two *)
(* rows share a code, and no item is in a category that is gone.           *)
Creates(done) == done.command.act = "create"
Versioned(done) ==
  \/ done.command.area = "membership"
  \/ done.command.area \in Directory /\ done.command.act # "create"
Live(e) == entries[e].status \in Status

NothingLostOrDoubled ==
  /\ \A a, b \in ledger :
       \/ a = b
       \/ /\ a.key = b.key /\ Keyed(a.command) => ~SameScope(a.command, b.command)
          /\ Creates(a) /\ Creates(b) => a.new # b.new
          /\ Versioned(a) /\ Versioned(b) /\ a.command.on = b.command.on
               => a.command.version # b.command.version
  /\ \A e \in used : Live(e)
  /\ \A e, f \in Entry :
       /\ Live(e) /\ Live(f) /\ entries[e].code \in Code /\ entries[e].code = entries[f].code
       /\ entries[e].directory = entries[f].directory
       /\ entries[e].directory = "cash_register" => entries[e].parent = entries[f].parent
       => e = f
  /\ \A e \in Entry : Live(e) /\ entries[e].parent # Nothing => Live(entries[e].parent)
=============================================================================
