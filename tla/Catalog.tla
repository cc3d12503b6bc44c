------------------------------- MODULE Catalog -------------------------------
(***************************************************************************)
(* The items of an organization and their taxes                            *)
(* (internal/core/catalog): two tables, written in one transaction and     *)
(* read in two statements.                                                 *)
(*                                                                         *)
(* The UPDATE of the item row locks it, so that two writers of an item     *)
(* follow each other; a clash on the primary key of item_taxes, whose ids  *)
(* a client may choose, rolls the transaction back.  What a transaction    *)
(* writes appears in one action.                                           *)
(***************************************************************************)
EXTENDS Naturals

CONSTANTS
    Org,        \* organizations
    Item,       \* items, by their id
    Tax,        \* taxes, by their id
    Proc,       \* readers being served
    None,       \* the value of a row or reader that does not exist
    MaxVersion  \* bound on the writes of an item, for model checking

ASSUME VersionAssumption == MaxVersion \in Nat \ {0}

VARIABLES
    item,       \* rows of items; the version stands for the other columns
    tax,        \* rows of item_taxes, with the version that wrote them
    reader      \* reads in progress, with what they have read

vars == <<item, tax, reader>>

Version == 1 .. MaxVersion
ItemRow == [org : Org, version : Version, deleted : BOOLEAN]
TaxRow  == [item : Item, version : Version]

(* A reader knows items, in what version, and then the taxes of each. *)
Reader == [items : [Item -> Version \cup {None}],
           taxes : {None} \cup SUBSET (Tax \X Item \X Version)]

(* A row, version or reader is told apart from its absence. *)
ASSUME NoneAssumption == None \notin Version \cup ItemRow \cup TaxRow \cup Reader

Init ==
    /\ item   = [i \in Item |-> None]
    /\ tax    = [t \in Tax |-> None]
    /\ reader = [p \in Proc |-> None]

TaxesOf(i) == {t \in Tax : tax[t] # None /\ tax[t].item = i}

-----------------------------------------------------------------------------

(* Regression: the ids of other items' taxes are taken over. *)
TakesOver(i, T) == TRUE

(* The primary key of item_taxes, once the item's own taxes are deleted.   *)
KeysAreFree(i, T) == \A t \in T : t \in TaxesOf(i) \/ tax[t] = None

(* Regression: the taxes of the version before are left. *)
TaxesAdded(i, T, v) ==
    [t \in Tax |-> IF t \in T THEN [item |-> i, version |-> v] ELSE tax[t]]

(* deleteItemTaxes and insertItemTaxes. *)
TaxesReplaced(i, T, v) ==
    [t \in Tax |-> IF t \in T THEN [item |-> i, version |-> v]
                   ELSE IF t \in TaxesOf(i) THEN None
                   ELSE tax[t]]

(* Regression: the version is counted from zero. *)
FirstAtZero(o) == [org |-> o, version |-> 0, deleted |-> FALSE]

FirstVersion(o) == [org |-> o, version |-> 1, deleted |-> FALSE]

CreateItem(o, i, T) ==
    /\ item[i] = None
    /\ KeysAreFree(i, T)
    /\ item' = [item EXCEPT ![i] = FirstVersion(o)]
    /\ tax'  = TaxesReplaced(i, T, 1)
    /\ UNCHANGED reader

(* Regression: deleted rows are found too. *)
FoundDeleted(o, i) == item[i] # None /\ item[i].org = o

(* WHERE id AND organization_id AND deleted_at IS NULL. *)
Found(o, i) == item[i] # None /\ item[i].org = o /\ ~ item[i].deleted

UpdateItem(o, i, T) ==
    /\ Found(o, i)
    /\ item[i].version < MaxVersion
    /\ KeysAreFree(i, T)
    /\ LET v == item[i].version + 1
       IN /\ item' = [item EXCEPT ![i].version = v]
          /\ tax'  = TaxesReplaced(i, T, v)
    /\ UNCHANGED reader

(* The row is marked; its taxes stay. *)
DeleteItem(o, i) ==
    /\ Found(o, i)
    /\ item' = [item EXCEPT ![i].deleted = TRUE]
    /\ UNCHANGED <<tax, reader>>

(* The first statement of a read has seen the items of S. *)
Read(p, S) ==
    /\ reader' = [reader EXCEPT ![p] =
          [items |-> [i \in Item |-> IF i \in S THEN item[i].version ELSE None],
           taxes |-> None]]
    /\ UNCHANGED <<item, tax>>

(* FindByID; an item that is not found ends the read. *)
FindByID(p, o, i) ==
    /\ reader[p] = None
    /\ Found(o, i)
    /\ Read(p, {i})

(* A filter on type and name selects some of the items. *)
List(p, o) ==
    /\ reader[p] = None
    /\ \E S \in SUBSET {i \in Item : Found(o, i)} : Read(p, S)

(* In another statement, the taxes of all of them. *)
AttachTaxes(p) ==
    /\ reader[p] # None
    /\ reader[p].taxes = None
    /\ reader' = [reader EXCEPT ![p].taxes =
          {<<t, tax[t].item, tax[t].version>> :
              t \in {x \in Tax : tax[x] # None /\ reader[p].items[tax[x].item] # None}}]
    /\ UNCHANGED <<item, tax>>

(* The answer is delivered, or the read is given up. *)
EndOfRead(p) ==
    /\ reader[p] # None
    /\ reader' = [reader EXCEPT ![p] = None]
    /\ UNCHANGED <<item, tax>>

-----------------------------------------------------------------------------

Next ==
    \/ \E o \in Org, i \in Item :
          \/ \E T \in SUBSET Tax : CreateItem(o, i, T) \/ UpdateItem(o, i, T)
          \/ DeleteItem(o, i)
          \/ \E p \in Proc : FindByID(p, o, i)
    \/ \E p \in Proc :
          \/ \E o \in Org : List(p, o)
          \/ AttachTaxes(p)
          \/ EndOfRead(p)

Spec == Init /\ [][Next]_vars

-----------------------------------------------------------------------------
(***************************************************************************)
(* Properties.                                                             *)
(***************************************************************************)

(* Every row and reader has its type. *)
TypeOK ==
    /\ item   \in [Item -> ItemRow \cup {None}]
    /\ tax    \in [Tax -> TaxRow \cup {None}]
    /\ reader \in [Proc -> Reader \cup {None}]

(* The taxes a reader is given with an item were all written by one write  *)
(* of that item, never by a mixture, although item and taxes are read apart *)
(* while writers are at work; and that write is not older than the item    *)
(* the reader is given.  (It may be newer: the two halves may disagree.)   *)
TaxesAreOfOneWrite ==
    \A p \in Proc : reader[p] # None /\ reader[p].taxes # None =>
        \A i \in Item : reader[p].items[i] # None =>
            \E v \in reader[p].items[i] .. MaxVersion :
                \A tx \in reader[p].taxes : tx[2] = i => tx[3] = v

(* No write gives a tax of one item to another, let alone to one of        *)
(* another organization: a clash of ids is refused.                        *)
TaxesAreNotTaken ==
    [][\A t \in Tax : tax[t] # None /\ tax'[t] # None => tax'[t].item = tax[t].item]_vars

(* Nothing changes an item, or its taxes, once it is deleted, not even an  *)
(* update that was under way.                                              *)
DeletedItemsAreFrozen ==
    [][\A i \in Item : item[i] # None /\ item[i].deleted =>
          /\ item'[i] = item[i]
          /\ TaxesOf(i)' = TaxesOf(i)
          /\ \A t \in TaxesOf(i) : tax'[t] = tax[t]]_vars

=============================================================================
