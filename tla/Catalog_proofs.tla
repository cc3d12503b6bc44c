---------------------------- MODULE Catalog_proofs ----------------------------
(***************************************************************************)
(* TLAPS proofs about Catalog, for any organizations, items, taxes and     *)
(* readers, and any number of writes.                                      *)
(***************************************************************************)
EXTENDS Catalog, TLAPS

USE VersionAssumption, NoneAssumption

(***************************************************************************)
(* The inductive invariant.                                                *)
(***************************************************************************)

(* A tax in the table was written by the last write of its item.           *)
TaxesConsistent ==
    \A t \in Tax : tax[t] # None =>
        /\ item[tax[t].item] # None
        /\ tax[t].version = item[tax[t].item].version

(* What a reader has read of items was so, and may be out of date by now;  *)
(* what it has read of their taxes is of one write, no older.              *)
ReaderHolds(r) ==
    \A i \in Item : r.items[i] # None =>
        /\ item[i] # None /\ r.items[i] <= item[i].version
        /\ r.taxes # None =>
              \E v \in r.items[i] .. MaxVersion : \A tx \in r.taxes : tx[2] = i => tx[3] = v

ReadersConsistent == \A p \in Proc : reader[p] # None => ReaderHolds(reader[p])

IInv ==
    /\ TypeOK
    /\ TaxesConsistent
    /\ ReadersConsistent

-----------------------------------------------------------------------------
(***************************************************************************)
(* Lemmas.                                                                 *)
(***************************************************************************)

(* The two writes of a whole item.                                         *)
Writes(o, i, T) == CreateItem(o, i, T) \/ UpdateItem(o, i, T)

(* A write of item i finds or creates it, leaves all others alone, and     *)
(* dates its taxes as it dates the item.                                   *)
LEMMA WriteOfItem ==
    ASSUME TypeOK, NEW o \in Org, NEW i \in Item, NEW T \in SUBSET Tax, Writes(o, i, T)
    PROVE  /\ item[i] # None => ~ item[i].deleted /\ item[i].version <= item'[i].version
           /\ item'[i] \in ItemRow
           /\ item' \in [Item -> ItemRow \cup {None}]
           /\ \A j \in Item \ {i} : item'[j] = item[j]
           /\ KeysAreFree(i, T)
           /\ tax' = TaxesReplaced(i, T, item'[i].version)
           /\ UNCHANGED reader
<1>1. CASE CreateItem(o, i, T)
  <2>1. FirstVersion(o) \in ItemRow /\ FirstVersion(o).version = 1
    BY DEF FirstVersion, ItemRow, Version
  <2>2. QED
    BY <1>1, <2>1 DEF CreateItem, TypeOK
<1>2. CASE UpdateItem(o, i, T)
  <2> DEFINE v == item[i].version + 1
  <2>1. item[i] \in ItemRow /\ item[i] # None /\ ~ item[i].deleted
    BY <1>2 DEF UpdateItem, Found, TypeOK
  <2>2. item[i].version \in Nat /\ v \in Version
    BY <1>2, <2>1 DEF UpdateItem, ItemRow, Version
  <2>3. item'[i] = [item[i] EXCEPT !.version = v]
    BY <1>2 DEF UpdateItem, TypeOK
  <2>4. item'[i] \in ItemRow /\ item'[i].version = v
    BY <2>1, <2>2, <2>3 DEF ItemRow
  <2>5. item[i].version <= v
    BY <2>2
  <2>6. item' = [item EXCEPT ![i] = item'[i]]
    BY <1>2, <2>3 DEF UpdateItem, TypeOK
  <2>7. QED
    BY <1>2, <2>1, <2>4, <2>5, <2>6 DEF UpdateItem, TypeOK
<1>3. QED
    BY <1>1, <1>2 DEF Writes

(* A tax after a write is one of the item's new ones, or one of another    *)
(* item that has stayed as it was.                                         *)
LEMMA TaxAfterWrite ==
    ASSUME TypeOK, NEW o \in Org, NEW i \in Item, NEW T \in SUBSET Tax, Writes(o, i, T)
    PROVE  \A t \in Tax :
              /\ t \in T => tax'[t].item = i /\ tax'[t].version = item'[i].version
              /\ t \notin T /\ t \in TaxesOf(i) => tax'[t] = None
              /\ t \notin T /\ t \notin TaxesOf(i) => tax'[t] = tax[t]
              /\ tax[t] # None /\ tax[t].item # i => t \notin T
<1>1. KeysAreFree(i, T) /\ tax' = TaxesReplaced(i, T, item'[i].version)
    BY WriteOfItem
<1>2. QED
    BY <1>1 DEF TaxesReplaced, KeysAreFree, TaxesOf

LEMMA DeleteOfItem ==
    ASSUME TypeOK, NEW o \in Org, NEW i \in Item, DeleteItem(o, i)
    PROVE  /\ item[i] \in ItemRow /\ ~ item[i].deleted
           /\ item'[i] \in ItemRow /\ item'[i].version = item[i].version
           /\ item' \in [Item -> ItemRow \cup {None}]
           /\ \A j \in Item \ {i} : item'[j] = item[j]
<1>1. item[i] \in ItemRow /\ ~ item[i].deleted
    BY DEF DeleteItem, Found, TypeOK
<1>2. [item[i] EXCEPT !.deleted = TRUE] \in ItemRow
    BY <1>1 DEF ItemRow
<1>3. item' = [item EXCEPT ![i] = [item[i] EXCEPT !.deleted = TRUE]]
    BY DEF DeleteItem, TypeOK
<1>4. item'[i].version = item[i].version
    BY <1>1, <1>3 DEF ItemRow, TypeOK
<1>5. QED
    BY <1>1, <1>2, <1>3, <1>4 DEF TypeOK

-----------------------------------------------------------------------------
(***************************************************************************)
(* Types.                                                                  *)
(***************************************************************************)

LEMMA InitType == Init => TypeOK
    BY DEF Init, TypeOK

LEMMA WriteType ==
    ASSUME TypeOK, NEW o \in Org, NEW i \in Item, NEW T \in SUBSET Tax, Writes(o, i, T)
    PROVE  TypeOK'
<1>1. item'[i].version \in Version
    BY WriteOfItem DEF ItemRow
<1>2. tax' \in [Tax -> TaxRow \cup {None}]
    BY <1>1, WriteOfItem DEF TaxesReplaced, TaxRow, TypeOK
<1>3. QED
    BY <1>2, WriteOfItem DEF TypeOK

(* The record of a read that starts.                                       *)
LEMMA ReadType ==
    ASSUME TypeOK, NEW p \in Proc, NEW S \in SUBSET {i \in Item : item[i] # None}, Read(p, S)
    PROVE  /\ reader'[p] \in Reader /\ reader' \in [Proc -> Reader \cup {None}]
           /\ \A q \in Proc \ {p} : reader'[q] = reader[q]
           /\ reader'[p].taxes = None
           /\ \A i \in Item : reader'[p].items[i] = IF i \in S THEN item[i].version ELSE None
<1> DEFINE items == [i \in Item |-> IF i \in S THEN item[i].version ELSE None]
           r == [items |-> items, taxes |-> None]
<1>1. items \in [Item -> Version \cup {None}]
    BY DEF TypeOK, ItemRow
<1>2. r \in Reader
    BY <1>1 DEF Reader
<1>3. reader' = [reader EXCEPT ![p] = r]
    BY DEF Read
<1>4. QED
    BY <1>2, <1>3 DEF TypeOK

(* The record of a read once the taxes are attached.                       *)
Attached(p) ==
    {<<t, tax[t].item, tax[t].version>> :
        t \in {x \in Tax : tax[x] # None /\ reader[p].items[tax[x].item] # None}}

LEMMA AttachType ==
    ASSUME TypeOK, NEW p \in Proc, AttachTaxes(p)
    PROVE  /\ reader[p] \in Reader
           /\ reader'[p] \in Reader /\ reader' \in [Proc -> Reader \cup {None}]
           /\ \A q \in Proc \ {p} : reader'[q] = reader[q]
           /\ reader'[p].taxes = Attached(p)
           /\ reader'[p].items = reader[p].items
<1>1. reader[p] \in Reader
    BY DEF AttachTaxes, TypeOK
<1>2. Attached(p) \in SUBSET (Tax \X Item \X Version)
    BY DEF Attached, TypeOK, TaxRow
<1>3. ASSUME NEW A \in SUBSET (Tax \X Item \X Version)
      PROVE  [reader[p] EXCEPT !.taxes = A] \in Reader
    BY <1>1 DEF Reader
<1>4. reader' = [reader EXCEPT ![p] = [reader[p] EXCEPT !.taxes = Attached(p)]]
    BY DEF AttachTaxes, Attached, TypeOK
<1>5. reader'[p] = [reader[p] EXCEPT !.taxes = Attached(p)]
    BY <1>4 DEF TypeOK
<1>6. QED
    BY <1>1, <1>2, <1>3, <1>4, <1>5 DEF TypeOK, Reader

(* A read starts from items that exist.                                    *)
LEMMA ReadStarts ==
    ASSUME NEW p \in Proc, NEW o \in Org,
           List(p, o) \/ \E i \in Item : FindByID(p, o, i)
    PROVE  \E S \in SUBSET {i \in Item : item[i] # None} : Read(p, S)
    BY DEF List, FindByID, Found

LEMMA StepType == TypeOK /\ [Next]_vars => TypeOK'
<1> SUFFICES ASSUME TypeOK, [Next]_vars PROVE TypeOK'
    OBVIOUS
<1>1. ASSUME NEW o \in Org, NEW i \in Item, NEW T \in SUBSET Tax, Writes(o, i, T) PROVE TypeOK'
    BY <1>1, WriteType
<1>2. ASSUME NEW o \in Org, NEW i \in Item, DeleteItem(o, i) PROVE TypeOK'
    BY <1>2, DeleteOfItem DEF DeleteItem, TypeOK
<1>3. ASSUME NEW p \in Proc, NEW o \in Org, List(p, o) \/ \E i \in Item : FindByID(p, o, i)
      PROVE  TypeOK'
    BY <1>3, ReadStarts, ReadType DEF Read, TypeOK
<1>4. ASSUME NEW p \in Proc, AttachTaxes(p) PROVE TypeOK'
    BY <1>4, AttachType DEF AttachTaxes, TypeOK
<1>5. ASSUME NEW p \in Proc, EndOfRead(p) PROVE TypeOK'
    BY <1>5 DEF EndOfRead, TypeOK
<1>6. CASE UNCHANGED vars
    BY <1>6 DEF vars, TypeOK
<1>7. QED
    BY <1>1, <1>2, <1>3, <1>4, <1>5, <1>6 DEF Next, Writes

-----------------------------------------------------------------------------
(***************************************************************************)
(* The steps keep the invariant.                                           *)
(***************************************************************************)

(* Items stay, and their versions do not go back.                          *)
ItemsAreKept ==
    \A i \in Item : item[i] # None => item'[i] # None /\ item[i].version <= item'[i].version

LEMMA StepKeeps ==
    ASSUME TypeOK, [Next]_vars
    PROVE  ItemsAreKept
<1>0. ASSUME NEW i \in Item, item[i] # None
      PROVE  item[i].version \in Nat /\ item[i].version <= item[i].version
    BY <1>0 DEF TypeOK, ItemRow, Version
<1>1. ASSUME NEW o \in Org, NEW i \in Item, NEW T \in SUBSET Tax, Writes(o, i, T)
      PROVE  ItemsAreKept
    BY <1>0, <1>1, WriteOfItem DEF ItemsAreKept
<1>2. ASSUME NEW o \in Org, NEW i \in Item, DeleteItem(o, i) PROVE ItemsAreKept
    BY <1>0, <1>2, DeleteOfItem DEF ItemsAreKept
<1>3. CASE UNCHANGED item
    BY <1>0, <1>3 DEF ItemsAreKept
<1>4. QED
    BY <1>1, <1>2, <1>3
    DEF Next, Writes, FindByID, List, Read, AttachTaxes, EndOfRead, vars

LEMMA StepTaxes == IInv /\ [Next]_vars => TaxesConsistent'
<1> SUFFICES ASSUME IInv, [Next]_vars PROVE TaxesConsistent'
    OBVIOUS
<1>0. TypeOK /\ TaxesConsistent
    BY DEF IInv
<1>1. ASSUME NEW o \in Org, NEW i \in Item, NEW T \in SUBSET Tax, Writes(o, i, T)
      PROVE  TaxesConsistent'
  <2> SUFFICES ASSUME NEW t \in Tax, tax'[t] # None
               PROVE  /\ item'[tax'[t].item] # None
                      /\ tax'[t].version = item'[tax'[t].item].version
    BY DEF TaxesConsistent
  <2>1. CASE t \in T
    <3>1. tax'[t].item = i /\ tax'[t].version = item'[i].version
      BY <1>0, <1>1, <2>1, TaxAfterWrite
    <3>2. QED
      BY <1>0, <1>1, <3>1, WriteOfItem
  <2>2. CASE t \notin T
    <3>1. t \notin TaxesOf(i) /\ tax'[t] = tax[t]
      BY <1>0, <1>1, <2>2, TaxAfterWrite
    <3>2. tax[t].item \in Item \ {i}
      BY <1>0, <3>1 DEF TaxesOf, TypeOK, TaxRow
    <3>3. QED
      BY <1>0, <1>1, <3>1, <3>2, WriteOfItem DEF TaxesConsistent
  <2>3. QED
    BY <2>1, <2>2
<1>2. ASSUME NEW o \in Org, NEW i \in Item, DeleteItem(o, i) PROVE TaxesConsistent'
  <2>1. UNCHANGED tax /\ \A t \in Tax : tax[t] # None => tax[t].item \in Item
    BY <1>0, <1>2 DEF DeleteItem, TypeOK, TaxRow
  <2>2. QED
    BY <1>0, <1>2, <2>1, DeleteOfItem DEF TaxesConsistent
<1>3. CASE UNCHANGED <<item, tax>>
    BY <1>0, <1>3 DEF TaxesConsistent
<1>4. QED
    BY <1>1, <1>2, <1>3
    DEF Next, Writes, FindByID, List, Read, AttachTaxes, EndOfRead, vars

LEMMA StepReaders == IInv /\ [Next]_vars => ReadersConsistent'
<1> SUFFICES ASSUME IInv, [Next]_vars PROVE ReadersConsistent'
    OBVIOUS
<1>0. TypeOK /\ TaxesConsistent /\ ReadersConsistent /\ TypeOK' /\ ItemsAreKept
    BY StepType, StepKeeps DEF IInv
<1>1. ASSUME NEW r \in Reader, ReaderHolds(r) PROVE ReaderHolds(r)'
  <2> SUFFICES ASSUME NEW i \in Item, r.items[i] # None
               PROVE  item'[i] # None /\ r.items[i] <= item'[i].version
    BY <1>1 DEF ReaderHolds
  <2>1. item[i] # None /\ r.items[i] <= item[i].version
    BY <1>1 DEF ReaderHolds
  <2>2. item'[i] # None /\ item[i].version <= item'[i].version
    BY <1>0, <2>1 DEF ItemsAreKept
  <2>3. r.items[i] \in Nat /\ item[i].version \in Nat /\ item'[i].version \in Nat
    BY <1>0, <2>1, <2>2 DEF Reader, TypeOK, ItemRow, Version
  <2>4. QED
    BY <2>1, <2>2, <2>3
<1>2. ASSUME NEW p \in Proc, reader[p] # None PROVE reader[p] \in Reader /\ ReaderHolds(reader[p])
    BY <1>0, <1>2 DEF ReadersConsistent, TypeOK
<1>3. ASSUME NEW p \in Proc, reader'[p] # None, reader'[p] = reader[p]
      PROVE  ReaderHolds(reader[p])'
  <2>1. PICK r : r = reader[p]
    OBVIOUS
  <2>2. ReaderHolds(r)'
    BY <1>1, <1>2, <1>3, <2>1
  <2>3. QED
    BY <1>3, <2>1, <2>2 DEF ReaderHolds
<1>4. ASSUME NEW p \in Proc, NEW S \in SUBSET {i \in Item : item[i] # None}, Read(p, S)
      PROVE  ReadersConsistent'
  <2>1. UNCHANGED item
    BY <1>4 DEF Read
  <2>2. ASSUME NEW i \in Item, reader'[p].items[i] # None
        PROVE  item'[i] # None /\ reader'[p].items[i] <= item'[i].version
    <3>1. item[i] # None /\ reader'[p].items[i] = item[i].version
      BY <1>0, <1>4, <2>2, ReadType
    <3>2. item[i].version \in Nat
      BY <1>0, <3>1 DEF TypeOK, ItemRow, Version
    <3>3. QED
      BY <2>1, <3>1, <3>2
  <2>3. ReaderHolds(reader[p])'
    BY <1>0, <1>4, <2>2, ReadType DEF ReaderHolds
  <2>4. QED
    BY <1>0, <1>3, <1>4, <2>3, ReadType DEF ReadersConsistent
<1>5. ASSUME NEW p \in Proc, AttachTaxes(p) PROVE ReadersConsistent'
  <2>1. UNCHANGED item
    BY <1>5 DEF AttachTaxes
  <2>2. ASSUME NEW i \in Item, reader'[p].items[i] # None
        PROVE  /\ item'[i] # None /\ reader'[p].items[i] <= item'[i].version
               /\ \E v \in reader'[p].items[i] .. MaxVersion :
                     \A tx \in reader'[p].taxes : tx[2] = i => tx[3] = v
    <3>1. reader[p].items[i] # None /\ reader'[p].items[i] = reader[p].items[i]
      BY <1>0, <1>5, <2>2, AttachType
    <3>2. item[i] # None /\ reader[p].items[i] <= item[i].version
      BY <1>2, <1>5, <3>1 DEF AttachTaxes, ReaderHolds
    <3>3. reader[p].items[i] \in Nat /\ item[i].version \in 1 .. MaxVersion
      BY <1>0, <1>5, <3>1, <3>2, AttachType DEF Reader, TypeOK, ItemRow, Version
    <3>4. \A tx \in reader'[p].taxes : tx[2] = i => tx[3] = item[i].version
      BY <1>0, <1>5, AttachType DEF Attached, TaxesConsistent
    <3>5. item[i].version \in reader'[p].items[i] .. MaxVersion
      BY <3>1, <3>2, <3>3
    <3>6. QED
      BY <2>1, <3>1, <3>2, <3>4, <3>5
  <2>3. ReaderHolds(reader[p])'
    BY <2>2 DEF ReaderHolds
  <2>4. QED
    BY <1>0, <1>3, <1>5, <2>3, AttachType DEF ReadersConsistent
<1>6. ASSUME NEW p \in Proc, EndOfRead(p) PROVE ReadersConsistent'
  <2>1. \A q \in Proc : reader'[q] # None => reader'[q] = reader[q]
    BY <1>0, <1>6 DEF EndOfRead, TypeOK
  <2>2. QED
    BY <1>3, <2>1 DEF ReadersConsistent
<1>7. CASE UNCHANGED reader
    BY <1>3, <1>7 DEF ReadersConsistent
<1>8. ASSUME NEW p \in Proc, NEW o \in Org, List(p, o) \/ \E i \in Item : FindByID(p, o, i)
      PROVE  ReadersConsistent'
    BY <1>4, <1>8, ReadStarts
<1>9. QED
    BY <1>5, <1>6, <1>7, <1>8
    DEF Next, CreateItem, UpdateItem, DeleteItem, vars

LEMMA InitIInv == Init => IInv
    BY InitType DEF Init, IInv, TaxesConsistent, ReadersConsistent

LEMMA StepIInv == IInv /\ [Next]_vars => IInv'
    BY StepType, StepTaxes, StepReaders DEF IInv

-----------------------------------------------------------------------------
(***************************************************************************)
(* Theorems.                                                               *)
(***************************************************************************)

(* In every reachable state the taxes in the table are of the last write   *)
(* of their item, and what readers carry is what some write left.          *)
THEOREM Consistent == Spec => []IInv
    BY InitIInv, StepIInv, PTL DEF Spec

(* Every row and reader has its type.                                      *)
THEOREM TypeCorrect == Spec => []TypeOK
    BY Consistent, PTL DEF IInv

(* A reader never gets a mixture of taxes of two writes, nor taxes older   *)
(* than the item it gets.                                                  *)
THEOREM TaxesOfOneWrite == Spec => []TaxesAreOfOneWrite
<1>1. IInv => TaxesAreOfOneWrite
    BY DEF IInv, ReadersConsistent, ReaderHolds, TaxesAreOfOneWrite
<1>2. QED
    BY <1>1, Consistent, PTL

(* No write moves a tax from one item to another.                          *)
THEOREM TaxesNotTaken == Spec => TaxesAreNotTaken
<1> DEFINE Step == \A t \in Tax : tax[t] # None /\ tax'[t] # None => tax'[t].item = tax[t].item
<1>1. ASSUME IInv, [Next]_vars PROVE Step
  <2>0. TypeOK
    BY <1>1 DEF IInv
  <2>1. ASSUME NEW o \in Org, NEW i \in Item, NEW T \in SUBSET Tax, Writes(o, i, T) PROVE Step
    <3>1. ASSUME NEW t \in Tax, tax[t] # None, tax'[t] # None PROVE tax'[t].item = tax[t].item
      <4>1. CASE t \in T
        BY <2>0, <2>1, <3>1, <4>1, TaxAfterWrite
      <4>2. CASE t \notin T
        BY <2>0, <2>1, <3>1, <4>2, TaxAfterWrite
      <4>3. QED
        BY <4>1, <4>2
    <3>2. QED
      BY <3>1
  <2>2. CASE UNCHANGED tax
    BY <2>2
  <2>3. QED
    BY <1>1, <2>1, <2>2
    DEF Next, Writes, DeleteItem, FindByID, List, Read, AttachTaxes, EndOfRead, vars
<1>2. IInv /\ [Next]_vars => [Step]_vars
    BY <1>1
<1>3. Spec => [][Step]_vars
    BY Consistent, <1>2, PTL DEF Spec
<1>4. QED
    BY <1>3 DEF TaxesAreNotTaken

(* No write touches a deleted item or its taxes.                           *)
THEOREM DeletedFrozen == Spec => DeletedItemsAreFrozen
<1> DEFINE Frozen(i) == /\ item'[i] = item[i]
                        /\ TaxesOf(i)' = TaxesOf(i)
                        /\ \A t \in TaxesOf(i) : tax'[t] = tax[t]
           Step == \A i \in Item : item[i] # None /\ item[i].deleted => Frozen(i)
<1>1. ASSUME IInv, [Next]_vars PROVE Step
  <2> SUFFICES ASSUME NEW i \in Item, item[i] # None, item[i].deleted PROVE Frozen(i)
    OBVIOUS
  <2>0. TypeOK
    BY <1>1 DEF IInv
  <2>1. ASSUME NEW o \in Org, NEW j \in Item, NEW T \in SUBSET Tax, Writes(o, j, T)
        PROVE  Frozen(i)
    <3>1. j # i /\ item'[i] = item[i]
      BY <2>0, <2>1, WriteOfItem
    <3>2. ASSUME NEW t \in TaxesOf(i) PROVE tax'[t] = tax[t]
      BY <2>0, <2>1, <3>1, TaxAfterWrite DEF TaxesOf
    <3>3. ASSUME NEW t \in Tax, tax'[t] # None, tax'[t].item = i PROVE t \in TaxesOf(i)
      <4>1. CASE t \in T
        BY <2>0, <2>1, <3>1, <3>3, <4>1, TaxAfterWrite
      <4>2. CASE t \notin T
        BY <2>0, <2>1, <3>3, <4>2, TaxAfterWrite DEF TaxesOf
      <4>3. QED
        BY <4>1, <4>2
    <3>4. TaxesOf(i)' = TaxesOf(i)
      BY <3>2, <3>3 DEF TaxesOf
    <3>5. QED
      BY <3>1, <3>2, <3>4
  <2>2. ASSUME NEW o \in Org, NEW j \in Item, DeleteItem(o, j) PROVE Frozen(i)
    <3>1. item'[i] = item[i] /\ UNCHANGED tax
      BY <2>0, <2>2, DeleteOfItem DEF DeleteItem
    <3>2. QED
      BY <3>1 DEF TaxesOf
  <2>3. CASE UNCHANGED <<item, tax>>
    BY <2>3 DEF TaxesOf
  <2>4. QED
    BY <1>1, <2>1, <2>2, <2>3
    DEF Next, Writes, FindByID, List, Read, AttachTaxes, EndOfRead, vars
<1>2. IInv /\ [Next]_vars => [Step]_vars
    BY <1>1
<1>3. Spec => [][Step]_vars
    BY Consistent, <1>2, PTL DEF Spec
<1>4. QED
    BY <1>3 DEF DeletedItemsAreFrozen

=============================================================================
