--------------------------- MODULE DVector_proofs ---------------------------
(***************************************************************************)
(* For every number of ranks and objects and any layouts.  Whatever throws *)
(* wherever it likes: no id has two owners, data never appears under an id *)
(* that an object still names, the variables keep their types, and an      *)
(* owner's data is on all ranks or on none.  While nothing throws: what    *)
(* the ranks store has an owner, no destructor throws, caches say what     *)
(* there is, and objects behave as DistValues says; each theorem names     *)
(* what of views, sorting and self-assignment it has to rule out.          *)
(***************************************************************************)
EXTENDS DVector, Layouts_proofs

Fields == {"kind", "dvid", "is_view", "is_sizevec_valid", "sizevec", "moved"}

(* Objects and tables have their shape.  What they say of sizes plays no   *)
(* part here.                                                              *)
Shaped ==
  /\ DOMAIN objs = Obj
  /\ \A o \in Obj : DOMAIN objs[o] = Fields
  /\ \A r \in Rank : DOMAIN table[r] = Dvid
  /\ current_dvid \in Nat \ {0}

(* Every id that an object names has been handed out.                      *)
Named == \A o \in Obj : objs[o].dvid \in 0 .. current_dvid - 1

(* SingleOwner strengthened until every step preserves it.                 *)
OwnerInv == Shaped /\ Named /\ SingleOwner

(* Data appears only under ids not handed out before.                      *)
NewDataFresh ==
  \A r \in Rank, d \in Dvid :
    table[r][d] = absent /\ table'[r][d] # absent => d >= current_dvid

(* Storing under one id leaves all others, and the ranks that throw.       *)
LEMMA StoredFacts ==
  ASSUME NEW t, \A r \in Rank : DOMAIN t[r] = Dvid, NEW d, NEW len, NEW bad
  PROVE  \A r \in Rank :
           /\ DOMAIN Stored(t, d, len, bad)[r] = Dvid
           /\ r \in bad => Stored(t, d, len, bad)[r] = t[r]
           /\ \A e \in Dvid : e # d => Stored(t, d, len, bad)[r][e] = t[r][e]
BY DEF Stored

(* Deleting an id adds no data.                                            *)
LEMMA DeletedFacts ==
  ASSUME NEW t, \A r \in Rank : DOMAIN t[r] = Dvid, NEW d
  PROVE  \A r \in Rank :
           /\ DOMAIN Deleted(t, d)[r] = Dvid
           /\ \A e \in Dvid : Deleted(t, d)[r][e] = t[r][e] \/ Deleted(t, d)[r][e] = absent
BY DEF Deleted

(* A new id for a new object, or for none.                                 *)
LEMMA MakeStep ==
  ASSUME OwnerInv, NEW o \in Obj, NEW k, NEW len, NEW bad, NEW v, NEW s,
         Make(o, k, len, bad, v, s)
  PROVE  OwnerInv' /\ NewDataFresh
<1> DEFINE x == Object(k, current_dvid, FALSE, v, s)
<1>1. /\ current_dvid' = current_dvid + 1
      /\ objs' = [objs EXCEPT ![o] = x] \/ objs' = objs
      /\ table' = Stored(table, current_dvid, len, bad)
  BY DEF Make
<1>2. DOMAIN x = Fields /\ x.dvid = current_dvid
  BY DEF Object, Fields
<1> HIDE DEF x
<1>3. Shaped'
  <2>1. \A r \in Rank : DOMAIN table'[r] = Dvid
    BY <1>1, StoredFacts DEF OwnerInv, Shaped
  <2> QED
    BY <1>1, <1>2, <2>1 DEF OwnerInv, Shaped
<1>4. Named' /\ \A p \in Obj : objs'[p] = objs[p] \/ (p = o /\ objs'[p].dvid = current_dvid)
  BY <1>1, <1>2 DEF OwnerInv, Shaped, Named
<1>5. SingleOwner'
  BY <1>4 DEF OwnerInv, Shaped, Named, SingleOwner, Owns, Live
<1>6. NewDataFresh
  BY <1>1, StoredFacts DEF OwnerInv, Shaped, NewDataFresh
<1> QED
  BY <1>3, <1>4, <1>5, <1>6 DEF OwnerInv

(* Tables and ids stay: what has to be shown is about the objects.         *)
LEMMA RenameStep ==
  ASSUME OwnerInv, UNCHANGED <<table, current_dvid>>,
         DOMAIN objs' = Obj, \A p \in Obj : DOMAIN objs'[p] = Fields,
         \A p \in Obj : \E q \in Obj : objs'[p].dvid = 0 \/ objs'[p].dvid = objs[q].dvid,
         SingleOwner'
  PROVE  OwnerInv' /\ NewDataFresh
BY DEF OwnerInv, Shaped, Named, NewDataFresh

(* An object keeps its id and whether it owns it: the rest may change.     *)
LEMMA KeepStep ==
  ASSUME OwnerInv, UNCHANGED <<table, current_dvid>>,
         DOMAIN objs' = Obj,
         \A p \in Obj : /\ DOMAIN objs'[p] = Fields
                        /\ objs'[p].dvid = objs[p].dvid
                        /\ objs'[p].kind = objs[p].kind
                        /\ objs'[p].is_view = objs[p].is_view
  PROVE  OwnerInv' /\ NewDataFresh
<1>1. SingleOwner'
  BY DEF OwnerInv, SingleOwner, Owns, Live
<1> QED
  BY <1>1, RenameStep

(* The program names, copies or moves objects.                             *)
LEMMA DeclareStep ==
  ASSUME OwnerInv, NEW o \in Obj, Declare(o)
  PROVE  OwnerInv' /\ NewDataFresh
<1>1. PICK k \in Kinds : objs' = [objs EXCEPT ![o] = Object(k, 0, FALSE, FALSE, NoSizes)]
  BY DEF Declare, Rename
<1>2. UNCHANGED <<table, current_dvid>>
  BY DEF Declare, Rename
<1>3. /\ DOMAIN objs' = Obj
      /\ \A p \in Obj : DOMAIN objs'[p] = Fields
      /\ \A p \in Obj : objs'[p] = objs[p] \/ objs'[p].dvid = 0
  BY <1>1 DEF OwnerInv, Shaped, Object, Fields
<1>4. SingleOwner'
  BY <1>3 DEF OwnerInv, SingleOwner, Owns, Live
<1> QED
  BY <1>2, <1>3, <1>4, RenameStep

LEMMA DuplicateStep ==
  ASSUME OwnerInv, NEW o \in Obj, NEW s \in Obj, NEW k, NEW v, NEW z, Duplicate(o, s, k, v, z)
  PROVE  OwnerInv' /\ NewDataFresh
<1>1. CASE objs[s].dvid = 0
  <2>1. objs' = [objs EXCEPT ![o] = Object(k, 0, FALSE, v, z)] /\ UNCHANGED <<table, current_dvid>>
    BY <1>1 DEF Duplicate, Rename
  <2>2. /\ DOMAIN objs' = Obj
        /\ \A p \in Obj : DOMAIN objs'[p] = Fields
        /\ \A p \in Obj : objs'[p] = objs[p] \/ objs'[p].dvid = 0
    BY <2>1 DEF OwnerInv, Shaped, Object, Fields
  <2>3. SingleOwner'
    BY <2>2 DEF OwnerInv, SingleOwner, Owns, Live
  <2> QED
    BY <2>1, <2>2, <2>3, RenameStep
<1>2. CASE objs[s].dvid # 0
  <2>1. PICK bad \in Failing(table, objs[s].dvid) :
          Make(o, k, Lengths(table, objs[s].dvid), bad, v, z)
    BY <1>2 DEF Duplicate
  <2> QED
    BY <2>1, MakeStep
<1> QED
  BY <1>1, <1>2

LEMMA ViewAsStep ==
  ASSUME OwnerInv, NEW o \in Obj, NEW s \in Obj, ViewAs(o, s)
  PROVE  OwnerInv' /\ NewDataFresh
<1> DEFINE x == Object(Other(objs[s].kind), objs[s].dvid, TRUE, FALSE, NoSizes)
<1>1. objs' = [objs EXCEPT ![o] = x] /\ UNCHANGED <<table, current_dvid>>
  BY DEF ViewAs, Rename
<1>2. DOMAIN x = Fields /\ x.dvid = objs[s].dvid /\ x.is_view
  BY DEF Object, Fields
<1> HIDE DEF x
<1>3. /\ DOMAIN objs' = Obj
      /\ \A p \in Obj : DOMAIN objs'[p] = Fields
      /\ \A p \in Obj : objs'[p] = objs[p] \/ (objs'[p].dvid = objs[s].dvid /\ objs'[p].is_view)
  BY <1>1, <1>2 DEF OwnerInv, Shaped
<1>4. SingleOwner'
  BY <1>3 DEF OwnerInv, SingleOwner, Owns, Live
<1> QED
  BY <1>1, <1>3, <1>4, RenameStep

(* An id changes hands: s gives what it names to o and keeps nothing.      *)
LEMMA HandOver ==
  ASSUME OwnerInv, NEW o \in Obj, NEW s \in Obj, o # s, Live(s),
         UNCHANGED <<table, current_dvid>>,
         DOMAIN objs' = Obj, \A p \in Obj : DOMAIN objs'[p] = Fields,
         objs'[o].dvid = objs[s].dvid, objs'[o].is_view = objs[s].is_view,
         objs'[s].dvid = 0,
         \A p \in Obj : p # o /\ p # s => objs'[p] = objs[p]
  PROVE  OwnerInv' /\ NewDataFresh
<1>1. SingleOwner'
  BY DEF OwnerInv, SingleOwner, Owns, Live
<1> QED
  BY <1>1, RenameStep

LEMMA MoveCtorStep ==
  ASSUME OwnerInv, NEW o \in Obj, NEW s \in Obj, MoveCtor(o, s)
  PROVE  OwnerInv' /\ NewDataFresh
<1>1. o # s /\ Live(s) /\ UNCHANGED <<table, current_dvid>>
  BY DEF MoveCtor, Rename, Usable
<1>2. /\ DOMAIN objs' = Obj
      /\ \A p \in Obj : DOMAIN objs'[p] = Fields
      /\ \A p \in Obj : p # o /\ p # s => objs'[p] = objs[p]
      /\ objs'[o] = objs[s]
      /\ objs'[s].dvid = 0
  BY <1>1 DEF MoveCtor, Rename, OwnerInv, Shaped, Fields
<1> QED
  BY <1>1, <1>2, HandOver

LEMMA MoveToStep ==
  ASSUME OwnerInv, NEW o \in Obj, NEW s \in Obj, MoveTo(o, s)
  PROVE  OwnerInv' /\ NewDataFresh
<1> DEFINE x == Object(Other(objs[s].kind), objs[s].dvid, objs[s].is_view, FALSE, NoSizes)
<1>1. o # s /\ Live(s) /\ UNCHANGED <<table, current_dvid>>
  BY DEF MoveTo, Rename, Usable
<1>2. DOMAIN x = Fields /\ x.dvid = objs[s].dvid /\ x.is_view = objs[s].is_view
  BY DEF Object, Fields
<1>3. objs' = [objs EXCEPT ![o] = x, ![s].dvid = 0, ![s].moved = TRUE]
  BY DEF MoveTo, Rename
<1> HIDE DEF x
<1>4. /\ DOMAIN objs' = Obj
      /\ \A p \in Obj : DOMAIN objs'[p] = Fields
      /\ \A p \in Obj : p # o /\ p # s => objs'[p] = objs[p]
      /\ objs'[o] = x
      /\ objs'[s].dvid = 0
  BY <1>1, <1>2, <1>3 DEF OwnerInv, Shaped, Fields
<1> QED
  BY <1>1, <1>2, <1>4, HandOver

LEMMA MoveAssignStep ==
  ASSUME OwnerInv, NEW o \in Obj, NEW s \in Obj, MoveAssign(o, s)
  PROVE  OwnerInv' /\ NewDataFresh
<1>1. o # s /\ Live(o) /\ Live(s) /\ UNCHANGED <<table, current_dvid>>
  BY DEF MoveAssign, Rename, Usable
<1>2. /\ DOMAIN objs' = Obj
      /\ \A p \in Obj : DOMAIN objs'[p] = Fields
      /\ \A p \in Obj : p # o /\ p # s => objs'[p] = objs[p]
      /\ objs'[o] = objs[s]
      /\ objs'[s].dvid = objs[o].dvid
      /\ objs'[s].is_view = objs[o].is_view
  BY <1>1 DEF MoveAssign, Rename, OwnerInv, Shaped, Fields
<1>3. SingleOwner'
  BY <1>1, <1>2 DEF OwnerInv, SingleOwner, Owns, Live
<1> QED
  BY <1>1, <1>2, <1>3, RenameStep

(* One object at most comes to name an id, which is new; the rest keep     *)
(* theirs.                                                                 *)
LEMMA ChangeStep ==
  ASSUME OwnerInv, NEW o \in Obj,
         DOMAIN objs' = Obj, \A p \in Obj : DOMAIN objs'[p] = Fields,
         \A r \in Rank : DOMAIN table'[r] = Dvid,
         current_dvid' \in {current_dvid, current_dvid + 1, current_dvid + 2},
         \A p \in Obj :
           \/ /\ objs'[p].dvid = objs[p].dvid
              /\ objs'[p].kind = objs[p].kind
              /\ objs'[p].is_view = objs[p].is_view
           \/ p = o /\ objs'[p].dvid = 0
           \/ p = o /\ objs'[p].dvid \in current_dvid .. current_dvid' - 1
  PROVE  OwnerInv'
<1>1. Shaped' /\ Named'
  BY DEF OwnerInv, Shaped, Named
<1>2. \A p \in Obj : objs[p].dvid < current_dvid /\ objs[p].dvid \in Nat /\ current_dvid \in Nat
  BY DEF OwnerInv, Shaped, Named
<1>3. ASSUME NEW p \in Obj, NEW q \in Obj, Owns(p)', Owns(q)', objs'[p].dvid = objs'[q].dvid
      PROVE  p = q
  <2>1. CASE p # o /\ q # o
    BY <1>3, <2>1 DEF OwnerInv, SingleOwner, Owns, Live
  <2>2. CASE p = o \/ q = o
    BY <1>2, <1>3, <2>2 DEF OwnerInv, SingleOwner, Owns, Live
  <2> QED
    BY <2>1, <2>2
<1> QED
  BY <1>1, <1>3 DEF OwnerInv, SingleOwner

LEMMA DestroyStep ==
  ASSUME OwnerInv, NEW o \in Obj, Destroy(o)
  PROVE  OwnerInv' /\ NewDataFresh
<1>1. /\ objs' = [objs EXCEPT ![o] = Nothing]
      /\ current_dvid' = current_dvid
      /\ table' = Deleted(table, objs[o].dvid) \/ table' = table
  BY DEF Destroy
<1>2. /\ \A r \in Rank : DOMAIN table'[r] = Dvid
      /\ \A r \in Rank, d \in Dvid : table'[r][d] = table[r][d] \/ table'[r][d] = absent
  BY <1>1, DeletedFacts DEF OwnerInv, Shaped
<1>3. /\ DOMAIN objs' = Obj
      /\ \A p \in Obj : DOMAIN objs'[p] = Fields
      /\ \A p \in Obj : objs'[p] = objs[p] \/ (p = o /\ objs'[p].dvid = 0)
  BY <1>1 DEF OwnerInv, Shaped, Nothing, Object, Fields
<1>4. OwnerInv'
  BY <1>1, <1>2, <1>3, ChangeStep
<1> QED
  BY <1>2, <1>4 DEF NewDataFresh

LEMMA CopyAssignStep ==
  ASSUME OwnerInv, NEW o \in Obj, NEW s \in Obj, CopyAssign(o, s)
  PROVE  OwnerInv' /\ NewDataFresh
<1> DEFINE left == IF Owns(o) THEN Deleted(table, objs[o].dvid) ELSE table
           copy(d) == [objs EXCEPT ![o] = Object(objs[s].kind, d, FALSE,
                          objs[s].is_sizevec_valid, objs[s].sizevec)]
<1>1. /\ \A r \in Rank : DOMAIN left[r] = Dvid
      /\ \A r \in Rank, d \in Dvid : left[r][d] = table[r][d] \/ left[r][d] = absent
  BY DeletedFacts DEF OwnerInv, Shaped
<1>2. ASSUME NEW d
      PROVE  /\ DOMAIN copy(d) = Obj
             /\ \A p \in Obj : DOMAIN copy(d)[p] = Fields
             /\ \A p \in Obj : copy(d)[p] = objs[p] \/ (p = o /\ copy(d)[p].dvid = d)
  BY DEF OwnerInv, Shaped, Object, Fields
<1>3. \/ table' = left /\ UNCHANGED <<objs, current_dvid>>
      \/ table' = left /\ objs' = copy(0) /\ UNCHANGED current_dvid
      \/ /\ current_dvid' = current_dvid + 1
         /\ \E bad \in Failing(left, objs[s].dvid) :
              /\ table' = Stored(left, current_dvid, Lengths(left, objs[s].dvid), bad)
              /\ objs' = copy(current_dvid) \/ objs' = objs
  BY DEF CopyAssign
<1> HIDE DEF left, copy
<1>4. CASE table' = left /\ UNCHANGED <<objs, current_dvid>>
  <2>1. OwnerInv'
    BY <1>1, <1>4 DEF OwnerInv, Shaped, Named, SingleOwner, Owns, Live
  <2> QED
    BY <1>1, <1>4, <2>1 DEF NewDataFresh
<1>5. CASE table' = left /\ objs' = copy(0) /\ UNCHANGED current_dvid
  <2>1. OwnerInv'
    BY <1>1, <1>2, <1>5, ChangeStep
  <2> QED
    BY <1>1, <1>5, <2>1 DEF NewDataFresh
<1>6. ASSUME NEW bad, current_dvid' = current_dvid + 1,
             table' = Stored(left, current_dvid, Lengths(left, objs[s].dvid), bad),
             objs' = copy(current_dvid) \/ objs' = objs
      PROVE  OwnerInv' /\ NewDataFresh
  <2>1. \A r \in Rank : /\ DOMAIN table'[r] = Dvid
                        /\ \A d \in Dvid : d # current_dvid => table'[r][d] = left[r][d]
    BY <1>1, <1>6, StoredFacts
  <2>2. /\ DOMAIN objs' = Obj
        /\ \A p \in Obj : DOMAIN objs'[p] = Fields
        /\ \A p \in Obj : objs'[p] = objs[p] \/ (p = o /\ objs'[p].dvid = current_dvid)
    BY <1>2, <1>6 DEF OwnerInv, Shaped
  <2>3. current_dvid \in current_dvid .. current_dvid' - 1
    BY <1>6 DEF OwnerInv, Shaped
  <2>4. OwnerInv'
    BY <1>6, <2>1, <2>2, <2>3, ChangeStep
  <2>5. NewDataFresh
    BY <1>1, <2>1 DEF NewDataFresh, OwnerInv, Shaped
  <2> QED
    BY <2>4, <2>5
<1> QED
  BY <1>3, <1>4, <1>5, <1>6

(* Asking for sizes fills a cache and nothing else.                        *)
LEMMA SizedFacts ==
  ASSUME OwnerInv, NEW o \in Obj
  PROVE  /\ DOMAIN Sized(o) = Obj
         /\ \A p \in Obj : /\ DOMAIN Sized(o)[p] = Fields
                           /\ Sized(o)[p].dvid = objs[p].dvid
                           /\ Sized(o)[p].kind = objs[p].kind
                           /\ Sized(o)[p].is_view = objs[p].is_view
BY DEF OwnerInv, Shaped, Sized, Fields

LEMMA SizesStep ==
  ASSUME OwnerInv, NEW o \in Obj, Sizes(o)
  PROVE  OwnerInv' /\ NewDataFresh
BY SizedFacts, KeepStep DEF Sizes, Rename

LEMMA TruncateStep ==
  ASSUME OwnerInv, NEW o \in Obj, NEW s \in Obj, NEW trunc, Truncate(o, s, trunc)
  PROVE  OwnerInv' /\ NewDataFresh
<1> DEFINE x == Object("dvector", current_dvid, FALSE, FALSE, NoSizes)
<1>1. PICK bad \in Failing(table, objs[s].dvid) :
        /\ current_dvid' = current_dvid + 1
        /\ table' = Stored(table, current_dvid,
             [r \in Rank |-> Smaller(Lengths(table, objs[s].dvid)[r], trunc[r])], bad)
        /\ objs' = [Sized(s) EXCEPT ![o] = x] \/ objs' = Sized(s)
  BY DEF Truncate
<1>2. DOMAIN x = Fields /\ x.dvid = current_dvid
  BY DEF Object, Fields
<1> HIDE DEF x
<1>3. \A r \in Rank : /\ DOMAIN table'[r] = Dvid
                      /\ \A d \in Dvid : d # current_dvid => table'[r][d] = table[r][d]
  BY <1>1, StoredFacts DEF OwnerInv, Shaped
<1>4. /\ DOMAIN objs' = Obj
      /\ \A p \in Obj : DOMAIN objs'[p] = Fields
      /\ \A p \in Obj :
           \/ /\ objs'[p].dvid = objs[p].dvid
              /\ objs'[p].kind = objs[p].kind
              /\ objs'[p].is_view = objs[p].is_view
           \/ p = o /\ objs'[p].dvid = current_dvid
  BY <1>1, <1>2, SizedFacts
<1>5. current_dvid \in current_dvid .. current_dvid' - 1
  BY <1>1 DEF OwnerInv, Shaped
<1>6. OwnerInv'
  BY <1>1, <1>3, <1>4, <1>5, ChangeStep
<1>7. NewDataFresh
  BY <1>3 DEF NewDataFresh, OwnerInv, Shaped
<1> QED
  BY <1>6, <1>7

(* Storing under an id only where it has data already.                     *)
LEMMA InplaceFilterStep ==
  ASSUME OwnerInv, NEW o \in Obj, InplaceFilter(o)
  PROVE  OwnerInv' /\ NewDataFresh
<1>1. PICK len \in Lens, bad \in Failing(table, objs[o].dvid) :
        /\ table' = Stored(table, objs[o].dvid, len, bad)
        /\ objs' = [objs EXCEPT ![o].is_sizevec_valid = FALSE] \/ objs' = objs
        /\ UNCHANGED current_dvid
  BY DEF InplaceFilter
<1>2. /\ \A r \in Rank : DOMAIN table'[r] = Dvid
      /\ \A r \in Rank, d \in Dvid : d # objs[o].dvid => table'[r][d] = table[r][d]
      /\ \A r \in bad : r \in Rank => table'[r] = table[r]
  BY <1>1, StoredFacts DEF OwnerInv, Shaped
<1>3. \A r \in Rank : table[r][objs[o].dvid] = absent => r \in bad
  BY <1>1 DEF Failing, Missing
<1>4. /\ DOMAIN objs' = Obj
      /\ \A p \in Obj : DOMAIN objs'[p] = Fields
      /\ \A p \in Obj : /\ objs'[p].dvid = objs[p].dvid
                        /\ objs'[p].kind = objs[p].kind
                        /\ objs'[p].is_view = objs[p].is_view
  BY <1>1 DEF OwnerInv, Shaped, Fields
<1>5. OwnerInv'
  BY <1>1, <1>2, <1>4, ChangeStep
<1> QED
  BY <1>2, <1>3, <1>5 DEF NewDataFresh

LEMMA MapvPartitionsStep ==
  ASSUME OwnerInv, NEW o \in Obj, MapvPartitions(o)
  PROVE  OwnerInv' /\ NewDataFresh
<1> DEFINE bad == Missing(table, objs[o].dvid)
<1>1. PICK len : table' = Stored(table, objs[o].dvid, len, bad)
  BY DEF MapvPartitions
<1>2. UNCHANGED <<objs, current_dvid>>
  BY DEF MapvPartitions
<1>3. \A r \in Rank : table[r][objs[o].dvid] = absent => r \in bad
  BY DEF Missing
<1> HIDE DEF bad
<1>4. /\ \A r \in Rank : DOMAIN table'[r] = Dvid
      /\ \A r \in Rank, d \in Dvid : d # objs[o].dvid => table'[r][d] = table[r][d]
      /\ \A r \in bad : r \in Rank => table'[r] = table[r]
  BY <1>1, StoredFacts DEF OwnerInv, Shaped
<1>5. OwnerInv'
  BY <1>2, <1>4, ChangeStep DEF OwnerInv, Shaped
<1> QED
  BY <1>3, <1>4, <1>5 DEF NewDataFresh

LEMMA ClearStep ==
  ASSUME OwnerInv, NEW o \in Obj, Clear(o)
  PROVE  OwnerInv' /\ NewDataFresh
<1>1. /\ table' = Stored(table, objs[o].dvid, NoSizes, {})
      /\ objs' = [objs EXCEPT ![o].is_sizevec_valid = FALSE]
      /\ UNCHANGED current_dvid
  BY DEF Clear
<1>2. /\ \A r \in Rank : DOMAIN table'[r] = Dvid
      /\ \A r \in Rank, d \in Dvid : d # objs[o].dvid => table'[r][d] = table[r][d]
  BY <1>1, StoredFacts DEF OwnerInv, Shaped
<1>3. \A r \in Rank : table[r][objs[o].dvid] # absent
  BY DEF Clear, Held, Missing
<1>4. /\ DOMAIN objs' = Obj
      /\ \A p \in Obj : DOMAIN objs'[p] = Fields
      /\ \A p \in Obj : /\ objs'[p].dvid = objs[p].dvid
                        /\ objs'[p].kind = objs[p].kind
                        /\ objs'[p].is_view = objs[p].is_view
  BY <1>1 DEF OwnerInv, Shaped, Fields
<1>5. OwnerInv'
  BY <1>1, <1>2, <1>4, ChangeStep
<1> QED
  BY <1>2, <1>3, <1>5 DEF NewDataFresh

LEMMA AlignAsStep ==
  ASSUME OwnerInv, NEW o \in Obj, NEW dst, AlignAs(o, dst)
  PROVE  OwnerInv' /\ NewDataFresh
<1> DEFINE x == Object("dvector", current_dvid, FALSE, TRUE, dst)
<1>1. \/ Rename(Sized(o))
      \/ /\ current_dvid' = current_dvid + 1
         /\ \E arrived : table' =
              Deleted(Stored(table, current_dvid, arrived, {}), objs[o].dvid)
         /\ objs' = [objs EXCEPT ![o] = x]
      \/ UNCHANGED <<objs, table, current_dvid>>
  BY DEF AlignAs
<1>2. DOMAIN x = Fields /\ x.dvid = current_dvid
  BY DEF Object, Fields
<1> HIDE DEF x
<1>3. CASE Rename(Sized(o))
  BY <1>3, SizedFacts, KeepStep DEF Rename
<1>4. ASSUME NEW arrived, current_dvid' = current_dvid + 1,
             table' = Deleted(Stored(table, current_dvid, arrived, {}), objs[o].dvid),
             objs' = [objs EXCEPT ![o] = x]
      PROVE  OwnerInv' /\ NewDataFresh
  <2> DEFINE new == Stored(table, current_dvid, arrived, {})
  <2>1. \A r \in Rank : /\ DOMAIN new[r] = Dvid
                        /\ \A d \in Dvid : d # current_dvid => new[r][d] = table[r][d]
    BY StoredFacts DEF OwnerInv, Shaped
  <2> HIDE DEF new
  <2>2. table' = Deleted(new, objs[o].dvid)
    BY <1>4 DEF new
  <2>3. \A r \in Rank :
          /\ DOMAIN table'[r] = Dvid
          /\ \A d \in Dvid : table'[r][d] = new[r][d] \/ table'[r][d] = absent
    BY <2>1, <2>2, DeletedFacts
  <2>4. /\ DOMAIN objs' = Obj
        /\ \A p \in Obj : DOMAIN objs'[p] = Fields
        /\ \A p \in Obj : objs'[p] = objs[p] \/ (p = o /\ objs'[p].dvid = current_dvid)
    BY <1>2, <1>4 DEF OwnerInv, Shaped
  <2>5. current_dvid \in current_dvid .. current_dvid' - 1
    BY <1>4 DEF OwnerInv, Shaped
  <2>6. OwnerInv'
    BY <1>4, <2>3, <2>4, <2>5, ChangeStep
  <2>7. NewDataFresh
    BY <2>1, <2>3 DEF NewDataFresh, OwnerInv, Shaped
  <2> QED
    BY <2>6, <2>7
<1>5. CASE UNCHANGED <<objs, table, current_dvid>>
  BY <1>5, KeepStep DEF OwnerInv, Shaped
<1> QED
  BY <1>1, <1>3, <1>4, <1>5

LEMMA SortStep ==
  ASSUME OwnerInv, NEW o \in Obj, Sort(o)
  PROVE  OwnerInv' /\ NewDataFresh
<1> DEFINE new == Stored(table, current_dvid, [r \in Rank |-> N], {})
<1>1. /\ current_dvid' = current_dvid + 2
      /\ \E len \in Lens : table' = Stored(new, current_dvid + 1, len, {})
      /\ objs' = [objs EXCEPT ![o].dvid = current_dvid + 1]
  BY DEF Sort
<1>2. \A r \in Rank : /\ DOMAIN new[r] = Dvid
                      /\ \A d \in Dvid : d # current_dvid => new[r][d] = table[r][d]
  BY StoredFacts DEF OwnerInv, Shaped
<1> HIDE DEF new
<1>3. \A r \in Rank : /\ DOMAIN table'[r] = Dvid
                      /\ \A d \in Dvid : d # current_dvid + 1 => table'[r][d] = new[r][d]
  BY <1>1, <1>2, StoredFacts
<1>4. /\ DOMAIN objs' = Obj
      /\ \A p \in Obj : DOMAIN objs'[p] = Fields
      /\ \A p \in Obj : objs'[p] = objs[p] \/ (p = o /\ objs'[p].dvid = current_dvid + 1)
  BY <1>1 DEF OwnerInv, Shaped, Fields
<1>5. current_dvid + 1 \in current_dvid .. current_dvid' - 1
  BY <1>1 DEF OwnerInv, Shaped
<1>6. OwnerInv'
  BY <1>1, <1>3, <1>4, <1>5, ChangeStep
<1>7. NewDataFresh
  BY <1>2, <1>3 DEF NewDataFresh, OwnerInv, Shaped
<1> QED
  BY <1>6, <1>7

---------------------------------------------------------------------------
LEMMA InitOwnerInv == Init => OwnerInv
BY DEF Init, OwnerInv, Shaped, Named, SingleOwner, Owns, Live, Nothing, Object, Fields

LEMMA NextOwnerInv ==
  ASSUME OwnerInv, [Next]_vars
  PROVE  OwnerInv' /\ NewDataFresh
<1>1. ASSUME NEW o \in Obj, Declare(o) \/ Scatter(o) \/ Destroy(o) \/ Sizes(o)
      PROVE  OwnerInv' /\ NewDataFresh
  BY <1>1, DeclareStep, MakeStep, DestroyStep, SizesStep DEF Scatter
<1>2. ASSUME NEW o \in Obj,
             \/ MapvPartitions(o) \/ InplaceFilter(o) \/ Clear(o)
             \/ Align(o) \/ AlignBlock(o) \/ Sort(o)
      PROVE  OwnerInv' /\ NewDataFresh
  BY <1>2, MapvPartitionsStep, InplaceFilterStep, ClearStep, AlignAsStep, SortStep
  DEF Align, AlignBlock
<1>3. ASSUME NEW o \in Obj, NEW s \in Obj,
             Map(o, s) \/ MapPartitions(o, s) \/ head(o, s) \/ tail(o, s)
      PROVE  OwnerInv' /\ NewDataFresh
  <2>1. CASE Map(o, s)
    BY <2>1, MakeStep DEF Map
  <2>2. CASE MapPartitions(o, s)
    BY <2>2, MakeStep DEF MapPartitions
  <2>3. CASE head(o, s) \/ tail(o, s)
    BY <2>3, TruncateStep DEF head, tail
  <2> QED
    BY <1>3, <2>1, <2>2, <2>3
<1>4. ASSUME NEW o \in Obj, NEW s \in Obj, CopyCtor(o, s) \/ CopyAs(o, s) \/ CopyAssign(o, s)
      PROVE  OwnerInv' /\ NewDataFresh
  BY <1>4, DuplicateStep, CopyAssignStep DEF CopyCtor, CopyAs
<1>5. ASSUME NEW o \in Obj, NEW s \in Obj,
             ViewAs(o, s) \/ MoveCtor(o, s) \/ MoveTo(o, s) \/ MoveAssign(o, s)
      PROVE  OwnerInv' /\ NewDataFresh
  BY <1>5, ViewAsStep, MoveCtorStep, MoveToStep, MoveAssignStep
<1>6. CASE UNCHANGED vars
  BY <1>6, KeepStep DEF vars, OwnerInv, Shaped
<1> QED
  BY <1>1, <1>2, <1>3, <1>4, <1>5, <1>6 DEF Next

THEOREM OwnerInvHolds == Spec => []OwnerInv
<1>1. OwnerInv /\ [Next]_vars => OwnerInv'
  BY NextOwnerInv
<1> QED
  BY <1>1, InitOwnerInv, PTL DEF Spec

(* No id ever has two owners: no data is deleted twice, nor by an object   *)
(* that is not its owner, whatever is copied, moved, assigned, sorted or   *)
(* destroyed and whichever helpers throw.                                  *)
THEOREM UniqueOwner == Spec => []SingleOwner
<1>1. OwnerInv => SingleOwner
  BY DEF OwnerInv
<1> QED
  BY <1>1, OwnerInvHolds, PTL

(* Ids are not used again: data never appears under an id that some object *)
(* names, so a view that dangles, or an owner that lost its data, cannot   *)
(* come to name other data.                                                *)
THEOREM NeverRebound == Spec => NamesNeverRebound
<1>1. OwnerInv /\ [Next]_vars =>
        [\A r \in Rank, d \in Dvid : table[r][d] = absent /\ table'[r][d] # absent =>
           \A o \in Obj : objs[o].dvid # d]_vars
  <2>1. OwnerInv /\ [Next]_vars => NewDataFresh
    BY NextOwnerInv
  <2>2. OwnerInv => \A o \in Obj : objs[o].dvid \in Nat /\ objs[o].dvid < current_dvid
    BY DEF OwnerInv, Shaped, Named
  <2>3. OwnerInv => current_dvid \in Nat
    BY DEF OwnerInv, Shaped
  <2>4. \A d \in Dvid : d \in Int
    BY MaxDvidAssumption DEF Dvid
  <2> QED
    BY <2>1, <2>2, <2>3, <2>4 DEF NewDataFresh
<1> QED
  BY <1>1, OwnerInvHolds, PTL DEF Spec, NamesNeverRebound

---------------------------------------------------------------------------
(* What the objects and the tables say of sizes.                           *)

Objects == [kind : Kinds \cup {"none"}, dvid : 0 .. MaxDvid - 1, is_view : BOOLEAN,
            is_sizevec_valid : BOOLEAN, sizevec : Lens, moved : BOOLEAN]
Tables == [Rank -> [Dvid -> Nat \cup {absent}]]

(* Under an id that an object names no rank holds more than MaxLen.        *)
Bounded ==
  \A o \in Obj, r \in Rank : objs[o].dvid # 0 /\ table[r][objs[o].dvid] # absent =>
    table[r][objs[o].dvid] \in 0 .. MaxLen

SizesInv == OwnerInv /\ TypeOK /\ Bounded /\ OwnedAlike

LEMMA ObjectType ==
  ASSUME NEW k \in Kinds \cup {"none"}, NEW d \in 0 .. MaxDvid - 1, NEW w \in BOOLEAN,
         NEW v \in BOOLEAN, NEW z \in Lens
  PROVE  /\ Object(k, d, w, v, z) \in Objects
         /\ Object(k, d, w, v, z).kind = k
         /\ Object(k, d, w, v, z).dvid = d
         /\ Object(k, d, w, v, z).is_view = w
         /\ Object(k, d, w, v, z).is_sizevec_valid = v
         /\ Object(k, d, w, v, z).sizevec = z
         /\ Object(k, d, w, v, z).moved = FALSE
BY DEF Object, Objects

LEMMA LensFacts ==
  /\ NoSizes \in Lens
  /\ Lens \subseteq Layout
  /\ \A len \in Lens : DOMAIN len = Rank /\ \A r \in Rank : len[r] \in Nat /\ len[r] # absent
  /\ 0 # absent
BY MaxLenAssumption, AbsentAssumption DEF NoSizes, Lens, Layout

(* What a table holds after storing and deleting.                          *)
LEMMA StoredAt ==
  ASSUME NEW t \in Tables, NEW d \in 0 .. MaxDvid - 1, NEW len \in Layout,
         NEW bad \in SUBSET Rank, d = 0 => bad = Rank
  PROVE  /\ Stored(t, d, len, bad) \in Tables
         /\ \A r \in Rank, e \in Dvid : Stored(t, d, len, bad)[r][e] =
              IF e = d /\ r \notin bad THEN len[r] ELSE t[r][e]
<1>1. d # 0 => d \in Dvid
  BY MaxDvidAssumption DEF Dvid
<1>2. \A r \in Rank : len[r] \in Nat
  BY DEF Layout
<1> QED
  BY <1>1, <1>2 DEF Stored, Tables

LEMMA DeletedAt ==
  ASSUME NEW t \in Tables, NEW d \in 0 .. MaxDvid - 1
  PROVE  /\ Deleted(t, d) \in Tables
         /\ \A r \in Rank, e \in Dvid : Deleted(t, d)[r][e] = IF e = d THEN absent ELSE t[r][e]
<1>1. d # 0 => d \in Dvid
  BY MaxDvidAssumption DEF Dvid
<1>2. 0 \notin Dvid
  BY DEF Dvid
<1> QED
  BY <1>1, <1>2 DEF Deleted, Tables

LEMMA LengthsType ==
  ASSUME NEW t \in Tables, NEW d \in 0 .. MaxDvid - 1
  PROVE  /\ Lengths(t, d) \in Layout
         /\ \A r \in Rank : Lengths(t, d)[r] = IF d = 0 \/ t[r][d] = absent THEN 0 ELSE t[r][d]
<1>1. d # 0 => d \in Dvid
  BY MaxDvidAssumption DEF Dvid
<1>2. \A r \in Rank : d # 0 => t[r][d] \in Nat \cup {absent}
  BY <1>1 DEF Tables
<1> QED
  BY <1>2 DEF Lengths, Missing, Layout

LEMMA NamedLengths ==
  ASSUME SizesInv, NEW o \in Obj
  PROVE  Lengths(table, objs[o].dvid) \in Lens
<1>1. table \in Tables /\ objs[o].dvid \in 0 .. MaxDvid - 1
  BY DEF SizesInv, TypeOK, Tables
<1>2. \A r \in Rank : Lengths(table, objs[o].dvid)[r] \in 0 .. MaxLen
  BY <1>1, LengthsType, MaxLenAssumption DEF SizesInv, Bounded
<1> QED
  BY <1>2 DEF Lens, Lengths

(* Where an owner's id is not touched, its data stays alike.               *)
LEMMA MissingSame ==
  ASSUME NEW t, NEW u, NEW d, \A r \in Rank : d # 0 => (t[r][d] = absent <=> u[r][d] = absent)
  PROVE  Missing(t, d) = Missing(u, d)
BY DEF Missing

(* A new object under a new id, or none because somebody threw.            *)
LEMMA MakeSizes ==
  ASSUME SizesInv, NEW o \in Obj, NEW k \in Kinds, NEW len \in Lens, NEW bad \in SUBSET Rank,
         NEW v \in BOOLEAN, NEW z \in Lens, Make(o, k, len, bad, v, z)
  PROVE  SizesInv'
<1> DEFINE x == Object(k, current_dvid, FALSE, v, z)
<1>1. /\ current_dvid < MaxDvid /\ current_dvid' = current_dvid + 1 /\ process' = process
      /\ objs' = IF bad = {} THEN [objs EXCEPT ![o] = x] ELSE objs
      /\ table' = Stored(table, current_dvid, len, bad)
  BY DEF Make
<1>2. /\ current_dvid \in 0 .. MaxDvid - 1 /\ current_dvid # 0 /\ current_dvid' \in 1 .. MaxDvid
      /\ table \in Tables /\ objs \in [Obj -> Objects]
  BY <1>1, MaxDvidAssumption DEF SizesInv, TypeOK, Tables, Objects
<1>3. x \in Objects /\ x.dvid = current_dvid
  BY <1>2 DEF Object, Objects
<1> HIDE DEF x
<1>4. /\ table' \in Tables
      /\ \A r \in Rank, e \in Dvid : table'[r][e] =
           IF e = current_dvid /\ r \notin bad THEN len[r] ELSE table[r][e]
  BY <1>1, <1>2, LensFacts, StoredAt
<1>5. TypeOK'
  <2>1. objs' \in [Obj -> Objects]
    BY <1>1, <1>2, <1>3
  <2> QED
    BY <1>1, <1>2, <1>4, <2>1 DEF SizesInv, TypeOK, Tables, Objects
<1>6. OwnerInv'
  BY MakeStep DEF SizesInv
<1>7. \A p \in Obj : \/ objs'[p] = objs[p]
                     \/ p = o /\ bad = {} /\ objs'[p].dvid = current_dvid
  BY <1>1, <1>2, <1>3
<1>8. \A p \in Obj : /\ objs[p].dvid # current_dvid
                     /\ objs[p].dvid # 0 => objs[p].dvid \in Dvid
  BY <1>2 DEF SizesInv, OwnerInv, Named, Shaped, TypeOK, Dvid
<1>9. current_dvid \in Dvid
  BY <1>2 DEF Dvid
<1>10. Bounded'
  BY <1>4, <1>7, <1>8, <1>9, LensFacts DEF SizesInv, Bounded, Lens
<1>11. ASSUME NEW p \in Obj, Owns(p)' PROVE Missing(table', objs'[p].dvid) \in {{}, Rank}
  <2>1. CASE objs'[p] = objs[p]
    <3>1. Missing(table', objs[p].dvid) = Missing(table, objs[p].dvid)
      BY <1>4, <1>8, MissingSame
    <3>2. Owns(p)
      BY <1>11, <2>1 DEF Owns, Live
    <3> QED
      BY <2>1, <3>1, <3>2 DEF SizesInv, OwnedAlike
  <2>2. CASE bad = {} /\ objs'[p].dvid = current_dvid
    <3>1. \A r \in Rank : table'[r][current_dvid] # absent
      BY <1>4, <1>9, <2>2, LensFacts
    <3> QED
      BY <1>2, <2>2, <3>1 DEF Missing
  <2> QED
    BY <1>7, <2>1, <2>2
<1> QED
  BY <1>5, <1>6, <1>10, <1>11 DEF SizesInv, OwnedAlike

(* The tables stay, and no object owns what none owned.                    *)
LEMMA RenameSizes ==
  ASSUME SizesInv, OwnerInv', UNCHANGED <<table, current_dvid, process>>,
         objs' \in [Obj -> Objects],
         \A p \in Obj : \E q \in Obj : objs'[p].dvid = 0 \/ objs'[p].dvid = objs[q].dvid,
         \A p \in Obj : Owns(p)' => \E q \in Obj : Owns(q) /\ objs[q].dvid = objs'[p].dvid
  PROVE  SizesInv'
<1>1. TypeOK'
  BY DEF SizesInv, TypeOK, Objects
<1>2. Bounded'
  BY DEF SizesInv, Bounded
<1>3. OwnedAlike'
  BY DEF SizesInv, OwnedAlike
<1> QED
  BY <1>1, <1>2, <1>3 DEF SizesInv

LEMMA SizesTypes ==
  ASSUME SizesInv
  PROVE  /\ objs \in [Obj -> Objects]
         /\ table \in Tables
         /\ current_dvid \in 1 .. MaxDvid
         /\ \A o \in Obj : objs[o] \in Objects /\ objs[o].dvid \in 0 .. MaxDvid - 1
         /\ \A o \in Obj : objs[o].dvid # 0 => objs[o].dvid \in Dvid
BY MaxDvidAssumption DEF SizesInv, TypeOK, Objects, Tables, Dvid

LEMMA UsableKind ==
  ASSUME SizesInv, NEW s \in Obj, Live(s)
  PROVE  objs[s].kind \in Kinds /\ Other(objs[s].kind) \in Kinds
BY SizesTypes DEF Live, Objects, Kinds, Other

LEMMA DeclareSizes ==
  ASSUME SizesInv, NEW o \in Obj, Declare(o)
  PROVE  SizesInv'
<1>1. PICK k \in Kinds : objs' = [objs EXCEPT ![o] = Object(k, 0, FALSE, FALSE, NoSizes)]
  BY DEF Declare, Rename
<1> DEFINE x == Object(k, 0, FALSE, FALSE, NoSizes)
<1>2. x \in Objects /\ x.dvid = 0
  BY LensFacts, MaxDvidAssumption DEF Object, Objects
<1> HIDE DEF x
<1>3. objs' = [objs EXCEPT ![o] = x]
  BY <1>1 DEF x
<1>4. /\ objs' \in [Obj -> Objects]
      /\ \A p \in Obj : objs'[p] = objs[p] \/ objs'[p].dvid = 0
  BY <1>2, <1>3, SizesTypes
<1>5. UNCHANGED <<table, current_dvid, process>> /\ OwnerInv'
  BY DeclareStep DEF Declare, Rename, SizesInv
<1>6. \A p \in Obj : Owns(p)' => \E q \in Obj : Owns(q) /\ objs[q].dvid = objs'[p].dvid
  BY <1>4 DEF Owns, Live
<1> QED
  BY <1>4, <1>5, <1>6, RenameSizes

LEMMA DuplicateSizes ==
  ASSUME SizesInv, NEW o \in Obj, NEW s \in Obj, NEW k \in Kinds, NEW v \in BOOLEAN,
         NEW z \in Lens, Duplicate(o, s, k, v, z)
  PROVE  SizesInv'
<1>1. CASE objs[s].dvid = 0
  <2> DEFINE x == Object(k, 0, FALSE, v, z)
  <2>1. objs' = [objs EXCEPT ![o] = x] /\ UNCHANGED <<table, current_dvid, process>>
    BY <1>1 DEF Duplicate, Rename
  <2>2. x \in Objects /\ x.dvid = 0
    BY MaxDvidAssumption DEF Object, Objects
  <2> HIDE DEF x
  <2>3. /\ objs' \in [Obj -> Objects]
        /\ \A p \in Obj : objs'[p] = objs[p] \/ objs'[p].dvid = 0
    BY <2>1, <2>2, SizesTypes
  <2>4. \A p \in Obj : Owns(p)' => \E q \in Obj : Owns(q) /\ objs[q].dvid = objs'[p].dvid
    BY <2>3 DEF Owns, Live
  <2>5. OwnerInv'
    BY DuplicateStep DEF SizesInv
  <2> QED
    BY <2>1, <2>3, <2>4, <2>5, RenameSizes
<1>2. CASE objs[s].dvid # 0
  <2>1. PICK bad \in Failing(table, objs[s].dvid) :
          Make(o, k, Lengths(table, objs[s].dvid), bad, v, z)
    BY <1>2 DEF Duplicate
  <2>2. bad \in SUBSET Rank
    BY DEF Failing
  <2> QED
    BY <2>1, <2>2, NamedLengths, MakeSizes
<1> QED
  BY <1>1, <1>2

LEMMA ViewAsSizes ==
  ASSUME SizesInv, NEW o \in Obj, NEW s \in Obj, ViewAs(o, s)
  PROVE  SizesInv'
<1> DEFINE x == Object(Other(objs[s].kind), objs[s].dvid, TRUE, FALSE, NoSizes)
<1>1. objs' = [objs EXCEPT ![o] = x] /\ UNCHANGED <<table, current_dvid, process>>
  BY DEF ViewAs, Rename
<1>2. x \in Objects /\ x.dvid = objs[s].dvid /\ x.is_view
  BY SizesTypes, UsableKind, LensFacts DEF Object, Objects, ViewAs, Usable
<1> HIDE DEF x
<1>3. /\ objs' \in [Obj -> Objects]
      /\ \A p \in Obj : objs'[p] = objs[p] \/ (objs'[p].dvid = objs[s].dvid /\ objs'[p].is_view)
  BY <1>1, <1>2, SizesTypes
<1>4. \A p \in Obj : Owns(p)' => \E q \in Obj : Owns(q) /\ objs[q].dvid = objs'[p].dvid
  BY <1>3 DEF Owns, Live
<1>5. OwnerInv'
  BY ViewAsStep DEF SizesInv
<1> QED
  BY <1>1, <1>3, <1>4, <1>5, RenameSizes

LEMMA MoveCtorSizes ==
  ASSUME SizesInv, NEW o \in Obj, NEW s \in Obj, MoveCtor(o, s)
  PROVE  SizesInv'
<1>1. o # s /\ Live(s) /\ UNCHANGED <<table, current_dvid, process>>
  BY DEF MoveCtor, Rename, Usable
<1> DEFINE y == [objs[s] EXCEPT !.dvid = 0,
                   !.is_view = IF objs[s].kind = "dvector" THEN @ ELSE FALSE,
                   !.sizevec = NoSizes, !.moved = TRUE]
<1>2. y \in Objects /\ y.dvid = 0
  <2>1. objs[s] \in Objects /\ 0 \in 0 .. MaxDvid - 1 /\ NoSizes \in Lens
    BY SizesTypes, LensFacts, MaxDvidAssumption
  <2> QED
    BY <2>1 DEF Objects
<1>3. objs' = [objs EXCEPT ![o] = objs[s], ![s] = y]
  BY <1>1, SizesTypes DEF MoveCtor, Rename
<1> HIDE DEF y
<1>4. /\ objs' \in [Obj -> Objects]
      /\ \A p \in Obj : p # o /\ p # s => objs'[p] = objs[p]
      /\ objs'[o] = objs[s]
      /\ objs'[s].dvid = 0
  BY <1>1, <1>2, <1>3, SizesTypes
<1>5. \A p \in Obj : Owns(p)' => \E q \in Obj : Owns(q) /\ objs[q].dvid = objs'[p].dvid
  BY <1>1, <1>4 DEF Owns, Live
<1>6. OwnerInv'
  BY MoveCtorStep DEF SizesInv
<1> QED
  BY <1>1, <1>4, <1>5, <1>6, RenameSizes

LEMMA MoveToSizes ==
  ASSUME SizesInv, NEW o \in Obj, NEW s \in Obj, MoveTo(o, s)
  PROVE  SizesInv'
<1> DEFINE x == Object(Other(objs[s].kind), objs[s].dvid, objs[s].is_view, FALSE, NoSizes)
<1>1. o # s /\ Live(s) /\ UNCHANGED <<table, current_dvid, process>>
  BY DEF MoveTo, Rename, Usable
<1>2. x \in Objects /\ x.dvid = objs[s].dvid /\ x.is_view = objs[s].is_view
  BY <1>1, SizesTypes, UsableKind, LensFacts DEF Object, Objects
<1>3. objs' = [objs EXCEPT ![o] = x, ![s].dvid = 0, ![s].moved = TRUE]
  BY DEF MoveTo, Rename
<1> DEFINE y == [objs[s] EXCEPT !.dvid = 0, !.moved = TRUE]
<1>4. y \in Objects /\ y.dvid = 0
  <2>1. objs[s] \in Objects /\ 0 \in 0 .. MaxDvid - 1
    BY SizesTypes, MaxDvidAssumption
  <2> QED
    BY <2>1 DEF Objects
<1> HIDE DEF x
<1>5. objs' = [objs EXCEPT ![o] = x, ![s] = y]
  BY <1>1, <1>3, SizesTypes
<1> HIDE DEF y
<1>6. /\ objs' \in [Obj -> Objects]
      /\ \A p \in Obj : p # o /\ p # s => objs'[p] = objs[p]
      /\ objs'[o] = x
      /\ objs'[s].dvid = 0
  BY <1>1, <1>2, <1>4, <1>5, SizesTypes
<1>7. \A p \in Obj : Owns(p)' => \E q \in Obj : Owns(q) /\ objs[q].dvid = objs'[p].dvid
  BY <1>1, <1>2, <1>6 DEF Owns, Live
<1>8. OwnerInv'
  BY MoveToStep DEF SizesInv
<1> QED
  BY <1>1, <1>2, <1>6, <1>7, <1>8, RenameSizes

LEMMA MoveAssignSizes ==
  ASSUME SizesInv, NEW o \in Obj, NEW s \in Obj, MoveAssign(o, s)
  PROVE  SizesInv'
<1>1. o # s /\ Live(o) /\ Live(s) /\ UNCHANGED <<table, current_dvid, process>>
  BY DEF MoveAssign, Rename, Usable
<1> DEFINE y == [objs[s] EXCEPT !.dvid = objs[o].dvid, !.is_view = objs[o].is_view,
                   !.sizevec = objs[o].sizevec, !.moved = TRUE]
<1>2. y \in Objects /\ y.dvid = objs[o].dvid /\ y.is_view = objs[o].is_view
  BY SizesTypes DEF Objects
<1>3. objs' = [objs EXCEPT ![o] = objs[s], ![s] = y]
  BY <1>1, SizesTypes DEF MoveAssign, Rename
<1> HIDE DEF y
<1>4. /\ objs' \in [Obj -> Objects]
      /\ \A p \in Obj : p # o /\ p # s => objs'[p] = objs[p]
      /\ objs'[o] = objs[s]
      /\ objs'[s].dvid = objs[o].dvid
      /\ objs'[s].is_view = objs[o].is_view
  BY <1>1, <1>2, <1>3, SizesTypes
<1>5. \A p \in Obj : Owns(p)' => \E q \in Obj : Owns(q) /\ objs[q].dvid = objs'[p].dvid
  BY <1>1, <1>4 DEF Owns, Live
<1>6. OwnerInv'
  BY MoveAssignStep DEF SizesInv
<1> QED
  BY <1>1, <1>4, <1>5, <1>6, RenameSizes

(* A filled cache is a layout, and sizes() answers with one.               *)
LEMMA SizedType ==
  ASSUME SizesInv, NEW o \in Obj
  PROVE  /\ sizes(o) \in Lens
         /\ Sized(o) \in [Obj -> Objects]
         /\ \A p \in Obj : Sized(o)[p].dvid = objs[p].dvid
         /\ \A p \in Obj : p # o => Sized(o)[p] = objs[p]
<1>1. sizes(o) \in Lens
  BY SizesTypes, NamedLengths DEF sizes, Objects
<1> QED
  BY <1>1, SizesTypes DEF Sized, Objects

LEMMA SizedSizes ==
  ASSUME SizesInv, NEW o \in Obj, Rename(Sized(o))
  PROVE  SizesInv'
<1>1. objs' = Sized(o) /\ UNCHANGED <<table, current_dvid, process>>
  BY DEF Rename
<1>2. \A p \in Obj : Owns(p)' => Owns(p) /\ objs[p].dvid = objs'[p].dvid
  BY <1>1, SizedFacts DEF SizesInv, Owns, Live
<1>3. OwnerInv'
  BY <1>1, SizedFacts, KeepStep DEF SizesInv
<1> QED
  BY <1>1, <1>2, <1>3, SizedType, RenameSizes

(* Whoever still owns an id finds the data as it was, gone, or complete.   *)
LEMMA TablesSizes ==
  ASSUME SizesInv, OwnerInv', TypeOK', Bounded',
         \A p \in Obj : Owns(p)' =>
           \/ /\ Owns(p) /\ objs'[p].dvid = objs[p].dvid
              /\ \A r \in Rank :
                   table'[r][objs[p].dvid] = absent <=> table[r][objs[p].dvid] = absent
           \/ \A r \in Rank : table'[r][objs'[p].dvid] = absent
           \/ \A r \in Rank : table'[r][objs'[p].dvid] # absent
  PROVE  SizesInv'
<1>1. ASSUME NEW p \in Obj, Owns(p)' PROVE Missing(table', objs'[p].dvid) \in {{}, Rank}
  <2>1. CASE /\ Owns(p) /\ objs'[p].dvid = objs[p].dvid
             /\ \A r \in Rank :
                  table'[r][objs[p].dvid] = absent <=> table[r][objs[p].dvid] = absent
    <3>1. Missing(table', objs[p].dvid) = Missing(table, objs[p].dvid)
      BY <2>1, MissingSame
    <3> QED
      BY <2>1, <3>1 DEF SizesInv, OwnedAlike
  <2>2. CASE \A r \in Rank : table'[r][objs'[p].dvid] = absent
    BY <2>2 DEF Missing
  <2>3. CASE \A r \in Rank : table'[r][objs'[p].dvid] # absent
    BY <1>1, <2>3 DEF Missing, Owns
  <2> QED
    BY <1>1, <2>1, <2>2, <2>3
<1> QED
  BY <1>1 DEF SizesInv, OwnedAlike

LEMMA DestroySizes ==
  ASSUME SizesInv, NEW o \in Obj, Destroy(o)
  PROVE  SizesInv'
<1> DEFINE d == objs[o].dvid
<1>1. /\ objs' = [objs EXCEPT ![o] = Nothing]
      /\ current_dvid' = current_dvid
      /\ process' \in {"up", "terminated"}
      /\ table' = IF Owns(o) THEN Deleted(table, d) ELSE table
  BY DEF Destroy
<1>2. d \in 0 .. MaxDvid - 1 /\ table \in Tables
  BY SizesTypes
<1>3. /\ table' \in Tables
      /\ \A r \in Rank, e \in Dvid :
           table'[r][e] = IF Owns(o) /\ e = d THEN absent ELSE table[r][e]
  BY <1>1, <1>2, DeletedAt
<1>4. Nothing \in Objects /\ Nothing.kind = "none" /\ Nothing.dvid = 0
  BY LensFacts, MaxDvidAssumption DEF Nothing, Object, Objects
<1>5. /\ objs' \in [Obj -> Objects]
      /\ \A p \in Obj : p # o => objs'[p] = objs[p]
      /\ objs'[o].kind = "none" /\ objs'[o].dvid = 0
  BY <1>1, <1>4, SizesTypes
<1> HIDE DEF d
<1>6. OwnerInv'
  BY DestroyStep DEF SizesInv
<1>7. TypeOK'
  BY <1>1, <1>3, <1>5 DEF SizesInv, TypeOK, Objects, Tables
<1>8. Bounded'
  BY <1>3, <1>5, SizesTypes DEF SizesInv, Bounded
<1>9. ASSUME NEW p \in Obj, Owns(p)'
      PROVE  /\ Owns(p) /\ objs'[p].dvid = objs[p].dvid
             /\ \A r \in Rank :
                  table'[r][objs[p].dvid] = absent <=> table[r][objs[p].dvid] = absent
  <2>1. p # o /\ Owns(p) /\ objs'[p].dvid = objs[p].dvid
    BY <1>5, <1>9 DEF Owns, Live
  <2>2. objs[p].dvid \in Dvid
    BY <2>1, SizesTypes DEF Owns
  <2>3. ~ (Owns(o) /\ objs[p].dvid = d)
    BY <2>1 DEF d, SizesInv, OwnerInv, SingleOwner
  <2> QED
    BY <1>3, <2>1, <2>2, <2>3
<1> QED
  BY <1>6, <1>7, <1>8, <1>9, TablesSizes

LEMMA CopyAssignSizes ==
  ASSUME SizesInv, NEW o \in Obj, NEW s \in Obj, CopyAssign(o, s)
  PROVE  SizesInv'
<1> DEFINE old == objs[o].dvid
           src == objs[s].dvid
           left == IF Owns(o) THEN Deleted(table, old) ELSE table
           copy(d) == [objs EXCEPT ![o] = Object(objs[s].kind, d, FALSE,
                          objs[s].is_sizevec_valid, objs[s].sizevec)]
<1>1. OwnerInv'
  BY CopyAssignStep DEF SizesInv
<1>2. /\ left \in Tables
      /\ \A r \in Rank, e \in Dvid :
           left[r][e] = IF Owns(o) /\ e = old THEN absent ELSE table[r][e]
  BY SizesTypes, DeletedAt
<1>3. ASSUME NEW d \in 0 .. MaxDvid - 1
      PROVE  /\ copy(d) \in [Obj -> Objects]
             /\ \A p \in Obj : p # o => copy(d)[p] = objs[p]
             /\ copy(d)[o].dvid = d
  <2>1. Object(objs[s].kind, d, FALSE, objs[s].is_sizevec_valid, objs[s].sizevec) \in Objects
    BY SizesTypes DEF Object, Objects
  <2> QED
    BY <2>1, SizesTypes DEF Object
<1>4. /\ \/ table' = left /\ objs' = objs /\ current_dvid' = current_dvid
         \/ table' = left /\ objs' = copy(0) /\ current_dvid' = current_dvid
         \/ /\ src # 0 /\ current_dvid < MaxDvid /\ current_dvid' = current_dvid + 1
            /\ \E bad \in Failing(left, src) :
                 /\ table' = Stored(left, current_dvid, Lengths(left, src), bad)
                 /\ objs' = IF bad = {} THEN copy(current_dvid) ELSE objs
      /\ process' = process
  BY DEF CopyAssign
<1> HIDE DEF left, copy
<1>5. ASSUME NEW p \in Obj, Owns(p), p # o
      PROVE  \A r \in Rank : left[r][objs[p].dvid] = table[r][objs[p].dvid]
  <2>1. objs[p].dvid \in Dvid /\ ~ (Owns(o) /\ objs[p].dvid = old)
    BY <1>5, SizesTypes DEF SizesInv, OwnerInv, SingleOwner, Owns
  <2> QED
    BY <1>2, <2>1
<1>6. Owns(o) => \A r \in Rank : left[r][old] = absent
  BY <1>2, SizesTypes DEF Owns
<1>7. \A p \in Obj, r \in Rank : objs[p].dvid # 0 /\ left[r][objs[p].dvid] # absent =>
        left[r][objs[p].dvid] \in 0 .. MaxLen
  BY <1>2, SizesTypes DEF SizesInv, Bounded
<1>8. CASE table' = left /\ objs' = objs /\ current_dvid' = current_dvid
  <2>1. TypeOK'
    BY <1>2, <1>4, <1>8 DEF SizesInv, TypeOK, Tables
  <2>2. Bounded'
    BY <1>7, <1>8 DEF Bounded
  <2>3. \A p \in Obj : Owns(p)' => Owns(p)
    BY <1>8 DEF Owns, Live
  <2> QED
    BY <1>1, <1>5, <1>6, <1>8, <2>1, <2>2, <2>3, TablesSizes
<1>9. CASE table' = left /\ objs' = copy(0) /\ current_dvid' = current_dvid
  <2>0. /\ objs' \in [Obj -> Objects]
        /\ \A p \in Obj : p # o => objs'[p] = objs[p]
        /\ objs'[o].dvid = 0
    BY <1>3, <1>9, MaxDvidAssumption
  <2>1. TypeOK'
    BY <1>2, <1>4, <1>9, <2>0 DEF SizesInv, TypeOK, Tables, Objects
  <2>2. Bounded'
    BY <1>7, <1>9, <2>0 DEF Bounded
  <2>3. \A p \in Obj : Owns(p)' => p # o /\ Owns(p) /\ objs'[p] = objs[p]
    BY <2>0 DEF Owns, Live
  <2> QED
    BY <1>1, <1>5, <1>9, <2>1, <2>2, <2>3, TablesSizes
<1>10. ASSUME NEW bad \in Failing(left, src),
              src # 0, current_dvid < MaxDvid, current_dvid' = current_dvid + 1,
              table' = Stored(left, current_dvid, Lengths(left, src), bad),
              objs' = IF bad = {} THEN copy(current_dvid) ELSE objs
       PROVE  SizesInv'
  <2>0. /\ current_dvid \in 0 .. MaxDvid - 1 /\ current_dvid # 0 /\ current_dvid \in Dvid
        /\ current_dvid' \in 1 .. MaxDvid
    BY <1>10, SizesTypes, MaxDvidAssumption DEF Dvid
  <2>1. Lengths(left, src) \in Layout /\ \A r \in Rank : Lengths(left, src)[r] \in 0 .. MaxLen
    BY <1>2, <1>7, SizesTypes, LengthsType, MaxLenAssumption
  <2>2. /\ table' \in Tables
        /\ \A r \in Rank, e \in Dvid : table'[r][e] =
             IF e = current_dvid /\ r \notin bad THEN Lengths(left, src)[r] ELSE left[r][e]
    <3>1. bad \in SUBSET Rank
      BY DEF Failing
    <3> QED
      BY <1>2, <1>10, <2>0, <2>1, <3>1, StoredAt
  <2>3. /\ objs' \in [Obj -> Objects]
        /\ \A p \in Obj : \/ objs'[p] = objs[p] /\ (p # o \/ bad # {})
                          \/ p = o /\ bad = {} /\ objs'[p].dvid = current_dvid
    BY <1>3, <1>10, <2>0, SizesTypes
  <2>4. \A p \in Obj : /\ objs[p].dvid # current_dvid
                       /\ objs[p].dvid # 0 => objs[p].dvid \in Dvid
    BY SizesTypes DEF SizesInv, OwnerInv, Named
  <2>5. TypeOK'
    BY <1>4, <2>0, <2>2, <2>3 DEF SizesInv, TypeOK, Tables, Objects
  <2>6. Bounded'
    BY <1>7, <2>0, <2>1, <2>2, <2>3, <2>4 DEF Bounded
  <2>7. ASSUME NEW p \in Obj, Owns(p)'
        PROVE  \/ /\ Owns(p) /\ objs'[p].dvid = objs[p].dvid
                  /\ \A r \in Rank :
                       table'[r][objs[p].dvid] = absent <=> table[r][objs[p].dvid] = absent
               \/ \A r \in Rank : table'[r][objs'[p].dvid] = absent
               \/ \A r \in Rank : table'[r][objs'[p].dvid] # absent
    <3>1. CASE objs'[p] = objs[p]
      <4>1. Owns(p) /\ objs[p].dvid \in Dvid /\ objs[p].dvid # current_dvid
        BY <2>4, <2>7, <3>1 DEF Owns, Live
      <4>2. \A r \in Rank : table'[r][objs[p].dvid] = left[r][objs[p].dvid]
        BY <2>2, <4>1
      <4>3. CASE p # o
        BY <1>5, <3>1, <4>1, <4>2, <4>3
      <4>4. CASE p = o
        BY <1>6, <3>1, <4>1, <4>2, <4>4
      <4> QED
        BY <4>3, <4>4
    <3>2. CASE bad = {} /\ objs'[p].dvid = current_dvid
      <4>1. \A r \in Rank : table'[r][current_dvid] \in Nat
        BY <2>0, <2>1, <2>2, <3>2
      <4> QED
        BY <3>2, <4>1, AbsentAssumption
    <3> QED
      BY <2>3, <3>1, <3>2
  <2> QED
    BY <1>1, <2>5, <2>6, <2>7, TablesSizes
<1> QED
  BY <1>4, <1>8, <1>9, <1>10

LEMMA TruncateSizes ==
  ASSUME SizesInv, NEW o \in Obj, NEW s \in Obj, NEW trunc \in Layout, Truncate(o, s, trunc)
  PROVE  SizesInv'
<1> DEFINE d == objs[s].dvid
           x == Object("dvector", current_dvid, FALSE, FALSE, NoSizes)
           len == [r \in Rank |-> Smaller(Lengths(table, d)[r], trunc[r])]
<1>1. PICK bad \in Failing(table, d) :
        /\ ~ Live(o) /\ current_dvid < MaxDvid
        /\ current_dvid' = current_dvid + 1 /\ process' = process
        /\ table' = Stored(table, current_dvid, len, bad)
        /\ objs' = IF bad = {} THEN [Sized(s) EXCEPT ![o] = x] ELSE Sized(s)
  BY DEF Truncate
<1>2. /\ current_dvid \in 0 .. MaxDvid - 1 /\ current_dvid # 0 /\ current_dvid \in Dvid
      /\ current_dvid' \in 1 .. MaxDvid
  BY <1>1, SizesTypes, MaxDvidAssumption DEF Dvid
<1>3. x \in Objects /\ x.dvid = current_dvid
  BY <1>2, LensFacts DEF Object, Objects, Kinds
<1>4. len \in Layout /\ \A r \in Rank : len[r] \in 0 .. MaxLen
  <2>1. \A r \in Rank : Lengths(table, d)[r] \in 0 .. MaxLen /\ trunc[r] \in Nat
    BY NamedLengths DEF Lens, Layout
  <2> QED
    BY <2>1, MaxLenAssumption DEF Smaller, Layout
<1> HIDE DEF x, len
<1>5. bad \in SUBSET Rank /\ table \in Tables
  BY SizesTypes DEF Failing
<1>6. /\ table' \in Tables
      /\ \A r \in Rank, e \in Dvid : table'[r][e] =
           IF e = current_dvid /\ r \notin bad THEN len[r] ELSE table[r][e]
  BY <1>1, <1>2, <1>4, <1>5, StoredAt
<1>7. /\ objs' \in [Obj -> Objects]
      /\ \A p \in Obj : \/ /\ objs'[p].dvid = objs[p].dvid
                           /\ objs'[p].kind = objs[p].kind
                           /\ objs'[p].is_view = objs[p].is_view
                        \/ p = o /\ bad = {} /\ objs'[p].dvid = current_dvid
  BY <1>1, <1>3, SizedType, SizedFacts DEF SizesInv
<1>8. \A p \in Obj : /\ objs[p].dvid # current_dvid
                     /\ objs[p].dvid # 0 => objs[p].dvid \in Dvid
  BY SizesTypes DEF SizesInv, OwnerInv, Named
<1>9. OwnerInv'
  BY TruncateStep DEF SizesInv
<1>10. TypeOK'
  BY <1>1, <1>2, <1>6, <1>7 DEF SizesInv, TypeOK, Tables, Objects
<1>11. Bounded'
  BY <1>2, <1>4, <1>6, <1>7, <1>8 DEF SizesInv, Bounded
<1>12. ASSUME NEW p \in Obj, Owns(p)'
       PROVE  \/ /\ Owns(p) /\ objs'[p].dvid = objs[p].dvid
                 /\ \A r \in Rank :
                      table'[r][objs[p].dvid] = absent <=> table[r][objs[p].dvid] = absent
              \/ \A r \in Rank : table'[r][objs'[p].dvid] # absent
  <2>1. CASE /\ objs'[p].dvid = objs[p].dvid
             /\ objs'[p].kind = objs[p].kind
             /\ objs'[p].is_view = objs[p].is_view
    <3>1. Owns(p) /\ objs[p].dvid \in Dvid /\ objs[p].dvid # current_dvid
      BY <1>8, <1>12, <2>1 DEF Owns, Live
    <3> QED
      BY <1>6, <2>1, <3>1
  <2>2. CASE bad = {} /\ objs'[p].dvid = current_dvid
    <3>1. \A r \in Rank : table'[r][current_dvid] \in Nat
      BY <1>2, <1>4, <1>6, <2>2
    <3> QED
      BY <2>2, <3>1, AbsentAssumption
  <2> QED
    BY <1>7, <2>1, <2>2
<1> QED
  BY <1>9, <1>10, <1>11, <1>12, TablesSizes

(* In place, data changes only where there is some.                        *)
LEMMA InplaceSizes ==
  ASSUME SizesInv, OwnerInv', NEW o \in Obj, NEW len \in Lens, NEW bad \in SUBSET Rank,
         Missing(table, objs[o].dvid) \subseteq bad,
         table' = Stored(table, objs[o].dvid, len, bad),
         objs' \in {objs, [objs EXCEPT ![o].is_sizevec_valid = FALSE]},
         UNCHANGED <<current_dvid, process>>
  PROVE  SizesInv'
<1> DEFINE d == objs[o].dvid
<1>1. d = 0 => bad = Rank
  BY DEF Missing
<1>2. /\ table' \in Tables
      /\ \A r \in Rank, e \in Dvid : table'[r][e] =
           IF e = d /\ r \notin bad THEN len[r] ELSE table[r][e]
  BY <1>1, SizesTypes, LensFacts, StoredAt
<1>3. /\ objs' \in [Obj -> Objects]
      /\ \A p \in Obj : /\ objs'[p].dvid = objs[p].dvid
                        /\ objs'[p].kind = objs[p].kind
                        /\ objs'[p].is_view = objs[p].is_view
  <2> DEFINE y == [objs[o] EXCEPT !.is_sizevec_valid = FALSE]
  <2>1. /\ y \in Objects /\ y.dvid = objs[o].dvid /\ y.kind = objs[o].kind
        /\ y.is_view = objs[o].is_view
    <3>1. objs[o] \in Objects
      BY SizesTypes
    <3> QED
      BY <3>1 DEF Objects
  <2>2. objs' \in {objs, [objs EXCEPT ![o] = y]}
    OBVIOUS
  <2> HIDE DEF y
  <2> QED
    BY <2>1, <2>2, SizesTypes
<1>4. \A r \in Rank : d # 0 /\ r \notin bad => table[r][d] # absent
  BY DEF Missing
<1> HIDE DEF d
<1>5. TypeOK'
  BY <1>2, <1>3 DEF SizesInv, TypeOK, Tables, Objects
<1>6. \A r \in Rank : len[r] \in 0 .. MaxLen /\ len[r] # absent
  BY LensFacts DEF Lens
<1>7. Bounded'
  BY <1>2, <1>3, <1>6, SizesTypes DEF SizesInv, Bounded
<1>8. ASSUME NEW p \in Obj, Owns(p)'
      PROVE  /\ Owns(p) /\ objs'[p].dvid = objs[p].dvid
             /\ \A r \in Rank :
                  table'[r][objs[p].dvid] = absent <=> table[r][objs[p].dvid] = absent
  <2>1. Owns(p) /\ objs'[p].dvid = objs[p].dvid /\ objs[p].dvid \in Dvid /\ objs[p].dvid # 0
    BY <1>3, <1>8, SizesTypes DEF Owns, Live
  <2> QED
    BY <1>2, <1>4, <1>6, <2>1
<1> QED
  BY <1>5, <1>7, <1>8, TablesSizes

LEMMA InplaceFilterSizes ==
  ASSUME SizesInv, NEW o \in Obj, InplaceFilter(o)
  PROVE  SizesInv'
<1>1. PICK len \in Lens, bad \in Failing(table, objs[o].dvid) :
        /\ table' = Stored(table, objs[o].dvid, len, bad)
        /\ objs' = IF bad = {} THEN [objs EXCEPT ![o].is_sizevec_valid = FALSE] ELSE objs
  BY DEF InplaceFilter
<1>2. bad \in SUBSET Rank /\ Missing(table, objs[o].dvid) \subseteq bad
  BY DEF Failing
<1>3. objs' \in {objs, [objs EXCEPT ![o].is_sizevec_valid = FALSE]}
  BY <1>1
<1>4. OwnerInv' /\ UNCHANGED <<current_dvid, process>>
  BY InplaceFilterStep DEF SizesInv, InplaceFilter
<1> QED
  BY <1>1, <1>2, <1>3, <1>4, InplaceSizes

(* What a function given to mapv_partitions leaves of the data.            *)
LEMMA MapvLeaves ==
  ASSUME SizesInv, NEW o \in Obj, MapvPartitions(o)
  PROVE  \E len \in Lens :
           /\ table' = Stored(table, objs[o].dvid, len, Missing(table, objs[o].dvid))
           /\ o \notin Resized \/ (objs[o].is_sizevec_valid /\ ~ SizedToo) =>
                len = Lengths(table, objs[o].dvid)
<1>1. Lengths(table, objs[o].dvid) \in Lens
  BY NamedLengths
<1> QED
  BY <1>1 DEF MapvPartitions

LEMMA MapvPartitionsSizes ==
  ASSUME SizesInv, NEW o \in Obj, MapvPartitions(o)
  PROVE  SizesInv'
<1>1. PICK len \in Lens :
        table' = Stored(table, objs[o].dvid, len, Missing(table, objs[o].dvid))
  BY MapvLeaves
<1>2. Missing(table, objs[o].dvid) \in SUBSET Rank
  BY DEF Missing
<1>3. objs' = objs /\ UNCHANGED <<current_dvid, process>>
  BY DEF MapvPartitions
<1>4. OwnerInv'
  BY MapvPartitionsStep DEF SizesInv
<1> QED
  BY <1>1, <1>2, <1>3, <1>4, InplaceSizes

LEMMA ClearSizes ==
  ASSUME SizesInv, NEW o \in Obj, Clear(o)
  PROVE  SizesInv'
<1>1. /\ table' = Stored(table, objs[o].dvid, NoSizes, {})
      /\ objs' = [objs EXCEPT ![o].is_sizevec_valid = FALSE]
      /\ UNCHANGED <<current_dvid, process>>
      /\ Missing(table, objs[o].dvid) = {}
  BY DEF Clear, Held
<1>2. OwnerInv'
  BY ClearStep DEF SizesInv
<1> QED
  BY <1>1, <1>2, LensFacts, InplaceSizes

(* What arrives on a rank under the new id is what was asked for.          *)
LEMMA AlignAsSizes ==
  ASSUME SizesInv, NEW o \in Obj, NEW dst \in Lens, AlignAs(o, dst)
  PROVE  SizesInv'
<1> DEFINE d == objs[o].dvid
           x == Object("dvector", current_dvid, FALSE, TRUE, dst)
           arrived == [r \in Rank |->
             SumFunction([s \in Rank |-> alltoall_size(sizes(o), dst, s, r)])]
           new == Stored(table, current_dvid, arrived, {})
<1>1. \/ Rename(Sized(o))
      \/ /\ current_dvid < MaxDvid /\ current_dvid' = current_dvid + 1 /\ process' = process
         /\ table' = Deleted(new, d)
         /\ objs' = [objs EXCEPT ![o] = x]
      \/ process' = "crashed" /\ UNCHANGED <<objs, table, current_dvid>>
  BY DEF AlignAs
<1>2. OwnerInv'
  BY AlignAsStep DEF SizesInv
<1>3. arrived \in Lens
  <2>1. sizes(o) \in Layout /\ dst \in Layout /\ Total(sizes(o)) = Total(dst)
    BY SizedType, LensFacts DEF AlignAs
  <2>2. \A r \in Rank : arrived[r] = dst[r]
    BY <2>1, AlignArrives
  <2> QED
    BY <2>2 DEF Lens
<1>4. CASE Rename(Sized(o))
  BY <1>4, SizedSizes
<1>5. CASE process' = "crashed" /\ UNCHANGED <<objs, table, current_dvid>>
  <2>1. TypeOK' /\ Bounded' /\ OwnedAlike'
    BY <1>5 DEF SizesInv, TypeOK, Bounded, OwnedAlike, Owns, Live
  <2> QED
    BY <1>2, <2>1 DEF SizesInv
<1>6. CASE /\ current_dvid < MaxDvid /\ current_dvid' = current_dvid + 1 /\ process' = process
           /\ table' = Deleted(new, d)
           /\ objs' = [objs EXCEPT ![o] = x]
  <2>1. /\ current_dvid \in 0 .. MaxDvid - 1 /\ current_dvid # 0 /\ current_dvid \in Dvid
        /\ current_dvid' \in 1 .. MaxDvid
    BY <1>6, SizesTypes, MaxDvidAssumption DEF Dvid
  <2>2. x \in Objects /\ x.dvid = current_dvid
    BY <2>1 DEF Object, Objects, Kinds
  <2> HIDE DEF x, arrived
  <2>3. /\ new \in Tables
        /\ \A r \in Rank, e \in Dvid :
             new[r][e] = IF e = current_dvid /\ r \notin {} THEN arrived[r] ELSE table[r][e]
    BY <1>3, <2>1, SizesTypes, LensFacts, StoredAt
  <2> HIDE DEF new
  <2>4. /\ table' \in Tables
        /\ \A r \in Rank, e \in Dvid : table'[r][e] = IF e = d THEN absent ELSE new[r][e]
    BY <1>6, <2>3, SizesTypes, DeletedAt
  <2>5. /\ objs' \in [Obj -> Objects]
        /\ \A p \in Obj : \/ p # o /\ objs'[p] = objs[p]
                          \/ p = o /\ objs'[p].dvid = current_dvid
    BY <1>6, <2>2, SizesTypes
  <2>6. \A p \in Obj : /\ objs[p].dvid # current_dvid
                       /\ objs[p].dvid # 0 => objs[p].dvid \in Dvid
    BY SizesTypes DEF SizesInv, OwnerInv, Named
  <2>7. \A r \in Rank : arrived[r] \in 0 .. MaxLen /\ arrived[r] # absent
    BY <1>3, LensFacts DEF Lens
  <2>8. TypeOK'
    BY <1>6, <2>1, <2>4, <2>5 DEF SizesInv, TypeOK, Tables, Objects
  <2>9. ASSUME NEW p \in Obj, NEW r \in Rank, objs'[p].dvid # 0,
               table'[r][objs'[p].dvid] # absent
        PROVE  table'[r][objs'[p].dvid] \in 0 .. MaxLen
    <3>1. CASE objs'[p] = objs[p]
      <4>1. table'[r][objs[p].dvid] = table[r][objs[p].dvid]
        BY <2>3, <2>4, <2>6, <2>9, <3>1
      <4> QED
        BY <2>9, <3>1, <4>1 DEF SizesInv, Bounded
    <3>2. CASE objs'[p].dvid = current_dvid
      BY <2>1, <2>3, <2>4, <2>7, <2>9, <3>2
    <3> QED
      BY <2>5, <3>1, <3>2
  <2>10. ASSUME NEW p \in Obj, Owns(p)'
         PROVE  \/ /\ Owns(p) /\ objs'[p].dvid = objs[p].dvid
                   /\ \A r \in Rank :
                        table'[r][objs[p].dvid] = absent <=> table[r][objs[p].dvid] = absent
                \/ \A r \in Rank : table'[r][objs'[p].dvid] = absent
                \/ \A r \in Rank : table'[r][objs'[p].dvid] # absent
    <3>1. CASE p # o /\ objs'[p] = objs[p]
      <4>1. Owns(p) /\ objs[p].dvid \in Dvid /\ objs[p].dvid # current_dvid
        BY <2>6, <2>10, <3>1 DEF Owns, Live
      <4> QED
        BY <2>3, <2>4, <3>1, <4>1
    <3>2. CASE p = o /\ objs'[p].dvid = current_dvid
      BY <2>1, <2>3, <2>4, <2>6, <2>7, <3>2
    <3> QED
      BY <2>5, <3>1, <3>2
  <2> QED
    BY <1>2, <2>8, <2>9, <2>10, TablesSizes DEF Bounded
<1> QED
  BY <1>1, <1>4, <1>5, <1>6

LEMMA SortSizes ==
  ASSUME SizesInv, NEW o \in Obj, Sort(o)
  PROVE  SizesInv'
<1> DEFINE d == current_dvid + 1
           new == Stored(table, current_dvid, [r \in Rank |-> N], {})
<1>1. /\ d < MaxDvid /\ current_dvid' = current_dvid + 2 /\ process' = process
      /\ objs' = [objs EXCEPT ![o].dvid = d]
  BY DEF Sort
<1>2. PICK len \in Lens : table' = Stored(new, d, len, {})
  BY DEF Sort
<1>3. /\ current_dvid \in 0 .. MaxDvid - 1 /\ current_dvid # 0 /\ current_dvid \in Dvid
      /\ d \in 0 .. MaxDvid - 1 /\ d # 0 /\ d \in Dvid /\ d # current_dvid
      /\ current_dvid' \in 1 .. MaxDvid
  BY <1>1, SizesTypes, MaxDvidAssumption DEF Dvid
<1>4. [r \in Rank |-> N] \in Layout
  BY NAssumption DEF Layout
<1>5. /\ new \in Tables
      /\ \A r \in Rank, e \in Dvid : e # current_dvid => new[r][e] = table[r][e]
  BY <1>3, <1>4, SizesTypes, StoredAt
<1> HIDE DEF new, d
<1>6. /\ table' \in Tables
      /\ \A r \in Rank, e \in Dvid :
           table'[r][e] = IF e = d /\ r \notin {} THEN len[r] ELSE new[r][e]
  BY <1>2, <1>3, <1>5, LensFacts, StoredAt
<1>7. /\ objs' \in [Obj -> Objects]
      /\ \A p \in Obj : \/ p # o /\ objs'[p] = objs[p]
                        \/ p = o /\ objs'[p].dvid = d
  <2> DEFINE y == [objs[o] EXCEPT !.dvid = d]
  <2>1. y \in Objects /\ y.dvid = d
    <3>1. objs[o] \in Objects
      BY SizesTypes
    <3> QED
      BY <1>3, <3>1 DEF Objects
  <2>2. objs' = [objs EXCEPT ![o] = y]
    BY <1>1
  <2> HIDE DEF y
  <2> QED
    BY <2>1, <2>2, SizesTypes
<1>8. \A p \in Obj : /\ objs[p].dvid # current_dvid /\ objs[p].dvid # d
                     /\ objs[p].dvid # 0 => objs[p].dvid \in Dvid
  BY SizesTypes DEF SizesInv, OwnerInv, Named, d
<1>9. \A r \in Rank : len[r] \in 0 .. MaxLen /\ len[r] # absent
  BY LensFacts DEF Lens
<1>10. OwnerInv'
  BY SortStep DEF SizesInv
<1>11. TypeOK'
  BY <1>1, <1>3, <1>6, <1>7 DEF SizesInv, TypeOK, Tables, Objects
<1>12. ASSUME NEW p \in Obj, NEW r \in Rank, objs'[p].dvid # 0,
              table'[r][objs'[p].dvid] # absent
       PROVE  table'[r][objs'[p].dvid] \in 0 .. MaxLen
  <2>1. CASE objs'[p] = objs[p]
    <3>1. table'[r][objs[p].dvid] = table[r][objs[p].dvid]
      BY <1>5, <1>6, <1>8, <1>12, <2>1
    <3> QED
      BY <1>12, <2>1, <3>1 DEF SizesInv, Bounded
  <2>2. CASE objs'[p].dvid = d
    BY <1>3, <1>6, <1>9, <2>2
  <2> QED
    BY <1>7, <2>1, <2>2
<1>13. ASSUME NEW p \in Obj, Owns(p)'
       PROVE  \/ /\ Owns(p) /\ objs'[p].dvid = objs[p].dvid
                 /\ \A r \in Rank :
                      table'[r][objs[p].dvid] = absent <=> table[r][objs[p].dvid] = absent
              \/ \A r \in Rank : table'[r][objs'[p].dvid] # absent
  <2>1. CASE p # o /\ objs'[p] = objs[p]
    <3>1. Owns(p) /\ objs[p].dvid \in Dvid
      BY <1>8, <1>13, <2>1 DEF Owns, Live
    <3> QED
      BY <1>5, <1>6, <1>8, <2>1, <3>1
  <2>2. CASE p = o /\ objs'[p].dvid = d
    BY <1>3, <1>6, <1>9, <2>2
  <2> QED
    BY <1>7, <2>1, <2>2
<1> QED
  BY <1>10, <1>11, <1>12, <1>13, TablesSizes DEF Bounded

(* head and tail cut to a layout, and aligning to blocks asks for one.     *)
LEMMA HeadTail ==
  ASSUME SizesInv, NEW o \in Obj, NEW s \in Obj, head(o, s) \/ tail(o, s)
  PROVE  \E trunc \in Layout : Truncate(o, s, trunc)
<1>1. PICK n \in 0 .. N * MaxLen :
        Truncate(o, s, head_sizes(sizes(s), n)) \/ Truncate(o, s, tail_sizes(sizes(s), n))
  BY DEF head, tail
<1>2. n \in Nat /\ sizes(s) \in Layout
  BY SizedType, LensFacts, NAssumption, MaxLenAssumption
<1>3. head_sizes(sizes(s), n) \in Layout
  <2>1. head_sizes(sizes(s), n) = [r \in Rank |-> head_sizes(sizes(s), n)[r]]
    BY DEF head_sizes
  <2> QED
    BY <1>2, <2>1, HeadBounded DEF Layout
<1>4. tail_sizes(sizes(s), n) \in Layout
  <2>1. tail_sizes(sizes(s), n) = [r \in Rank |-> tail_sizes(sizes(s), n)[r]]
    BY DEF tail_sizes
  <2> QED
    BY <1>2, <2>1, TailBounded DEF Layout
<1> QED
  BY <1>1, <1>3, <1>4

LEMMA BlockAligns ==
  ASSUME SizesInv, NEW o \in Obj, AlignBlock(o)
  PROVE  \E dst \in Lens : AlignAs(o, dst)
<1>1. sizes(o) \in [Rank -> 0 .. MaxLen]
  BY SizedType DEF Lens
<1>2. block_size(Total(sizes(o))) \in Lens
  BY <1>1, TotalBound, BlockSizes, MaxLenAssumption DEF Lens
<1> QED
  BY <1>2 DEF AlignBlock

LEMMA InitSizes == Init => SizesInv
<1> SUFFICES ASSUME Init PROVE SizesInv
  OBVIOUS
<1>1. OwnerInv
  BY InitOwnerInv
<1>2. Nothing \in Objects /\ Nothing.kind = "none" /\ Nothing.dvid = 0
  BY LensFacts, MaxDvidAssumption DEF Nothing, Object, Objects
<1>3. objs = [o \in Obj |-> Nothing]
  BY DEF Init
<1>4. TypeOK
  BY <1>2, <1>3, MaxDvidAssumption DEF Init, TypeOK, Objects
<1>5. Bounded /\ OwnedAlike
  BY <1>2, <1>3 DEF Bounded, OwnedAlike, Owns, Live
<1> QED
  BY <1>1, <1>4, <1>5 DEF SizesInv

LEMMA NextSizes ==
  ASSUME SizesInv, [Next]_vars
  PROVE  SizesInv'
<1>1. ASSUME NEW o \in Obj, Declare(o) \/ Scatter(o) \/ Destroy(o) \/ Sizes(o)
      PROVE  SizesInv'
  <2>1. CASE Scatter(o)
    BY <2>1, LensFacts, MakeSizes DEF Scatter
  <2> QED
    BY <1>1, <2>1, DeclareSizes, DestroySizes, SizedSizes DEF Sizes
<1>2. ASSUME NEW o \in Obj,
             \/ MapvPartitions(o) \/ InplaceFilter(o) \/ Clear(o)
             \/ Align(o) \/ AlignBlock(o) \/ Sort(o)
      PROVE  SizesInv'
  BY <1>2, MapvPartitionsSizes, InplaceFilterSizes, ClearSizes, BlockAligns, AlignAsSizes,
     SortSizes DEF Align
<1>3. ASSUME NEW o \in Obj, NEW s \in Obj,
             Map(o, s) \/ MapPartitions(o, s) \/ head(o, s) \/ tail(o, s)
      PROVE  SizesInv'
  <2>1. CASE Map(o, s)
    <3>1. PICK bad \in Failing(table, objs[s].dvid) :
            Make(o, objs[s].kind, Lengths(table, objs[s].dvid), bad, objs[s].is_sizevec_valid,
                 IF objs[s].is_sizevec_valid THEN objs[s].sizevec ELSE NoSizes)
      BY <2>1 DEF Map
    <3>2. /\ bad \in SUBSET Rank /\ objs[s].kind \in Kinds
          /\ objs[s].is_sizevec_valid \in BOOLEAN
      BY <2>1, SizesTypes, UsableKind DEF Failing, Map, Usable, Objects
    <3>3. (IF objs[s].is_sizevec_valid THEN objs[s].sizevec ELSE NoSizes) \in Lens
      BY SizesTypes, LensFacts DEF Objects
    <3> QED
      BY <3>1, <3>2, <3>3, NamedLengths, MakeSizes
  <2>2. CASE MapPartitions(o, s)
    <3>1. PICK len \in Lens, bad \in Failing(table, objs[s].dvid) :
            Make(o, objs[s].kind, len, bad, FALSE, NoSizes)
      BY <2>2 DEF MapPartitions
    <3>2. bad \in SUBSET Rank /\ objs[s].kind \in Kinds
      BY <2>2, UsableKind DEF Failing, MapPartitions, Usable
    <3> QED
      BY <3>1, <3>2, LensFacts, MakeSizes
  <2>3. CASE head(o, s) \/ tail(o, s)
    BY <2>3, HeadTail, TruncateSizes
  <2> QED
    BY <1>3, <2>1, <2>2, <2>3
<1>4. ASSUME NEW o \in Obj, NEW s \in Obj, CopyCtor(o, s) \/ CopyAs(o, s) \/ CopyAssign(o, s)
      PROVE  SizesInv'
  <2>1. CASE CopyCtor(o, s)
    <3>1. /\ objs[s].kind \in Kinds /\ objs[s].is_sizevec_valid \in BOOLEAN
          /\ objs[s].sizevec \in Lens
      BY <2>1, SizesTypes, UsableKind DEF CopyCtor, Usable, Objects
    <3> QED
      BY <2>1, <3>1, DuplicateSizes DEF CopyCtor
  <2>2. CASE CopyAs(o, s)
    <3>1. Other(objs[s].kind) \in Kinds /\ NoSizes \in Lens /\ FALSE \in BOOLEAN
      BY <2>2, UsableKind, LensFacts DEF CopyAs, Usable
    <3> QED
      BY <2>2, <3>1, DuplicateSizes DEF CopyAs
  <2> QED
    BY <1>4, <2>1, <2>2, CopyAssignSizes
<1>5. ASSUME NEW o \in Obj, NEW s \in Obj,
             ViewAs(o, s) \/ MoveCtor(o, s) \/ MoveTo(o, s) \/ MoveAssign(o, s)
      PROVE  SizesInv'
  BY <1>5, ViewAsSizes, MoveCtorSizes, MoveToSizes, MoveAssignSizes
<1>6. CASE UNCHANGED vars
  <2>1. OwnerInv'
    BY NextOwnerInv DEF SizesInv
  <2>2. TypeOK' /\ Bounded' /\ OwnedAlike'
    BY <1>6 DEF vars, SizesInv, TypeOK, Bounded, OwnedAlike, Owns, Live
  <2> QED
    BY <2>1, <2>2 DEF SizesInv
<1> QED
  BY <1>1, <1>2, <1>3, <1>4, <1>5, <1>6 DEF Next

THEOREM SizesInvHolds == Spec => []SizesInv
<1>1. SizesInv /\ [Next]_vars => SizesInv'
  BY NextSizes
<1> QED
  BY <1>1, InitSizes, PTL DEF Spec

(* The variables keep their types whatever throws, layouts and caches      *)
(* among them: align_as asks no rank for more, or less, than the layout    *)
(* that was asked for, head and tail cut within what is there.             *)
THEOREM TypeCorrect == Spec => []TypeOK
<1>1. SizesInv => TypeOK
  BY DEF SizesInv
<1> QED
  BY <1>1, SizesInvHolds, PTL

(* Whatever throws where, and whatever is copied, moved, assigned, viewed, *)
(* sorted or filtered in place, the data of an owner is on all the ranks   *)
(* or on none, so an operation on it works everywhere or throws.           *)
THEOREM AllOrNothing == Spec => []OwnedAlike
<1>1. SizesInv => OwnedAlike
  BY DEF SizesInv
<1> QED
  BY <1>1, SizesInvHolds, PTL

---------------------------------------------------------------------------
(* Nothing leaks while no helper throws and the program does not sort.     *)

LeakInv == SizesInv /\ NoLeak

(* Data that has an owner is on all ranks, and all data has one.           *)
LEMMA AllAlike ==
  ASSUME LeakInv, NEW d \in 0 .. MaxDvid - 1
  PROVE  Missing(table, d) \in {{}, Rank}
<1>1. CASE d = 0
  BY <1>1 DEF Missing
<1>2. CASE d # 0 /\ \E r \in Rank : table[r][d] # absent
  <2>1. PICK r \in Rank : table[r][d] # absent
    BY <1>2
  <2>2. d \in Dvid
    BY <1>2, MaxDvidAssumption DEF Dvid
  <2>3. \E o \in Obj : Owns(o) /\ objs[o].dvid = d
    BY <2>1, <2>2 DEF LeakInv, NoLeak
  <2> QED
    BY <2>3 DEF LeakInv, SizesInv, OwnedAlike
<1>3. CASE \A r \in Rank : table[r][d] = absent
  BY <1>3 DEF Missing
<1> QED
  BY <1>1, <1>2, <1>3

LEMMA OwnersStay ==
  ASSUME NoLeak,
         \A q \in Obj : Owns(q) => \E p \in Obj : Owns(p)' /\ objs'[p].dvid = objs[q].dvid,
         \A r \in Rank, d \in Dvid : table'[r][d] # absent => table[r][d] # absent
  PROVE  NoLeak'
BY DEF NoLeak

(* The call that makes an object throws everywhere or nowhere.             *)
LEMMA MakeKeeps ==
  ASSUME LeakInv, NEW o \in Obj, NEW k \in Kinds, NEW len \in Lens, NEW bad \in {{}, Rank},
         NEW v \in BOOLEAN, NEW z \in Lens, Make(o, k, len, bad, v, z)
  PROVE  NoLeak'
<1> DEFINE x == Object(k, current_dvid, FALSE, v, z)
<1>1. /\ ~ Live(o) /\ current_dvid < MaxDvid
      /\ objs' = IF bad = {} THEN [objs EXCEPT ![o] = x] ELSE objs
      /\ table' = Stored(table, current_dvid, len, bad)
  BY DEF Make
<1>2. current_dvid \in 0 .. MaxDvid - 1 /\ current_dvid # 0
  BY <1>1, SizesTypes, MaxDvidAssumption DEF LeakInv
<1>3. x.dvid = current_dvid /\ x.kind # "none" /\ ~ x.is_view
  BY DEF Object, Kinds
<1> HIDE DEF x
<1>4. \A r \in Rank, e \in Dvid :
        table'[r][e] = IF e = current_dvid /\ r \notin bad THEN len[r] ELSE table[r][e]
  BY <1>1, <1>2, LensFacts, SizesTypes, StoredAt DEF LeakInv
<1>5. CASE bad = {}
  <2>1. /\ \A p \in Obj : p # o => objs'[p] = objs[p]
        /\ objs'[o] = x
    BY <1>1, <1>5, SizesTypes DEF LeakInv
  <2>2. ASSUME NEW r \in Rank, NEW d \in Dvid, table'[r][d] # absent
        PROVE  \E p \in Obj : Owns(p)' /\ objs'[p].dvid = d
    <3>1. CASE d = current_dvid
      BY <1>2, <1>3, <2>1, <3>1 DEF Owns, Live
    <3>2. CASE d # current_dvid
      <4>1. PICK p \in Obj : Owns(p) /\ objs[p].dvid = d
        BY <1>4, <2>2, <3>2 DEF LeakInv, NoLeak
      <4>2. p # o
        BY <1>1, <4>1 DEF Owns
      <4> QED
        BY <2>1, <4>1, <4>2 DEF Owns, Live
    <3> QED
      BY <3>1, <3>2
  <2> QED
    BY <2>2 DEF NoLeak
<1>6. CASE bad # {}
  <2>1. objs' = objs /\ \A r \in Rank, e \in Dvid : table'[r][e] = table[r][e]
    BY <1>1, <1>4, <1>6
  <2> QED
    BY <2>1, OwnersStay DEF LeakInv, Owns, Live
<1> QED
  BY <1>5, <1>6

LEMMA FailsAlike ==
  ASSUME LeakInv, ~ Faults, NEW d \in 0 .. MaxDvid - 1, NEW bad \in Failing(table, d)
  PROVE  bad \in {{}, Rank} /\ bad = Missing(table, d)
BY AllAlike DEF Failing

LEMMA RenameKeeps ==
  ASSUME LeakInv, NEW o \in Obj, NEW s \in Obj,
         Declare(o) \/ ViewAs(o, s) \/ MoveCtor(o, s) \/ MoveTo(o, s) \/ MoveAssign(o, s)
         \/ Rename(Sized(o))
  PROVE  NoLeak'
<1>0. UNCHANGED table
  BY DEF Declare, ViewAs, MoveCtor, MoveTo, MoveAssign, Rename
<1>1. CASE Declare(o) \/ ViewAs(o, s)
  <2>1. ~ Live(o) /\ \A p \in Obj : p # o => objs'[p] = objs[p]
    BY <1>1, SizesTypes DEF Declare, ViewAs, Rename, LeakInv
  <2>2. \A p \in Obj : Owns(p) => Owns(p)' /\ objs'[p].dvid = objs[p].dvid
    BY <2>1 DEF Owns, Live
  <2> QED
    BY <1>0, <2>2, OwnersStay DEF LeakInv
<1>2. CASE MoveCtor(o, s)
  <2>1. /\ o # s /\ ~ Live(o) /\ objs'[o] = objs[s]
        /\ \A p \in Obj : p # o /\ p # s => objs'[p] = objs[p]
    BY <1>2, SizesTypes DEF MoveCtor, Rename, LeakInv, Usable
  <2>2. \A p \in Obj : Owns(p) =>
          IF p = s THEN Owns(o)' /\ objs'[o].dvid = objs[p].dvid
                   ELSE Owns(p)' /\ objs'[p].dvid = objs[p].dvid
    BY <2>1 DEF Owns, Live
  <2> QED
    BY <1>0, <2>2, OwnersStay DEF LeakInv
<1>3. CASE MoveTo(o, s)
  <2>1. /\ o # s /\ ~ Live(o) /\ Live(s)
        /\ objs'[o] = Object(Other(objs[s].kind), objs[s].dvid, objs[s].is_view, FALSE, NoSizes)
        /\ \A p \in Obj : p # o /\ p # s => objs'[p] = objs[p]
    BY <1>3, SizesTypes DEF MoveTo, Rename, LeakInv, Usable
  <2>2. /\ objs'[o].kind # "none" /\ objs'[o].dvid = objs[s].dvid
        /\ objs'[o].is_view = objs[s].is_view
    BY <2>1 DEF Object, Other
  <2>3. \A p \in Obj : Owns(p) =>
          IF p = s THEN Owns(o)' /\ objs'[o].dvid = objs[p].dvid
                   ELSE Owns(p)' /\ objs'[p].dvid = objs[p].dvid
    BY <2>1, <2>2 DEF Owns, Live
  <2> QED
    BY <1>0, <2>3, OwnersStay DEF LeakInv
<1>4. CASE MoveAssign(o, s)
  <2>1. /\ o # s /\ Live(o) /\ Live(s) /\ objs'[o] = objs[s]
        /\ objs'[s].kind = objs[s].kind
        /\ objs'[s].dvid = objs[o].dvid
        /\ objs'[s].is_view = objs[o].is_view
        /\ \A p \in Obj : p # o /\ p # s => objs'[p] = objs[p]
    <3>1. o # s /\ Live(o) /\ Live(s) /\ DOMAIN objs[s] = Fields
      BY <1>4 DEF MoveAssign, Usable, LeakInv, SizesInv, OwnerInv, Shaped
    <3> QED
      BY <1>4, <3>1, SizesTypes DEF MoveAssign, Rename, LeakInv, Fields
  <2>2. \A p \in Obj : Owns(p) =>
          IF p = s THEN Owns(o)' /\ objs'[o].dvid = objs[p].dvid
          ELSE IF p = o THEN Owns(s)' /\ objs'[s].dvid = objs[p].dvid
          ELSE Owns(p)' /\ objs'[p].dvid = objs[p].dvid
    BY <2>1 DEF Owns, Live
  <2> QED
    BY <1>0, <2>2, OwnersStay DEF LeakInv
<1>5. CASE Rename(Sized(o))
  <2>1. \A p \in Obj : Owns(p) => Owns(p)' /\ objs'[p].dvid = objs[p].dvid
    BY <1>5, SizedFacts DEF Rename, LeakInv, SizesInv, Owns, Live
  <2> QED
    BY <1>0, <2>1, OwnersStay DEF LeakInv
<1> QED
  BY <1>1, <1>2, <1>3, <1>4, <1>5

LEMMA DestroyKeeps ==
  ASSUME LeakInv, NEW o \in Obj, Destroy(o)
  PROVE  NoLeak'
<1>1. /\ \A p \in Obj : p # o => objs'[p] = objs[p]
      /\ table' = IF Owns(o) THEN Deleted(table, objs[o].dvid) ELSE table
  BY SizesTypes DEF Destroy, LeakInv
<1>2. \A r \in Rank, e \in Dvid :
        table'[r][e] = IF Owns(o) /\ e = objs[o].dvid THEN absent ELSE table[r][e]
  BY <1>1, SizesTypes, DeletedAt DEF LeakInv
<1>3. ASSUME NEW r \in Rank, NEW d \in Dvid, table'[r][d] # absent
      PROVE  \E p \in Obj : Owns(p)' /\ objs'[p].dvid = d
  <2>1. PICK p \in Obj : Owns(p) /\ objs[p].dvid = d
    BY <1>2, <1>3 DEF LeakInv, NoLeak
  <2>2. p # o
    BY <1>2, <1>3, <2>1
  <2> QED
    BY <1>1, <2>1, <2>2 DEF Owns, Live
<1> QED
  BY <1>3 DEF NoLeak

LEMMA CopyAssignKeeps ==
  ASSUME LeakInv, ~ Faults, NEW o \in Obj, NEW s \in Obj, CopyAssign(o, s)
  PROVE  NoLeak'
<1> DEFINE old == objs[o].dvid
           src == objs[s].dvid
           left == IF Owns(o) THEN Deleted(table, old) ELSE table
           copy(d) == [objs EXCEPT ![o] = Object(objs[s].kind, d, FALSE,
                          objs[s].is_sizevec_valid, objs[s].sizevec)]
<1>1. /\ left \in Tables
      /\ \A r \in Rank, e \in Dvid :
           left[r][e] = IF Owns(o) /\ e = old THEN absent ELSE table[r][e]
  BY SizesTypes, DeletedAt DEF LeakInv
<1>2. \A d : /\ \A p \in Obj : p # o => copy(d)[p] = objs[p]
             /\ copy(d)[o].dvid = d /\ copy(d)[o].kind # "none" /\ ~ copy(d)[o].is_view
  <2>1. Live(s)
    BY DEF CopyAssign, Usable
  <2> QED
    BY <2>1, SizesTypes DEF LeakInv, Object, Live
<1>3. \/ table' = left /\ objs' = objs
      \/ table' = left /\ objs' = copy(0)
      \/ /\ src # 0 /\ current_dvid < MaxDvid
         /\ \E bad \in Failing(left, src) :
              /\ table' = Stored(left, current_dvid, Lengths(left, src), bad)
              /\ objs' = IF bad = {} THEN copy(current_dvid) ELSE objs
  BY DEF CopyAssign
<1> HIDE DEF left, copy
<1>4. ASSUME NEW r \in Rank, NEW d \in Dvid, left[r][d] # absent
      PROVE  \E p \in Obj : p # o /\ Owns(p) /\ objs[p].dvid = d
  <2>1. PICK p \in Obj : Owns(p) /\ objs[p].dvid = d
    BY <1>1, <1>4 DEF LeakInv, NoLeak
  <2>2. p # o
    BY <1>1, <1>4, <2>1
  <2> QED
    BY <2>1, <2>2
<1>5. ASSUME \A p \in Obj : p # o => objs'[p] = objs[p],
             NEW r \in Rank, NEW d \in Dvid, left[r][d] # absent
      PROVE  \E p \in Obj : Owns(p)' /\ objs'[p].dvid = d
  <2>1. PICK p \in Obj : p # o /\ Owns(p) /\ objs[p].dvid = d
    BY <1>4, <1>5
  <2> QED
    BY <1>5, <2>1 DEF Owns, Live
<1>6. CASE table' = left /\ (objs' = objs \/ objs' = copy(0))
  BY <1>2, <1>5, <1>6 DEF NoLeak
<1>7. ASSUME NEW bad \in Failing(left, src), src # 0, current_dvid < MaxDvid,
             table' = Stored(left, current_dvid, Lengths(left, src), bad),
             objs' = IF bad = {} THEN copy(current_dvid) ELSE objs
      PROVE  NoLeak'
  <2>1. current_dvid \in 0 .. MaxDvid - 1 /\ current_dvid # 0
    BY <1>7, SizesTypes, MaxDvidAssumption DEF LeakInv
  <2>2. bad \in {{}, Rank}
    <3>1. Missing(left, src) = Rank \/ Missing(left, src) = Missing(table, src)
      <4>1. src \in Dvid
        BY <1>7, SizesTypes DEF LeakInv
      <4>2. CASE Owns(o) /\ src = old
        BY <1>1, <4>1, <4>2 DEF Missing
      <4>3. CASE ~ (Owns(o) /\ src = old)
        BY <1>1, <4>1, <4>3 DEF Missing
      <4> QED
        BY <4>2, <4>3
    <3>2. Missing(table, src) \in {{}, Rank}
      BY SizesTypes, AllAlike DEF LeakInv
    <3> QED
      BY <3>1, <3>2 DEF Failing
  <2>3. \A r \in Rank, e \in Dvid : table'[r][e] =
          IF e = current_dvid /\ r \notin bad THEN Lengths(left, src)[r] ELSE left[r][e]
    <3>1. Lengths(left, src) \in Layout /\ bad \in SUBSET Rank
      BY <1>1, <2>2, SizesTypes, LengthsType DEF LeakInv
    <3> QED
      BY <1>1, <1>7, <2>1, <3>1, StoredAt
  <2>4. CASE bad = {}
    <3>1. ASSUME NEW r \in Rank, NEW d \in Dvid, table'[r][d] # absent
          PROVE  \E p \in Obj : Owns(p)' /\ objs'[p].dvid = d
      <4>1. CASE d = current_dvid
        BY <1>2, <1>7, <2>1, <2>4, <4>1 DEF Owns, Live
      <4>2. CASE d # current_dvid
        BY <1>2, <1>5, <1>7, <2>3, <2>4, <3>1, <4>2
      <4> QED
        BY <4>1, <4>2
    <3> QED
      BY <3>1 DEF NoLeak
  <2>5. CASE bad = Rank /\ bad # {}
    <3>1. objs' = objs /\ \A r \in Rank, e \in Dvid : table'[r][e] = left[r][e]
      BY <1>7, <2>3, <2>5
    <3> QED
      BY <1>5, <3>1 DEF NoLeak
  <2> QED
    BY <2>2, <2>4, <2>5
<1> QED
  BY <1>3, <1>6, <1>7

LEMMA TruncateKeeps ==
  ASSUME LeakInv, ~ Faults, NEW o \in Obj, NEW s \in Obj, NEW trunc \in Layout,
         Truncate(o, s, trunc)
  PROVE  NoLeak'
<1> DEFINE d0 == objs[s].dvid
           x == Object("dvector", current_dvid, FALSE, FALSE, NoSizes)
           len == [r \in Rank |-> Smaller(Lengths(table, d0)[r], trunc[r])]
<1>1. PICK bad \in Failing(table, d0) :
        /\ ~ Live(o) /\ current_dvid < MaxDvid
        /\ table' = Stored(table, current_dvid, len, bad)
        /\ objs' = IF bad = {} THEN [Sized(s) EXCEPT ![o] = x] ELSE Sized(s)
  BY DEF Truncate
<1>2. current_dvid \in 0 .. MaxDvid - 1 /\ current_dvid # 0
  BY <1>1, SizesTypes, MaxDvidAssumption DEF LeakInv
<1>3. x.dvid = current_dvid /\ x.kind # "none" /\ ~ x.is_view
  BY DEF Object
<1>4. len \in Layout
  <2>1. \A r \in Rank : Lengths(table, d0)[r] \in Nat /\ trunc[r] \in Nat
    BY NamedLengths, LensFacts DEF Layout, LeakInv
  <2> QED
    BY <2>1 DEF Smaller, Layout
<1> HIDE DEF x, len
<1>5. bad \in {{}, Rank} /\ table \in Tables
  BY SizesTypes, FailsAlike DEF LeakInv
<1>6. \A r \in Rank, e \in Dvid :
        table'[r][e] = IF e = current_dvid /\ r \notin bad THEN len[r] ELSE table[r][e]
  BY <1>1, <1>2, <1>4, <1>5, StoredAt
<1>7. \A p \in Obj : p # o \/ bad # {} =>
        /\ objs'[p].dvid = objs[p].dvid
        /\ objs'[p].kind = objs[p].kind
        /\ objs'[p].is_view = objs[p].is_view
  BY <1>1, SizedFacts DEF LeakInv, SizesInv
<1>8. bad = {} => objs'[o] = x
  BY <1>1, SizedFacts DEF LeakInv, SizesInv
<1>9. ASSUME NEW r \in Rank, NEW d \in Dvid, table'[r][d] # absent
      PROVE  \E p \in Obj : Owns(p)' /\ objs'[p].dvid = d
  <2>1. CASE d = current_dvid /\ bad = {}
    BY <1>2, <1>3, <1>8, <2>1 DEF Owns, Live
  <2>2. CASE d # current_dvid \/ bad = Rank
    <3>1. PICK p \in Obj : Owns(p) /\ objs[p].dvid = d
      BY <1>6, <1>9, <2>2 DEF LeakInv, NoLeak
    <3>2. p # o
      BY <1>1, <3>1 DEF Owns
    <3> QED
      BY <1>7, <3>1, <3>2 DEF Owns, Live
  <2> QED
    BY <1>5, <2>1, <2>2
<1> QED
  BY <1>9 DEF NoLeak

LEMMA InplaceKeeps ==
  ASSUME LeakInv, NEW o \in Obj, MapvPartitions(o) \/ InplaceFilter(o) \/ Clear(o)
  PROVE  NoLeak'
<1>1. PICK len \in Lens, bad \in SUBSET Rank :
        /\ Missing(table, objs[o].dvid) \subseteq bad
        /\ table' = Stored(table, objs[o].dvid, len, bad)
  <2>1. CASE MapvPartitions(o)
    <3>1. PICK len \in Lens :
            table' = Stored(table, objs[o].dvid, len, Missing(table, objs[o].dvid))
      BY <2>1, MapvLeaves DEF LeakInv
    <3>2. Missing(table, objs[o].dvid) \in SUBSET Rank
      BY DEF Missing
    <3> QED
      BY <3>1, <3>2
  <2>2. CASE InplaceFilter(o)
    BY <2>2 DEF InplaceFilter, Failing
  <2>3. CASE Clear(o)
    BY <2>3, LensFacts DEF Clear, Held
  <2> QED
    BY <2>1, <2>2, <2>3
<1>2. objs' = objs \/ objs' = [objs EXCEPT ![o].is_sizevec_valid = FALSE]
  BY DEF MapvPartitions, InplaceFilter, Clear
<1>3. \A p \in Obj : /\ objs'[p].dvid = objs[p].dvid
                     /\ objs'[p].kind = objs[p].kind
                     /\ objs'[p].is_view = objs[p].is_view
  BY <1>2 DEF LeakInv, SizesInv, OwnerInv, Shaped, Fields
<1>4. \A p \in Obj : Owns(p) => Owns(p)' /\ objs'[p].dvid = objs[p].dvid
  BY <1>3 DEF Owns, Live
<1>5. \A r \in Rank, d \in Dvid : table'[r][d] # absent => table[r][d] # absent
  <2>1. objs[o].dvid = 0 => bad = Rank
    BY <1>1 DEF Missing
  <2>2. \A r \in Rank, e \in Dvid : table'[r][e] =
          IF e = objs[o].dvid /\ r \notin bad THEN len[r] ELSE table[r][e]
    BY <1>1, <2>1, SizesTypes, LensFacts, StoredAt DEF LeakInv
  <2> QED
    BY <1>1, <2>2 DEF Missing
<1> QED
  BY <1>4, <1>5, OwnersStay DEF LeakInv

LEMMA AlignAsKeeps ==
  ASSUME LeakInv, NEW o \in Obj, NEW dst \in Lens, AlignAs(o, dst)
  PROVE  NoLeak'
<1> DEFINE d0 == objs[o].dvid
           x == Object("dvector", current_dvid, FALSE, TRUE, dst)
           arrived == [r \in Rank |->
             SumFunction([s \in Rank |-> alltoall_size(sizes(o), dst, s, r)])]
           new == Stored(table, current_dvid, arrived, {})
<1>1. \/ Rename(Sized(o))
      \/ /\ current_dvid < MaxDvid
         /\ table' = Deleted(new, d0)
         /\ objs' = [objs EXCEPT ![o] = x]
      \/ UNCHANGED <<objs, table>>
  BY DEF AlignAs
<1>2. CASE Rename(Sized(o))
  BY <1>2, RenameKeeps
<1>3. CASE UNCHANGED <<objs, table>>
  BY <1>3, OwnersStay DEF LeakInv, Owns, Live
<1>4. CASE /\ current_dvid < MaxDvid
           /\ table' = Deleted(new, d0)
           /\ objs' = [objs EXCEPT ![o] = x]
  <2>1. current_dvid \in 0 .. MaxDvid - 1 /\ current_dvid # 0
    BY <1>4, SizesTypes, MaxDvidAssumption DEF LeakInv
  <2>2. x.dvid = current_dvid /\ x.kind # "none" /\ ~ x.is_view
    BY DEF Object
  <2>3. arrived \in Layout
    <3>1. sizes(o) \in Layout /\ dst \in Layout /\ Total(sizes(o)) = Total(dst)
      BY SizedType, LensFacts DEF AlignAs, LeakInv
    <3>2. \A r \in Rank : arrived[r] = dst[r]
      BY <3>1, AlignArrives
    <3> QED
      BY <3>1, <3>2 DEF Layout
  <2> HIDE DEF x, arrived
  <2>4. /\ new \in Tables
        /\ \A r \in Rank, e \in Dvid : e # current_dvid => new[r][e] = table[r][e]
    BY <2>1, <2>3, SizesTypes, StoredAt DEF LeakInv
  <2> HIDE DEF new
  <2>5. \A r \in Rank, e \in Dvid : table'[r][e] = IF e = d0 THEN absent ELSE new[r][e]
    BY <1>4, <2>4, SizesTypes, DeletedAt DEF LeakInv
  <2>6. objs'[o] = x /\ \A p \in Obj : p # o => objs'[p] = objs[p]
    BY <1>4, SizesTypes DEF LeakInv
  <2>7. ASSUME NEW r \in Rank, NEW d \in Dvid, table'[r][d] # absent
        PROVE  \E p \in Obj : Owns(p)' /\ objs'[p].dvid = d
    <3>1. CASE d = current_dvid
      BY <2>1, <2>2, <2>6, <3>1 DEF Owns, Live
    <3>2. CASE d # current_dvid
      <4>1. d # d0 /\ table[r][d] # absent
        BY <2>4, <2>5, <2>7, <3>2
      <4>2. PICK p \in Obj : Owns(p) /\ objs[p].dvid = d
        BY <4>1 DEF LeakInv, NoLeak
      <4> QED
        BY <2>6, <4>1, <4>2 DEF Owns, Live
    <3> QED
      BY <3>1, <3>2
  <2> QED
    BY <2>7 DEF NoLeak
<1> QED
  BY <1>1, <1>2, <1>3, <1>4

LEMMA DuplicateKeeps ==
  ASSUME LeakInv, ~ Faults, NEW o \in Obj, NEW s \in Obj, NEW k \in Kinds, NEW v \in BOOLEAN,
         NEW z \in Lens, Duplicate(o, s, k, v, z)
  PROVE  NoLeak'
<1>1. CASE objs[s].dvid = 0
  <2>1. ~ Live(o) /\ UNCHANGED table /\ \A p \in Obj : p # o => objs'[p] = objs[p]
    BY <1>1, SizesTypes DEF Duplicate, Rename, LeakInv
  <2>2. \A p \in Obj : Owns(p) => Owns(p)' /\ objs'[p].dvid = objs[p].dvid
    BY <2>1 DEF Owns, Live
  <2> QED
    BY <2>1, <2>2, OwnersStay DEF LeakInv
<1>2. CASE objs[s].dvid # 0
  <2>1. PICK bad \in Failing(table, objs[s].dvid) :
          Make(o, k, Lengths(table, objs[s].dvid), bad, v, z)
    BY <1>2 DEF Duplicate
  <2>2. bad \in {{}, Rank} /\ Lengths(table, objs[s].dvid) \in Lens
    BY SizesTypes, FailsAlike, NamedLengths DEF LeakInv
  <2> QED
    BY <2>1, <2>2, MakeKeeps
<1> QED
  BY <1>1, <1>2

LEMMA NextKeeps ==
  ASSUME LeakInv, ~ Faults, ~ WithSort, [Next]_vars
  PROVE  LeakInv'
<1>1. ASSUME NEW o \in Obj, Declare(o) \/ Scatter(o) \/ Destroy(o) \/ Sizes(o)
      PROVE  NoLeak'
  <2>1. CASE Scatter(o)
    <3>1. PICK k \in Kinds, len \in Lens, bad \in SUBSET Rank :
            bad = {} /\ Make(o, k, len, bad, FALSE, NoSizes)
      BY <2>1 DEF Scatter
    <3> QED
      BY <3>1, LensFacts, MakeKeeps
  <2> QED
    BY <1>1, <2>1, RenameKeeps, DestroyKeeps DEF Sizes
<1>2. ASSUME NEW o \in Obj,
             \/ MapvPartitions(o) \/ InplaceFilter(o) \/ Clear(o)
             \/ Align(o) \/ AlignBlock(o)
      PROVE  NoLeak'
  BY <1>2, InplaceKeeps, BlockAligns, AlignAsKeeps DEF Align, LeakInv
<1>3. ASSUME NEW o \in Obj, NEW s \in Obj,
             Map(o, s) \/ MapPartitions(o, s) \/ head(o, s) \/ tail(o, s)
      PROVE  NoLeak'
  <2>1. CASE Map(o, s)
    <3>1. PICK bad \in Failing(table, objs[s].dvid) :
            Make(o, objs[s].kind, Lengths(table, objs[s].dvid), bad, objs[s].is_sizevec_valid,
                 IF objs[s].is_sizevec_valid THEN objs[s].sizevec ELSE NoSizes)
      BY <2>1 DEF Map
    <3>2. /\ bad \in {{}, Rank} /\ objs[s].kind \in Kinds
          /\ objs[s].is_sizevec_valid \in BOOLEAN
      BY <2>1, SizesTypes, UsableKind, FailsAlike DEF LeakInv, Map, Usable, Objects
    <3>3. (IF objs[s].is_sizevec_valid THEN objs[s].sizevec ELSE NoSizes) \in Lens
      BY SizesTypes, LensFacts DEF LeakInv, Objects
    <3>4. Lengths(table, objs[s].dvid) \in Lens
      BY NamedLengths DEF LeakInv
    <3> QED
      BY <3>1, <3>2, <3>3, <3>4, MakeKeeps
  <2>2. CASE MapPartitions(o, s)
    <3>1. PICK len \in Lens, bad \in Failing(table, objs[s].dvid) :
            Make(o, objs[s].kind, len, bad, FALSE, NoSizes)
      BY <2>2 DEF MapPartitions
    <3>2. bad \in {{}, Rank} /\ objs[s].kind \in Kinds
      BY <2>2, SizesTypes, UsableKind, FailsAlike DEF LeakInv, MapPartitions, Usable
    <3> QED
      BY <3>1, <3>2, LensFacts, MakeKeeps
  <2>3. CASE head(o, s) \/ tail(o, s)
    BY <2>3, HeadTail, TruncateKeeps DEF LeakInv
  <2> QED
    BY <1>3, <2>1, <2>2, <2>3
<1>4. ASSUME NEW o \in Obj, NEW s \in Obj, CopyCtor(o, s) \/ CopyAs(o, s) \/ CopyAssign(o, s)
      PROVE  NoLeak'
  <2>1. CASE CopyCtor(o, s)
    <3>1. /\ objs[s].kind \in Kinds /\ objs[s].is_sizevec_valid \in BOOLEAN
          /\ objs[s].sizevec \in Lens
      BY <2>1, SizesTypes, UsableKind DEF LeakInv, CopyCtor, Usable, Objects
    <3> QED
      BY <2>1, <3>1, DuplicateKeeps DEF CopyCtor
  <2>2. CASE CopyAs(o, s)
    <3>1. Other(objs[s].kind) \in Kinds /\ NoSizes \in Lens /\ FALSE \in BOOLEAN
      BY <2>2, UsableKind, LensFacts DEF LeakInv, CopyAs, Usable
    <3> QED
      BY <2>2, <3>1, DuplicateKeeps DEF CopyAs
  <2> QED
    BY <1>4, <2>1, <2>2, CopyAssignKeeps
<1>5. ASSUME NEW o \in Obj, NEW s \in Obj,
             ViewAs(o, s) \/ MoveCtor(o, s) \/ MoveTo(o, s) \/ MoveAssign(o, s)
      PROVE  NoLeak'
  BY <1>5, RenameKeeps
<1>6. UNCHANGED vars => NoLeak'
  BY DEF vars, LeakInv, NoLeak, Owns, Live
<1>7. \A o \in Obj : ~ Sort(o)
  BY DEF Sort
<1>8. SizesInv'
  BY NextSizes DEF LeakInv
<1> QED
  BY <1>1, <1>2, <1>3, <1>4, <1>5, <1>6, <1>7, <1>8 DEF Next, LeakInv

(* RAII: while no function that the ranks call throws and the program does *)
(* not sort, everything a rank stores belongs to an object that will       *)
(* delete it, through every copy, move, assignment (to itself, too) and    *)
(* view.                                                                   *)
THEOREM NothingLeaks ==
  ASSUME ~ Faults, ~ WithSort
  PROVE  Spec => []NoLeak
<1>1. Init => LeakInv
  <2>1. Init => NoLeak
    BY DEF Init, NoLeak
  <2> QED
    BY <2>1, InitSizes DEF LeakInv
<1>2. LeakInv /\ [Next]_vars => LeakInv'
  BY NextKeeps
<1>3. LeakInv => NoLeak
  BY DEF LeakInv
<1> QED
  BY <1>1, <1>2, <1>3, PTL DEF Spec

---------------------------------------------------------------------------
(* Objects as values, while no helper throws and nothing is viewed.        *)

(* The program does what leaves a cache stale.                             *)
Stale == WithSort \/ SizedToo

(* An object's data is on every rank, and a cache that a dvector would     *)
(* answer from says how much.                                              *)
Backed(t, x) == x.kind # "none" /\ x.dvid # 0 => \A r \in Rank : t[r][x.dvid] # absent
Fresh(t, x) ==
  x.kind = "dvector" /\ ~ x.moved /\ x.is_sizevec_valid =>
    x.dvid # 0 /\ \A r \in Rank : x.sizevec[r] = t[r][x.dvid]
Sound(t, x) == ~ x.is_view /\ Backed(t, x) /\ (Stale \/ Fresh(t, x))
AllSound == \A o \in Obj : Sound(table, objs[o])

ValueInv == SizesInv /\ process # "terminated" /\ AllSound

(* The value an object stands for, and a step that leaves all others.      *)
Data(len) == [is |-> "data", len |-> len]
Val(t, x) ==
  IF x.kind = "none" THEN [is |-> "out of scope"]
  ELSE IF x.moved THEN [is |-> "moved from"]
  ELSE IF x.dvid = 0 THEN [is |-> "empty"]
  ELSE Data(Lengths(t, x.dvid))
OthersKeep(o) == \A p \in Obj : p # o => Val(table', objs'[p]) = Val(table, objs[p])

LEMMA HeldLengths ==
  ASSUME NEW t, NEW d, d # 0, \A r \in Rank : t[r][d] # absent
  PROVE  Missing(t, d) = {} /\ \A r \in Rank : Lengths(t, d)[r] = t[r][d]
<1>1. Missing(t, d) = {}
  BY DEF Missing
<1> QED
  BY <1>1 DEF Lengths

LEMMA Untouched ==
  ASSUME NEW t, NEW u, NEW x, Sound(t, x),
         x.kind # "none" /\ x.dvid # 0 => \A r \in Rank : u[r][x.dvid] = t[r][x.dvid]
  PROVE  Sound(u, x) /\ Val(u, x) = Val(t, x)
<1>1. Sound(u, x)
  BY DEF Sound, Backed, Fresh
<1>2. x.kind # "none" /\ x.dvid # 0 => Lengths(u, x.dvid) = Lengths(t, x.dvid)
  BY DEF Lengths, Missing
<1> QED
  BY <1>1, <1>2 DEF Val

(* A usable object that names an id has its data, and nobody else's.       *)
LEMMA OwnData ==
  ASSUME ValueInv, NEW o \in Obj, Live(o), objs[o].dvid # 0
  PROVE  /\ Owns(o) /\ Held(objs[o].dvid) /\ objs[o].dvid \in Dvid
         /\ \A r \in Rank : table[r][objs[o].dvid] # absent
         /\ \A p \in Obj : p # o /\ Live(p) => objs[p].dvid # objs[o].dvid
<1>1. \A p \in Obj : Live(p) /\ objs[p].dvid # 0 => Owns(p)
  BY DEF ValueInv, AllSound, Sound, Owns
<1>2. \A p \in Obj : p # o /\ Live(p) => objs[p].dvid # objs[o].dvid
  BY <1>1 DEF ValueInv, SizesInv, OwnerInv, SingleOwner
<1>3. \A r \in Rank : table[r][objs[o].dvid] # absent
  BY DEF ValueInv, AllSound, Sound, Backed, Live
<1>4. objs[o].dvid \in Dvid
  BY SizesTypes DEF ValueInv
<1> QED
  BY <1>1, <1>2, <1>3, <1>4, HeldLengths DEF Held

(* New data for one object, and none for the id it gave up.                *)
LEMMA NewData ==
  ASSUME ValueInv, NEW o \in Obj, NEW len \in Layout, NEW gone \in Nat, current_dvid \in Dvid,
         \A p \in Obj : p # o /\ Live(p) /\ objs[p].dvid # 0 => objs[p].dvid # gone,
         \A r \in Rank, e \in Dvid : table'[r][e] =
           IF e = current_dvid THEN len[r] ELSE IF e = gone THEN absent ELSE table[r][e],
         \A p \in Obj : p # o => objs'[p] = objs[p],
         objs'[o].dvid = current_dvid, ~ objs'[o].is_view,
         objs'[o].kind # "none", ~ objs'[o].moved,
         objs'[o].kind = "dvector" /\ objs'[o].is_sizevec_valid => Stale \/ objs'[o].sizevec = len
  PROVE  AllSound' /\ OthersKeep(o) /\ Val(table', objs'[o]) = Data(len)
<1>0. current_dvid # 0 /\ \A r \in Rank : len[r] # absent /\ table'[r][current_dvid] = len[r]
  BY AbsentAssumption DEF Dvid, Layout
<1>1. ASSUME NEW p \in Obj, p # o
      PROVE  Sound(table', objs'[p]) /\ Val(table', objs'[p]) = Val(table, objs[p])
  <2>1. objs[p].dvid # current_dvid /\ (objs[p].dvid # 0 => objs[p].dvid \in Dvid)
    BY SizesTypes DEF ValueInv, SizesInv, OwnerInv, Named
  <2>2. objs[p].kind # "none" /\ objs[p].dvid # 0 =>
          \A r \in Rank : table'[r][objs[p].dvid] = table[r][objs[p].dvid]
    BY <1>1, <2>1 DEF Live
  <2> QED
    BY <1>1, <2>2, Untouched DEF ValueInv, AllSound
<1>2. Sound(table', objs'[o])
  BY <1>0 DEF Sound, Backed, Fresh
<1>3. Lengths(table', current_dvid) = len
  <2>1. \A r \in Rank : Lengths(table', current_dvid)[r] = len[r]
    BY <1>0, HeldLengths
  <2> QED
    BY <2>1 DEF Lengths, Layout
<1> QED
  BY <1>0, <1>1, <1>2, <1>3 DEF AllSound, OthersKeep, Val

(* An object gives up its id and has nothing, or dies.                     *)
LEMMA NoData ==
  ASSUME ValueInv, NEW o \in Obj, NEW gone \in Nat,
         \A p \in Obj : p # o /\ Live(p) /\ objs[p].dvid # 0 => objs[p].dvid # gone,
         \A r \in Rank, e \in Dvid : table'[r][e] = IF e = gone THEN absent ELSE table[r][e],
         \A p \in Obj : p # o => objs'[p] = objs[p],
         objs'[o].dvid = 0, ~ objs'[o].is_view,
         objs'[o].kind = "dvector" /\ ~ objs'[o].moved /\ objs'[o].is_sizevec_valid => Stale
  PROVE  AllSound' /\ OthersKeep(o)
<1>1. ASSUME NEW p \in Obj, p # o
      PROVE  Sound(table', objs'[p]) /\ Val(table', objs'[p]) = Val(table, objs[p])
  <2>1. objs[p].dvid # 0 => objs[p].dvid \in Dvid
    BY SizesTypes DEF ValueInv
  <2>2. objs[p].kind # "none" /\ objs[p].dvid # 0 =>
          \A r \in Rank : table'[r][objs[p].dvid] = table[r][objs[p].dvid]
    BY <1>1, <2>1 DEF Live
  <2> QED
    BY <1>1, <2>2, Untouched DEF ValueInv, AllSound
<1>2. Sound(table', objs'[o])
  BY DEF Sound, Backed, Fresh
<1> QED
  BY <1>1, <1>2 DEF AllSound, OthersKeep

(* The helper of a call throws where its data is missing, that is nowhere  *)
(* or, for an object without an id, on every rank.                         *)
LEMMA FailsNowhere ==
  ASSUME ValueInv, ~ Faults, NEW s \in Obj, Live(s), NEW bad \in Failing(table, objs[s].dvid)
  PROVE  bad = IF objs[s].dvid = 0 THEN Rank ELSE {}
<1>1. bad = Missing(table, objs[s].dvid)
  BY DEF Failing
<1>2. objs[s].dvid = 0 => Missing(table, objs[s].dvid) = Rank
  BY DEF Missing
<1>3. objs[s].dvid # 0 => Missing(table, objs[s].dvid) = {}
  BY OwnData DEF Held
<1> QED
  BY <1>1, <1>2, <1>3

LEMMA MakeValue ==
  ASSUME ValueInv, NEW o \in Obj, NEW k \in Kinds, NEW len \in Lens, NEW v \in BOOLEAN,
         NEW z \in Lens, k = "dvector" /\ v => Stale \/ z = len,
         Make(o, k, len, {}, v, z)
  PROVE  AllSound' /\ OthersKeep(o) /\ Val(table', objs'[o]) = Data(len)
<1> DEFINE x == Object(k, current_dvid, FALSE, v, z)
<1>1. /\ current_dvid < MaxDvid
      /\ table' = Stored(table, current_dvid, len, {})
      /\ objs' = [objs EXCEPT ![o] = x]
  BY DEF Make
<1>2. current_dvid \in 0 .. MaxDvid - 1 /\ current_dvid # 0 /\ current_dvid \in Dvid
  BY <1>1, SizesTypes, MaxDvidAssumption DEF ValueInv, Dvid
<1>3. /\ x.dvid = current_dvid /\ ~ x.is_view /\ x.kind = k /\ k # "none" /\ ~ x.moved
      /\ x.is_sizevec_valid = v /\ x.sizevec = z
  BY DEF Object, Kinds
<1> HIDE DEF x
<1>4. objs'[o] = x /\ \A p \in Obj : p # o => objs'[p] = objs[p]
  BY <1>1, SizesTypes DEF ValueInv
<1>5. \A r \in Rank, e \in Dvid :
        table'[r][e] = IF e = current_dvid /\ r \notin {} THEN len[r] ELSE table[r][e]
  BY <1>1, <1>2, LensFacts, SizesTypes, StoredAt DEF ValueInv
<1>6. \A r \in Rank, e \in Dvid :
        table'[r][e] = IF e = current_dvid THEN len[r] ELSE IF e = 0 THEN absent ELSE table[r][e]
  BY <1>5 DEF Dvid
<1>7. \A p \in Obj : p # o /\ Live(p) /\ objs[p].dvid # 0 => objs[p].dvid # 0
  OBVIOUS
<1> QED
  BY <1>2, <1>3, <1>4, <1>6, <1>7, LensFacts, NewData

(* A call that throws on every rank makes no object.                       *)
LEMMA MakeNothing ==
  ASSUME ValueInv, NEW o \in Obj, NEW k \in Kinds, NEW len \in Lens, NEW v, NEW z,
         Make(o, k, len, Rank, v, z)
  PROVE  objs' = objs /\ table' = table
<1>1. 0 \in Rank
  BY NAssumption DEF Rank
<1>2. objs' = objs /\ current_dvid < MaxDvid /\ table' = Stored(table, current_dvid, len, Rank)
  BY <1>1 DEF Make
<1>3. Stored(table, current_dvid, len, Rank) = [r \in Rank |-> table[r]]
  BY DEF Stored
<1> QED
  BY <1>2, <1>3, SizesTypes DEF ValueInv, Tables

LEMMA DeclareValue ==
  ASSUME ValueInv, NEW o \in Obj, Declare(o)
  PROVE  AllSound' /\ OthersKeep(o) /\ Val(table', objs'[o]) = [is |-> "empty"]
<1>1. PICK k \in Kinds : objs' = [objs EXCEPT ![o] = Object(k, 0, FALSE, FALSE, NoSizes)]
  BY DEF Declare, Rename
<1> DEFINE x == Object(k, 0, FALSE, FALSE, NoSizes)
<1>2. x.dvid = 0 /\ ~ x.is_view /\ x.kind # "none" /\ ~ x.moved /\ ~ x.is_sizevec_valid
  BY DEF Object, Kinds
<1> HIDE DEF x
<1>3. objs'[o] = x /\ \A p \in Obj : p # o => objs'[p] = objs[p]
  BY <1>1, SizesTypes DEF ValueInv, x
<1>4. table' = table
  BY DEF Declare, Rename
<1>5. \A r \in Rank, e \in Dvid : table'[r][e] = IF e = 0 THEN absent ELSE table[r][e]
  BY <1>4 DEF Dvid
<1> QED
  BY <1>2, <1>3, <1>5, NoData DEF Val

(* Copying gives the copy a value of its own, the same as the source's.    *)
LEMMA DuplicateValue ==
  ASSUME ValueInv, ~ Faults, NEW o \in Obj, NEW s \in Obj, Usable(s), NEW k \in Kinds,
         NEW v \in BOOLEAN, NEW z \in Lens, Duplicate(o, s, k, v, z),
         k = "dvector" /\ v =>
           Stale \/ (objs[s].dvid # 0 /\ z = Lengths(table, objs[s].dvid))
  PROVE  AllSound' /\ OthersKeep(o) /\ Val(table', objs'[o]) = Val(table, objs[s])
<1>1. CASE objs[s].dvid = 0
  <2> DEFINE x == Object(k, 0, FALSE, v, z)
  <2>1. table' = table /\ objs' = [objs EXCEPT ![o] = x]
    BY <1>1 DEF Duplicate, Rename
  <2>2. x.dvid = 0 /\ ~ x.is_view /\ x.kind = k /\ k # "none" /\ ~ x.moved /\ x.is_sizevec_valid = v
    BY DEF Object, Kinds
  <2> HIDE DEF x
  <2>3. objs'[o] = x /\ \A p \in Obj : p # o => objs'[p] = objs[p]
    BY <2>1, SizesTypes DEF ValueInv
  <2>4. \A r \in Rank, e \in Dvid : table'[r][e] = IF e = 0 THEN absent ELSE table[r][e]
    BY <2>1 DEF Dvid
  <2>5. AllSound' /\ OthersKeep(o)
    BY <1>1, <2>2, <2>3, <2>4, NoData
  <2>6. Val(table', objs'[o]) = [is |-> "empty"]
    BY <2>2, <2>3 DEF Val
  <2>7. Val(table, objs[s]) = [is |-> "empty"]
    BY <1>1 DEF Val, Usable, Live
  <2> QED
    BY <2>5, <2>6, <2>7
<1>2. CASE objs[s].dvid # 0
  <2>1. PICK bad \in Failing(table, objs[s].dvid) :
          Make(o, k, Lengths(table, objs[s].dvid), bad, v, z)
    BY <1>2 DEF Duplicate
  <2>2. bad = {}
    BY <1>2, FailsNowhere DEF Usable
  <2>3. Lengths(table, objs[s].dvid) \in Lens
    BY NamedLengths DEF ValueInv
  <2>4. AllSound' /\ OthersKeep(o) /\ Val(table', objs'[o]) = Data(Lengths(table, objs[s].dvid))
    BY <1>2, <2>1, <2>2, <2>3, MakeValue
  <2>5. Val(table, objs[s]) = Data(Lengths(table, objs[s].dvid))
    BY <1>2 DEF Val, Usable, Live
  <2> QED
    BY <2>4, <2>5
<1> QED
  BY <1>1, <1>2

LEMMA CacheSays ==
  ASSUME ValueInv, ~ Stale, NEW s \in Obj, Vector(s), objs[s].is_sizevec_valid
  PROVE  objs[s].dvid # 0 /\ objs[s].sizevec = Lengths(table, objs[s].dvid)
<1>1. objs[s].dvid # 0 /\ \A r \in Rank : objs[s].sizevec[r] = table[r][objs[s].dvid]
  BY DEF ValueInv, AllSound, Sound, Fresh, Vector, Usable
<1>2. \A r \in Rank : Lengths(table, objs[s].dvid)[r] = objs[s].sizevec[r]
  BY <1>1, OwnData, HeldLengths DEF Vector, Usable
<1>3. objs[s].sizevec \in Lens
  BY SizesTypes DEF ValueInv, Objects
<1> QED
  BY <1>1, <1>2, <1>3 DEF Lens, Lengths

LEMMA CopyCtorValue ==
  ASSUME ValueInv, ~ Faults, NEW o \in Obj, NEW s \in Obj, CopyCtor(o, s) \/ CopyAs(o, s)
  PROVE  AllSound' /\ OthersKeep(o) /\ Val(table', objs'[o]) = Val(table, objs[s])
<1>1. CASE CopyCtor(o, s)
  <2>1. /\ objs[s].kind \in Kinds /\ objs[s].is_sizevec_valid \in BOOLEAN
        /\ objs[s].sizevec \in Lens /\ Usable(s)
        /\ Duplicate(o, s, objs[s].kind, objs[s].is_sizevec_valid, objs[s].sizevec)
    BY <1>1, SizesTypes, UsableKind DEF ValueInv, CopyCtor, Usable, Objects
  <2>2. objs[s].kind = "dvector" /\ objs[s].is_sizevec_valid =>
          Stale \/ (objs[s].dvid # 0 /\ objs[s].sizevec = Lengths(table, objs[s].dvid))
    BY <2>1, CacheSays DEF Vector
  <2> QED
    BY <2>1, <2>2, DuplicateValue
<1>2. CASE CopyAs(o, s)
  <2>1. Other(objs[s].kind) \in Kinds /\ Usable(s)
        /\ Duplicate(o, s, Other(objs[s].kind), FALSE, NoSizes)
    BY <1>2, UsableKind DEF ValueInv, CopyAs, Usable
  <2> QED
    BY <2>1, LensFacts, DuplicateValue
<1> QED
  BY <1>1, <1>2

(* Moving hands the value over, whichever object gets the other's old id.  *)
LEMMA HandedOver ==
  ASSUME ValueInv, NEW o \in Obj, NEW s \in Obj, o # s, Live(o) \/ objs'[s].dvid = 0, Usable(s),
         table' = table, \A p \in Obj : p # o /\ p # s => objs'[p] = objs[p],
         objs'[o].kind # "none", ~ objs'[o].moved, ~ objs'[o].is_view,
         objs'[o].dvid = objs[s].dvid, objs'[o] = objs[s] \/ ~ objs'[o].is_sizevec_valid,
         objs'[s].moved, ~ objs'[s].is_view, objs'[s].kind # "none",
         objs'[s].dvid \in {0, objs[o].dvid}
  PROVE  /\ AllSound'
         /\ \A p \in Obj : p # o /\ p # s => Val(table', objs'[p]) = Val(table, objs[p])
         /\ Val(table', objs'[o]) = Val(table, objs[s])
         /\ Val(table', objs'[s]) = [is |-> "moved from"]
<1>1. Sound(table', objs'[o])
  <2>1. Sound(table, objs[s]) /\ objs[s].kind # "none"
    BY DEF ValueInv, AllSound, Usable, Live
  <2> QED
    BY <2>1 DEF Sound, Backed, Fresh
<1>2. Sound(table', objs'[s])
  <2>1. Sound(table, objs[o])
    BY DEF ValueInv, AllSound
  <2> QED
    BY <2>1 DEF Sound, Backed, Fresh, Live
<1>3. \A p \in Obj : p # o /\ p # s => Sound(table', objs'[p])
  BY DEF ValueInv, AllSound
<1>4. Val(table', objs'[o]) = Val(table, objs[s])
  BY DEF Val, Usable, Live
<1>5. Val(table', objs'[s]) = [is |-> "moved from"]
  BY DEF Val
<1> QED
  BY <1>1, <1>2, <1>3, <1>4, <1>5 DEF AllSound

LEMMA MoveValue ==
  ASSUME ValueInv, NEW o \in Obj, NEW s \in Obj,
         MoveCtor(o, s) \/ MoveTo(o, s) \/ MoveAssign(o, s)
  PROVE  /\ AllSound' /\ o # s /\ Usable(s)
         /\ \A p \in Obj : p # o /\ p # s => Val(table', objs'[p]) = Val(table, objs[p])
         /\ Val(table', objs'[o]) = Val(table, objs[s])
         /\ Val(table', objs'[s]) = [is |-> "moved from"]
<1>1. /\ o # s /\ Usable(s) /\ table' = table /\ DOMAIN objs[s] = Fields
      /\ objs[s].kind # "none" /\ ~ objs[s].moved
      /\ ~ objs[s].is_view /\ ~ objs[o].is_view
  BY DEF MoveCtor, MoveTo, MoveAssign, Rename, Usable, Live, ValueInv, AllSound, Sound,
         SizesInv, OwnerInv, Shaped
<1>2. CASE MoveCtor(o, s)
  <2> DEFINE y == [objs[s] EXCEPT !.dvid = 0,
                     !.is_view = IF objs[s].kind = "dvector" THEN @ ELSE FALSE,
                     !.sizevec = NoSizes, !.moved = TRUE]
  <2>1. y.dvid = 0 /\ ~ y.is_view /\ y.moved /\ y.kind = objs[s].kind
    BY <1>1 DEF Fields
  <2>2. objs' = [objs EXCEPT ![o] = objs[s], ![s] = y]
    BY <1>1, <1>2, SizesTypes DEF MoveCtor, Rename, ValueInv
  <2> HIDE DEF y
  <2>3. /\ objs'[o] = objs[s] /\ objs'[s] = y
        /\ \A p \in Obj : p # o /\ p # s => objs'[p] = objs[p]
    BY <1>1, <2>2, SizesTypes DEF ValueInv
  <2> QED
    BY <1>1, <2>1, <2>3, HandedOver
<1>3. CASE MoveTo(o, s)
  <2> DEFINE x == Object(Other(objs[s].kind), objs[s].dvid, objs[s].is_view, FALSE, NoSizes)
             y == [objs[s] EXCEPT !.dvid = 0, !.moved = TRUE]
  <2>1. /\ x.dvid = objs[s].dvid /\ ~ x.is_view /\ ~ x.moved /\ x.kind # "none"
        /\ ~ x.is_sizevec_valid
    BY <1>1 DEF Object, Other
  <2>2. y.dvid = 0 /\ ~ y.is_view /\ y.moved /\ y.kind = objs[s].kind
    BY <1>1 DEF Fields
  <2>3. objs' = [objs EXCEPT ![o] = x, ![s].dvid = 0, ![s].moved = TRUE]
    BY <1>3 DEF MoveTo, Rename
  <2> HIDE DEF x
  <2>4. objs' = [objs EXCEPT ![o] = x, ![s] = y]
    BY <1>1, <2>3, SizesTypes DEF ValueInv
  <2> HIDE DEF y
  <2>5. /\ objs'[o] = x /\ objs'[s] = y
        /\ \A p \in Obj : p # o /\ p # s => objs'[p] = objs[p]
    BY <1>1, <2>4, SizesTypes DEF ValueInv
  <2> QED
    BY <1>1, <2>1, <2>2, <2>5, HandedOver
<1>4. CASE MoveAssign(o, s)
  <2> DEFINE y == [objs[s] EXCEPT !.dvid = objs[o].dvid, !.is_view = objs[o].is_view,
                     !.sizevec = objs[o].sizevec, !.moved = TRUE]
  <2>1. y.dvid = objs[o].dvid /\ ~ y.is_view /\ y.moved /\ y.kind = objs[s].kind
    BY <1>1 DEF Fields
  <2>2. objs' = [objs EXCEPT ![o] = objs[s], ![s] = y]
    BY <1>1, <1>4, SizesTypes DEF MoveAssign, Rename, ValueInv
  <2> HIDE DEF y
  <2>3. /\ objs'[o] = objs[s] /\ objs'[s] = y
        /\ \A p \in Obj : p # o /\ p # s => objs'[p] = objs[p]
    BY <1>1, <2>2, SizesTypes DEF ValueInv
  <2>4. Live(o)
    BY <1>4 DEF MoveAssign
  <2> QED
    BY <1>1, <2>1, <2>3, <2>4, HandedOver
<1> QED
  BY <1>1, <1>2, <1>3, <1>4

(* The destructor finds what it deletes.                                   *)
LEMMA DestroyValue ==
  ASSUME ValueInv, NEW o \in Obj, Destroy(o)
  PROVE  /\ AllSound' /\ OthersKeep(o) /\ process' = "up"
         /\ Val(table', objs'[o]) = [is |-> "out of scope"]
<1> DEFINE gone == objs[o].dvid
<1>1. /\ Live(o) /\ objs' = [objs EXCEPT ![o] = Nothing]
      /\ table' = IF Owns(o) THEN Deleted(table, gone) ELSE table
      /\ process' = IF Owns(o) /\ ~ Held(gone) THEN "terminated" ELSE "up"
  BY DEF Destroy
<1>2. gone # 0 => Owns(o) /\ Held(gone) /\ \A p \in Obj : p # o /\ Live(p) => objs[p].dvid # gone
  BY <1>1, OwnData
<1>3. Nothing.kind = "none" /\ Nothing.dvid = 0 /\ ~ Nothing.is_view
  BY DEF Nothing, Object
<1>4. objs'[o] = Nothing /\ \A p \in Obj : p # o => objs'[p] = objs[p]
  BY <1>1, SizesTypes DEF ValueInv
<1>5. \A r \in Rank, e \in Dvid : table'[r][e] = IF e = gone THEN absent ELSE table[r][e]
  <2>1. CASE gone = 0
    BY <1>1, <2>1 DEF Owns, Dvid
  <2>2. CASE gone # 0
    BY <1>1, <1>2, <2>2, SizesTypes, DeletedAt DEF ValueInv
  <2> QED
    BY <2>1, <2>2
<1>6. process' = "up"
  BY <1>1, <1>2 DEF Owns
<1>7. gone \in Nat /\ \A p \in Obj : p # o /\ Live(p) /\ objs[p].dvid # 0 => objs[p].dvid # gone
  BY <1>2, SizesTypes DEF ValueInv
<1> HIDE DEF gone
<1>8. AllSound' /\ OthersKeep(o)
  BY <1>3, <1>4, <1>5, <1>7, NoData
<1> QED
  BY <1>3, <1>4, <1>6, <1>8 DEF Val

(* Assigning replaces the value by a copy of the source's.                 *)
LEMMA CopyAssignValue ==
  ASSUME ValueInv, ~ Faults, NEW o \in Obj, NEW s \in Obj, o # s, CopyAssign(o, s)
  PROVE  AllSound' /\ OthersKeep(o) /\ Val(table', objs'[o]) = Val(table, objs[s])
<1> DEFINE gone == objs[o].dvid
           src == objs[s].dvid
           left == IF Owns(o) THEN Deleted(table, gone) ELSE table
           x(d) == Object(objs[s].kind, d, FALSE, objs[s].is_sizevec_valid, objs[s].sizevec)
<1>1. Live(o) /\ Usable(s) /\ Live(s) /\ objs[s].kind # "none" /\ ~ objs[s].moved
  BY DEF CopyAssign, Usable, Live
<1>2. gone # 0 => Owns(o) /\ Held(gone) /\ \A p \in Obj : p # o /\ Live(p) => objs[p].dvid # gone
  BY <1>1, OwnData
<1>3. left \in Tables /\ \A r \in Rank, e \in Dvid :
        left[r][e] = IF e = gone THEN absent ELSE table[r][e]
  <2>1. CASE gone = 0
    BY <2>1, SizesTypes DEF ValueInv, Owns, Dvid
  <2>2. CASE gone # 0
    BY <1>2, <2>2, SizesTypes, DeletedAt DEF ValueInv
  <2> QED
    BY <2>1, <2>2
<1>4. \/ src = 0 /\ table' = left /\ objs' = [objs EXCEPT ![o] = x(0)]
      \/ /\ src # 0 /\ current_dvid < MaxDvid
         /\ \E bad \in Failing(left, src) :
              /\ table' = Stored(left, current_dvid, Lengths(left, src), bad)
              /\ objs' = IF bad = {} THEN [objs EXCEPT ![o] = x(current_dvid)] ELSE objs
  BY <1>2 DEF CopyAssign, Owns
<1>5. \A d : /\ x(d).dvid = d /\ ~ x(d).is_view /\ x(d).kind = objs[s].kind /\ ~ x(d).moved
             /\ x(d).is_sizevec_valid = objs[s].is_sizevec_valid
             /\ x(d).sizevec = objs[s].sizevec
  BY DEF Object
<1>6. objs[s].kind = "dvector" /\ objs[s].is_sizevec_valid =>
        Stale \/ (src # 0 /\ objs[s].sizevec = Lengths(table, src))
  BY <1>1, CacheSays DEF Vector
<1>7. gone \in Nat /\ \A p \in Obj : p # o /\ Live(p) /\ objs[p].dvid # 0 => objs[p].dvid # gone
  BY <1>2, SizesTypes DEF ValueInv
<1> HIDE DEF left, x, gone
<1>8. CASE src = 0 /\ table' = left /\ objs' = [objs EXCEPT ![o] = x(0)]
  <2>1. objs'[o] = x(0) /\ \A p \in Obj : p # o => objs'[p] = objs[p]
    BY <1>8, SizesTypes DEF ValueInv
  <2>2. AllSound' /\ OthersKeep(o)
    <3>1. \A r \in Rank, e \in Dvid : table'[r][e] = IF e = gone THEN absent ELSE table[r][e]
      BY <1>3, <1>8
    <3>2. objs'[o].dvid = 0 /\ ~ objs'[o].is_view
      BY <1>5, <2>1
    <3>3. objs'[o].kind = "dvector" /\ ~ objs'[o].moved /\ objs'[o].is_sizevec_valid => Stale
      BY <1>5, <1>6, <1>8, <2>1
    <3> QED
      BY <1>7, <2>1, <3>1, <3>2, <3>3, NoData
  <2>3. Val(table', objs'[o]) = [is |-> "empty"]
    <3>1. objs'[o].dvid = 0 /\ objs'[o].kind # "none" /\ ~ objs'[o].moved
      BY <1>1, <1>5, <2>1
    <3> QED
      BY <3>1 DEF Val
  <2>4. Val(table, objs[s]) = [is |-> "empty"]
    BY <1>1, <1>8 DEF Val
  <2> QED
    BY <2>2, <2>3, <2>4
<1>9. ASSUME NEW bad \in Failing(left, src), src # 0, current_dvid < MaxDvid,
             table' = Stored(left, current_dvid, Lengths(left, src), bad),
             objs' = IF bad = {} THEN [objs EXCEPT ![o] = x(current_dvid)] ELSE objs
      PROVE  AllSound' /\ OthersKeep(o) /\ Val(table', objs'[o]) = Val(table, objs[s])
  <2>1. /\ current_dvid \in 0 .. MaxDvid - 1 /\ current_dvid # 0 /\ current_dvid \in Dvid
        /\ src \in 0 .. MaxDvid - 1 /\ src \in Dvid
    BY <1>9, SizesTypes, MaxDvidAssumption DEF ValueInv, Dvid
  <2>2. \A r \in Rank : left[r][src] = table[r][src] /\ table[r][src] # absent
    BY <1>1, <1>3, <1>7, <1>9, <2>1, OwnData
  <2>3. Lengths(left, src) = Lengths(table, src) /\ Missing(left, src) = {}
    BY <1>9, <2>2 DEF Lengths, Missing
  <2>4. bad = {}
    BY <2>3 DEF Failing
  <2>5. Lengths(table, src) \in Layout
    BY NamedLengths, LensFacts DEF ValueInv
  <2>6. \A r \in Rank, e \in Dvid : table'[r][e] =
          IF e = current_dvid /\ r \notin {} THEN Lengths(table, src)[r] ELSE left[r][e]
    BY <1>3, <1>9, <2>1, <2>3, <2>4, <2>5, StoredAt
  <2>7. \A r \in Rank, e \in Dvid : table'[r][e] =
          IF e = current_dvid THEN Lengths(table, src)[r]
          ELSE IF e = gone THEN absent ELSE table[r][e]
    BY <1>3, <2>6
  <2>8. objs'[o] = x(current_dvid) /\ \A p \in Obj : p # o => objs'[p] = objs[p]
    BY <1>9, <2>4, SizesTypes DEF ValueInv
  <2>9. AllSound' /\ OthersKeep(o) /\ Val(table', objs'[o]) = Data(Lengths(table, src))
    BY <1>1, <1>5, <1>6, <1>7, <2>1, <2>5, <2>7, <2>8, NewData
  <2>10. Val(table, objs[s]) = Data(Lengths(table, src))
    BY <1>1, <1>9 DEF Val
  <2> QED
    BY <2>9, <2>10
<1> QED
  BY <1>4, <1>8, <1>9

(* sizes() answers with what the ranks have, and changes no value.         *)
LEMMA HeldNamed ==
  ASSUME NEW d, Held(d)
  PROVE  d # 0
<1>1. 0 \in Rank
  BY NAssumption DEF Rank
<1> QED
  BY <1>1 DEF Held, Missing

LEMMA SizesKnown ==
  ASSUME ValueInv, ~ Stale, NEW s \in Obj, Sizeable(s)
  PROVE  objs[s].dvid # 0 /\ sizes(s) = Lengths(table, objs[s].dvid)
BY CacheSays, HeldNamed DEF Sizeable, sizes

LEMMA SizedValue ==
  ASSUME ValueInv, NEW s \in Obj, Sizeable(s)
  PROVE  \A p \in Obj : Sound(table, Sized(s)[p]) /\ Val(table, Sized(s)[p]) = Val(table, objs[p])
<1> DEFINE y == [objs[s] EXCEPT !.is_sizevec_valid = TRUE, !.sizevec = sizes(s)]
<1>1. /\ y.kind = objs[s].kind /\ y.dvid = objs[s].dvid /\ y.is_view = objs[s].is_view
      /\ y.moved = objs[s].moved /\ y.sizevec = sizes(s)
  BY DEF ValueInv, SizesInv, OwnerInv, Shaped, Fields
<1>2. Sized(s) = [objs EXCEPT ![s] = y]
  BY SizesTypes DEF Sized, ValueInv
<1> HIDE DEF y
<1>3. Sized(s)[s] = y /\ \A p \in Obj : p # s => Sized(s)[p] = objs[p]
  BY <1>2, SizesTypes DEF ValueInv
<1>4. \A p \in Obj : Sound(table, objs[p])
  BY DEF ValueInv, AllSound
<1>5. ~ Stale => objs[s].dvid # 0 /\ \A r \in Rank : sizes(s)[r] = table[r][objs[s].dvid]
  BY SizesKnown, OwnData, HeldLengths DEF Sizeable, Vector, Usable
<1>6. Sound(table, y)
  BY <1>1, <1>4, <1>5 DEF Sound, Backed, Fresh
<1>7. Val(table, y) = Val(table, objs[s])
  BY <1>1 DEF Val
<1> QED
  BY <1>3, <1>4, <1>6, <1>7

LEMMA SizesValue ==
  ASSUME ValueInv, NEW s \in Obj, Sizes(s)
  PROVE  AllSound' /\ \A p \in Obj : Val(table', objs'[p]) = Val(table, objs[p])
<1>1. Sizeable(s) /\ objs' = Sized(s) /\ table' = table
  BY DEF Sizes, Rename
<1> QED
  BY <1>1, SizedValue DEF AllSound

(* What head and tail cut out is a value of its own.                       *)
LEMMA TruncateValue ==
  ASSUME ValueInv, ~ Faults, NEW o \in Obj, NEW s \in Obj, Sizeable(s), NEW trunc \in Layout,
         Truncate(o, s, trunc)
  PROVE  /\ AllSound'
         /\ \/ \A p \in Obj : Val(table', objs'[p]) = Val(table, objs[p])
            \/ /\ ~ Live(o) /\ OthersKeep(o)
               /\ \E len \in Lens : Val(table', objs'[o]) = Data(len)
<1> DEFINE d0 == objs[s].dvid
           x == Object("dvector", current_dvid, FALSE, FALSE, NoSizes)
           len == [r \in Rank |-> Smaller(Lengths(table, d0)[r], trunc[r])]
<1>1. PICK bad \in Failing(table, d0) :
        /\ ~ Live(o) /\ current_dvid < MaxDvid
        /\ table' = Stored(table, current_dvid, len, bad)
        /\ objs' = IF bad = {} THEN [Sized(s) EXCEPT ![o] = x] ELSE Sized(s)
  BY DEF Truncate
<1>2. current_dvid \in 0 .. MaxDvid - 1 /\ current_dvid # 0 /\ current_dvid \in Dvid
  BY <1>1, SizesTypes, MaxDvidAssumption DEF ValueInv, Dvid
<1>3. /\ x.dvid = current_dvid /\ x.kind = "dvector" /\ ~ x.is_view /\ ~ x.moved
      /\ ~ x.is_sizevec_valid
  BY DEF Object
<1>4. len \in Lens
  <2>1. \A r \in Rank : Lengths(table, d0)[r] \in 0 .. MaxLen /\ trunc[r] \in Nat
    BY NamedLengths DEF Lens, Layout, ValueInv
  <2> QED
    BY <2>1, MaxLenAssumption DEF Smaller, Lens
<1> HIDE DEF x, len
<1>5. bad = IF d0 = 0 THEN Rank ELSE {}
  BY FailsNowhere DEF Sizeable, Vector, Usable
<1>6. \A r \in Rank, e \in Dvid :
        table'[r][e] = IF e = current_dvid /\ r \notin bad THEN len[r] ELSE table[r][e]
  BY <1>1, <1>2, <1>4, <1>5, LensFacts, SizesTypes, StoredAt DEF ValueInv
<1>7. CASE bad # {}
  <2>1. objs' = Sized(s) /\ bad = Rank
    BY <1>1, <1>5, <1>7
  <2>2. \A r \in Rank, e \in Dvid : table'[r][e] = table[r][e]
    BY <1>6, <2>1
  <2>3. ASSUME NEW p \in Obj
        PROVE  Sound(table', objs'[p]) /\ Val(table', objs'[p]) = Val(table, objs[p])
    <3>1. /\ Sound(table, Sized(s)[p]) /\ Val(table, Sized(s)[p]) = Val(table, objs[p])
          /\ Sized(s)[p].dvid = objs[p].dvid
      BY SizedValue, SizedType DEF ValueInv
    <3>2. objs[p].dvid # 0 => \A r \in Rank : table'[r][objs[p].dvid] = table[r][objs[p].dvid]
      BY <2>2, SizesTypes DEF ValueInv
    <3> QED
      BY <2>1, <3>1, <3>2, Untouched
  <2> QED
    BY <2>3 DEF AllSound
<1>8. CASE bad = {}
  <2>1. objs'[o] = x /\ \A p \in Obj : p # o => objs'[p] = Sized(s)[p]
    BY <1>1, <1>8, SizedType DEF ValueInv
  <2>2. \A r \in Rank, e \in Dvid :
          table'[r][e] = IF e = current_dvid THEN len[r] ELSE table[r][e]
    BY <1>6, <1>8
  <2>3. ASSUME NEW p \in Obj, p # o
        PROVE  Sound(table', objs'[p]) /\ Val(table', objs'[p]) = Val(table, objs[p])
    <3>1. /\ Sound(table, Sized(s)[p]) /\ Val(table, Sized(s)[p]) = Val(table, objs[p])
          /\ Sized(s)[p].dvid = objs[p].dvid
      BY SizedValue, SizedType DEF ValueInv
    <3>2. objs[p].dvid # current_dvid
      BY DEF ValueInv, SizesInv, OwnerInv, Named
    <3>3. objs[p].dvid # 0 => \A r \in Rank : table'[r][objs[p].dvid] = table[r][objs[p].dvid]
      BY <2>2, <3>2, SizesTypes DEF ValueInv
    <3> QED
      BY <2>1, <2>3, <3>1, <3>3, Untouched
  <2>4. \A r \in Rank : len[r] # absent /\ table'[r][current_dvid] = len[r]
    BY <1>2, <1>4, <2>2, LensFacts
  <2>5. Sound(table', objs'[o])
    BY <1>3, <2>1, <2>4 DEF Sound, Backed, Fresh
  <2>6. Val(table', objs'[o]) = Data(len)
    <3>1. \A r \in Rank : Lengths(table', current_dvid)[r] = len[r]
      BY <1>2, <2>4, HeldLengths
    <3>2. Lengths(table', current_dvid) = len
      BY <1>4, <3>1 DEF Lengths, Lens
    <3> QED
      BY <1>2, <1>3, <2>1, <3>2 DEF Val
  <2> QED
    BY <1>1, <1>4, <2>3, <2>5, <2>6 DEF AllSound, OthersKeep
<1> QED
  BY <1>7, <1>8

(* In place, only the value of the object itself changes, and shrinks.     *)
LEMMA InplaceValue ==
  ASSUME ValueInv, ~ Faults, NEW o \in Obj, InplaceFilter(o) \/ Clear(o)
  PROVE  /\ AllSound'
         /\ \/ \A p \in Obj : Val(table', objs'[p]) = Val(table, objs[p])
            \/ /\ Vector(o) /\ objs[o].dvid # 0 /\ OthersKeep(o)
               /\ \E len \in Lens :
                    /\ \A r \in Rank : len[r] <= Lengths(table, objs[o].dvid)[r]
                    /\ Val(table', objs'[o]) = Data(len)
<1> DEFINE d0 == objs[o].dvid
<1>1. PICK len \in Lens, bad \in SUBSET Rank :
        /\ Vector(o) /\ bad = Missing(table, d0)
        /\ \A r \in Rank : len[r] <= Lengths(table, d0)[r]
        /\ table' = Stored(table, d0, len, bad)
        /\ objs' = IF bad = {} THEN [objs EXCEPT ![o].is_sizevec_valid = FALSE] ELSE objs
  <2>1. CASE InplaceFilter(o)
    BY <2>1 DEF InplaceFilter, Failing
  <2>2. CASE Clear(o)
    <3>1. \A r \in Rank : NoSizes[r] <= Lengths(table, d0)[r]
      BY NamedLengths, MaxLenAssumption DEF ValueInv, NoSizes, Lens
    <3> QED
      BY <2>2, <3>1, LensFacts DEF Clear, Held
  <2> QED
    BY <2>1, <2>2
<1>2. CASE d0 = 0
  <2>1. bad = Rank
    BY <1>1, <1>2 DEF Missing
  <2>2. 0 \in Rank
    BY NAssumption DEF Rank
  <2>3. objs' = objs
    BY <1>1, <2>1, <2>2
  <2>4. Stored(table, d0, len, Rank) = [r \in Rank |-> table[r]]
    BY DEF Stored
  <2>5. table' = table
    BY <1>1, <2>1, <2>4, SizesTypes DEF ValueInv, Tables
  <2> QED
    BY <2>3, <2>5 DEF ValueInv, AllSound
<1>3. CASE d0 # 0
  <2>1. /\ bad = {} /\ d0 \in Dvid
        /\ \A p \in Obj : p # o /\ Live(p) => objs[p].dvid # d0
    BY <1>1, <1>3, OwnData DEF Vector, Usable, Held
  <2>2. \A r \in Rank, e \in Dvid :
          table'[r][e] = IF e = d0 /\ r \notin {} THEN len[r] ELSE table[r][e]
    BY <1>1, <1>3, <2>1, LensFacts, SizesTypes, StoredAt DEF ValueInv
  <2> DEFINE y == [objs[o] EXCEPT !.is_sizevec_valid = FALSE]
  <2>3. /\ y.kind = objs[o].kind /\ y.dvid = d0 /\ ~ y.is_view
        /\ y.moved = objs[o].moved /\ ~ y.is_sizevec_valid
    BY DEF ValueInv, AllSound, Sound, SizesInv, OwnerInv, Shaped, Fields
  <2>4. objs' = [objs EXCEPT ![o] = y]
    BY <1>1, <2>1
  <2> HIDE DEF y
  <2>5. objs'[o] = y /\ \A p \in Obj : p # o => objs'[p] = objs[p]
    BY <2>4, SizesTypes DEF ValueInv
  <2> HIDE DEF d0
  <2>6. ASSUME NEW p \in Obj, p # o
        PROVE  Sound(table', objs'[p]) /\ Val(table', objs'[p]) = Val(table, objs[p])
    <3>1. objs[p].kind # "none" /\ objs[p].dvid # 0 =>
            \A r \in Rank : table'[r][objs[p].dvid] = table[r][objs[p].dvid]
      BY <2>1, <2>2, <2>6, SizesTypes DEF ValueInv, Live
    <3> QED
      BY <2>5, <2>6, <3>1, Untouched DEF ValueInv, AllSound
  <2>7. \A r \in Rank : len[r] # absent /\ table'[r][d0] = len[r]
    BY <2>1, <2>2, LensFacts
  <2>8. Sound(table', objs'[o])
    BY <2>3, <2>5, <2>7 DEF Sound, Backed, Fresh
  <2>9. Lengths(table', d0) = len
    <3>1. \A r \in Rank : Lengths(table', d0)[r] = len[r]
      BY <1>3, <2>7, HeldLengths
    <3> QED
      BY <3>1 DEF Lengths, Lens
  <2>10. Val(table', objs'[o]) = Data(len)
    BY <1>1, <1>3, <2>3, <2>5, <2>9 DEF Val, Vector, Usable, Live
  <2> QED
    BY <1>1, <1>3, <2>6, <2>8, <2>10 DEF AllSound, OthersKeep, d0
<1> QED
  BY <1>2, <1>3

(* Aligning moves the elements to where they were asked for.               *)
LEMMA AlignAsValue ==
  ASSUME ValueInv, NEW o \in Obj, NEW dst \in Lens, AlignAs(o, dst)
  PROVE  /\ AllSound' /\ process' # "terminated"
         /\ \/ \A p \in Obj : Val(table', objs'[p]) = Val(table, objs[p])
            \/ /\ Vector(o) /\ objs[o].dvid # 0 /\ OthersKeep(o)
               /\ Total(dst) = Total(sizes(o))
               /\ Val(table', objs'[o]) = Data(dst)
<1> DEFINE d0 == objs[o].dvid
           x == Object("dvector", current_dvid, FALSE, TRUE, dst)
           arrived == [r \in Rank |->
             SumFunction([s \in Rank |-> alltoall_size(sizes(o), dst, s, r)])]
           new == Stored(table, current_dvid, arrived, {})
<1>1. /\ Sizeable(o) /\ Held(d0) /\ Total(dst) = Total(sizes(o))
      /\ \/ Rename(Sized(o))
         \/ /\ current_dvid < MaxDvid /\ process' = process
            /\ table' = Deleted(new, d0)
            /\ objs' = [objs EXCEPT ![o] = x]
         \/ process' = "crashed" /\ UNCHANGED <<objs, table>>
  BY DEF AlignAs
<1>2. CASE Rename(Sized(o))
  BY <1>1, <1>2, SizedValue DEF Rename, AllSound, ValueInv
<1>3. CASE process' = "crashed" /\ UNCHANGED <<objs, table>>
  BY <1>3 DEF ValueInv, AllSound
<1>4. CASE /\ current_dvid < MaxDvid /\ process' = process
           /\ table' = Deleted(new, d0)
           /\ objs' = [objs EXCEPT ![o] = x]
  <2>1. current_dvid \in 0 .. MaxDvid - 1 /\ current_dvid # 0 /\ current_dvid \in Dvid
    BY <1>4, SizesTypes, MaxDvidAssumption DEF ValueInv, Dvid
  <2>2. /\ x.dvid = current_dvid /\ x.kind # "none" /\ ~ x.is_view /\ ~ x.moved
        /\ x.sizevec = dst
    BY DEF Object
  <2>3. arrived = dst
    <3>1. sizes(o) \in Layout /\ dst \in Layout
      BY SizedType, LensFacts DEF ValueInv
    <3>2. \A r \in Rank : arrived[r] = dst[r]
      BY <1>1, <3>1, AlignArrives
    <3> QED
      BY <3>1, <3>2 DEF Layout
  <2> HIDE DEF x, arrived
  <2>4. /\ new \in Tables
        /\ \A r \in Rank, e \in Dvid :
             new[r][e] = IF e = current_dvid /\ r \notin {} THEN dst[r] ELSE table[r][e]
    BY <2>1, <2>3, LensFacts, SizesTypes, StoredAt DEF ValueInv
  <2> HIDE DEF new
  <2>5. d0 # 0 /\ Vector(o) /\ \A p \in Obj : p # o /\ Live(p) => objs[p].dvid # d0
    BY <1>1, HeldNamed, OwnData DEF Sizeable, Vector, Usable
  <2>6. d0 # current_dvid
    BY DEF ValueInv, SizesInv, OwnerInv, Named
  <2>7. \A r \in Rank, e \in Dvid : table'[r][e] =
          IF e = current_dvid THEN dst[r] ELSE IF e = d0 THEN absent ELSE table[r][e]
    <3>1. \A r \in Rank, e \in Dvid : table'[r][e] = IF e = d0 THEN absent ELSE new[r][e]
      BY <1>4, <2>4, SizesTypes, DeletedAt DEF ValueInv
    <3> QED
      BY <2>4, <2>6, <3>1
  <2>8. objs'[o] = x /\ \A p \in Obj : p # o => objs'[p] = objs[p]
    BY <1>4, SizesTypes DEF ValueInv
  <2>9. dst \in Layout /\ process' # "terminated"
    BY <1>4, LensFacts DEF ValueInv
  <2>10. d0 \in Nat /\ \A p \in Obj : p # o /\ Live(p) /\ objs[p].dvid # 0 => objs[p].dvid # d0
    BY <2>5, SizesTypes DEF ValueInv
  <2> HIDE DEF d0
  <2>11. AllSound' /\ OthersKeep(o) /\ Val(table', objs'[o]) = Data(dst)
    <3>1. /\ objs'[o].dvid = current_dvid /\ ~ objs'[o].is_view
          /\ objs'[o].kind # "none" /\ ~ objs'[o].moved
          /\ objs'[o].kind = "dvector" /\ objs'[o].is_sizevec_valid =>
               Stale \/ objs'[o].sizevec = dst
      BY <2>2, <2>8
    <3>2. \A p \in Obj : p # o => objs'[p] = objs[p]
      BY <2>8
    <3> QED
      BY <2>1, <2>7, <2>9, <2>10, <3>1, <3>2, NewData
  <2> QED
    BY <1>1, <2>5, <2>9, <2>11 DEF d0
<1> QED
  BY <1>1, <1>2, <1>3, <1>4

(* Sorting leaves an object with data on every rank.                       *)
LEMMA SortValue ==
  ASSUME ValueInv, NEW o \in Obj, Sort(o)
  PROVE  AllSound'
<1> DEFINE d == current_dvid + 1
           new == Stored(table, current_dvid, [r \in Rank |-> N], {})
<1>1. /\ Stale /\ d < MaxDvid /\ objs' = [objs EXCEPT ![o].dvid = d] /\ Live(o)
  BY DEF Sort, Vector, Usable, Stale
<1>2. PICK len \in Lens : table' = Stored(new, d, len, {})
  BY DEF Sort
<1>3. /\ current_dvid \in 0 .. MaxDvid - 1 /\ current_dvid # 0
      /\ d \in 0 .. MaxDvid - 1 /\ d # 0 /\ d \in Dvid
  BY <1>1, SizesTypes, MaxDvidAssumption DEF ValueInv, Dvid
<1>4. [r \in Rank |-> N] \in Layout
  BY NAssumption DEF Layout
<1>5. /\ new \in Tables
      /\ \A r \in Rank, e \in Dvid : e # current_dvid => new[r][e] = table[r][e]
  BY <1>3, <1>4, SizesTypes, StoredAt DEF ValueInv
<1> HIDE DEF new
<1>6. \A p \in Obj : objs[p].dvid # current_dvid /\ objs[p].dvid # d
                     /\ (objs[p].dvid # 0 => objs[p].dvid \in Dvid)
  BY SizesTypes DEF ValueInv, SizesInv, OwnerInv, Named
<1> HIDE DEF d
<1>7. \A r \in Rank, e \in Dvid :
        table'[r][e] = IF e = d /\ r \notin {} THEN len[r] ELSE new[r][e]
  BY <1>2, <1>3, <1>5, LensFacts, StoredAt
<1>8. ASSUME NEW p \in Obj PROVE Sound(table', objs'[p])
  <2>1. CASE p = o
    <3> DEFINE y == [objs[o] EXCEPT !.dvid = d]
    <3>1. y.dvid = d /\ ~ y.is_view
      BY DEF ValueInv, AllSound, Sound, SizesInv, OwnerInv, Shaped, Fields
    <3>2. objs'[o] = y
      BY <1>1, SizesTypes DEF ValueInv
    <3> HIDE DEF y
    <3>3. \A r \in Rank : table'[r][d] # absent
      BY <1>3, <1>7, LensFacts
    <3> QED
      BY <1>1, <2>1, <3>1, <3>2, <3>3 DEF Sound, Backed
  <2>2. CASE p # o
    <3>1. objs'[p] = objs[p]
      BY <1>1, <2>2, SizesTypes DEF ValueInv
    <3>2. objs[p].dvid # 0 => \A r \in Rank : table'[r][objs[p].dvid] = table[r][objs[p].dvid]
      BY <1>5, <1>6, <1>7
    <3> QED
      BY <3>1, <3>2, Untouched DEF ValueInv, AllSound
  <2> QED
    BY <2>1, <2>2
<1> QED
  BY <1>8 DEF AllSound

---------------------------------------------------------------------------
(* Every step is a step of values, or none that shows.                     *)
Constructs(o) ==
  /\ ~ Live(o) /\ OthersKeep(o)
  /\ \/ Val(table', objs'[o]) = [is |-> "empty"]
     \/ \E len \in Lens : Val(table', objs'[o]) = Data(len)
Copies(o, s) == Usable(s) /\ OthersKeep(o) /\ Val(table', objs'[o]) = Val(table, objs[s])
Moves(o, s) ==
  /\ o # s /\ Usable(s)
  /\ \A p \in Obj : p # o /\ p # s => Val(table', objs'[p]) = Val(table, objs[p])
  /\ Val(table', objs'[o]) = Val(table, objs[s])
  /\ Val(table', objs'[s]) = [is |-> "moved from"]
Removes(o) ==
  /\ Usable(o) /\ objs[o].dvid # 0 /\ OthersKeep(o)
  /\ \E len \in Lens : /\ \A r \in Rank : len[r] <= Lengths(table, objs[o].dvid)[r]
                       /\ Val(table', objs'[o]) = Data(len)
Realigns(o) ==
  /\ Usable(o) /\ objs[o].dvid # 0 /\ OthersKeep(o)
  /\ \E len \in Lens : /\ Total(len) = Total(Lengths(table, objs[o].dvid))
                       /\ Val(table', objs'[o]) = Data(len)
Rewrites(o) ==
  /\ o \in Resized /\ Usable(o) /\ objs[o].dvid # 0 /\ OthersKeep(o)
  /\ \E len \in Lens : Val(table', objs'[o]) = Data(len)
Drops(o) == Live(o) /\ OthersKeep(o) /\ Val(table', objs'[o]) = [is |-> "out of scope"]
ValuesStay == \A p \in Obj : Val(table', objs'[p]) = Val(table, objs[p])

ValueStep ==
  \/ ValuesStay
  \/ \E o \in Obj : Constructs(o) \/ Removes(o) \/ Realigns(o) \/ Rewrites(o) \/ Drops(o)
  \/ \E o \in Obj, s \in Obj : Copies(o, s) \/ Moves(o, s)

(* A cache that may not go stale belongs to data that keeps its lengths.   *)
LEMMA MapvValue ==
  ASSUME ValueInv, NEW o \in Obj, MapvPartitions(o)
  PROVE  AllSound' /\ (ValuesStay \/ Rewrites(o))
<1> DEFINE d == objs[o].dvid
<1>1. PICK len \in Lens :
        /\ table' = Stored(table, d, len, Missing(table, d))
        /\ o \notin Resized \/ (objs[o].is_sizevec_valid /\ ~ SizedToo) =>
             len = Lengths(table, d)
  BY MapvLeaves DEF ValueInv
<1>2. Usable(o) /\ Live(o) /\ ~ objs[o].moved /\ objs[o].kind # "none" /\ objs' = objs
  BY DEF MapvPartitions, Usable, Live
<1>3. CASE d = 0
  <2>1. Missing(table, d) = Rank
    BY <1>3 DEF Missing
  <2>2. Stored(table, d, len, Rank) = [r \in Rank |-> table[r]]
    BY DEF Stored
  <2>3. table' = table
    BY <1>1, <2>1, <2>2, SizesTypes DEF ValueInv, Tables
  <2> QED
    BY <1>2, <2>3 DEF ValueInv, AllSound, ValuesStay
<1>4. CASE d # 0
  <2>1. /\ Missing(table, d) = {} /\ d \in Dvid /\ d \in 0 .. MaxDvid - 1
        /\ \A r \in Rank : table[r][d] # absent
        /\ \A p \in Obj : p # o /\ Live(p) => objs[p].dvid # d
    BY <1>2, <1>4, OwnData, SizesTypes DEF Held, ValueInv
  <2>2. \A r \in Rank, e \in Dvid :
          table'[r][e] = IF e = d /\ r \notin {} THEN len[r] ELSE table[r][e]
    BY <1>1, <1>4, <2>1, SizesTypes, LensFacts, StoredAt DEF ValueInv
  <2>3. \A r \in Rank : table'[r][d] = len[r] /\ len[r] # absent
    BY <2>1, <2>2, LensFacts
  <2>4. Sound(table, objs[o])
    BY DEF ValueInv, AllSound
  <2> HIDE DEF d
  <2>5. ASSUME NEW p \in Obj, p # o
        PROVE  Sound(table', objs'[p]) /\ Val(table', objs'[p]) = Val(table, objs[p])
    <3>1. objs[p].dvid # 0 => objs[p].dvid \in Dvid
      BY SizesTypes DEF ValueInv
    <3>2. objs[p].kind # "none" /\ objs[p].dvid # 0 =>
            \A r \in Rank : table'[r][objs[p].dvid] = table[r][objs[p].dvid]
      BY <2>1, <2>2, <2>5, <3>1 DEF Live
    <3> QED
      BY <1>2, <3>2, Untouched DEF ValueInv, AllSound
  <2>6. ~ Stale /\ objs[o].is_sizevec_valid => \A r \in Rank : table'[r][d] = table[r][d]
    <3>1. SUFFICES ASSUME ~ Stale, objs[o].is_sizevec_valid
                   PROVE  \A r \in Rank : table'[r][d] = table[r][d]
      OBVIOUS
    <3>2. len = Lengths(table, d)
      BY <1>1, <3>1 DEF Stale
    <3> QED
      BY <1>4, <2>1, <2>3, <3>2, HeldLengths
  <2>7. Sound(table', objs'[o])
    <3>1. Backed(table', objs[o])
      BY <2>3 DEF Backed, d
    <3>2. ~ Stale => Fresh(table', objs[o])
      BY <2>4, <2>6 DEF Sound, Fresh, d
    <3> QED
      BY <1>2, <2>4, <3>1, <3>2 DEF Sound
  <2>8. Val(table', objs'[o]) = Data(len)
    <3>1. \A r \in Rank : Lengths(table', d)[r] = len[r]
      BY <1>4, <2>3, HeldLengths
    <3>2. Lengths(table', d) = len
      BY <3>1 DEF Lengths, Lens
    <3> QED
      BY <1>2, <1>4, <3>2 DEF Val, d
  <2>9. o \notin Resized => Val(table', objs'[o]) = Val(table, objs[o])
    BY <1>1, <1>2, <1>4, <2>8 DEF Val, d
  <2> QED
    BY <1>2, <1>4, <2>5, <2>7, <2>8, <2>9 DEF AllSound, ValuesStay, Rewrites, OthersKeep, d
<1> QED
  BY <1>3, <1>4

LEMMA CallValue ==
  ASSUME ValueInv, ~ Faults, NEW o \in Obj, NEW s \in Obj,
         Scatter(o) \/ Map(o, s) \/ MapPartitions(o, s) \/ head(o, s) \/ tail(o, s)
  PROVE  AllSound' /\ (ValuesStay \/ Constructs(o))
<1>1. ASSUME NEW k \in Kinds, NEW len \in Lens, NEW v \in BOOLEAN, NEW z \in Lens,
             NEW bad \in {{}, Rank}, Make(o, k, len, bad, v, z),
             k = "dvector" /\ v => Stale \/ z = len \/ bad = Rank
      PROVE  AllSound' /\ (ValuesStay \/ Constructs(o))
  <2>1. CASE bad = Rank
    <3>1. objs' = objs /\ table' = table
      BY <1>1, <2>1, MakeNothing
    <3> QED
      BY <3>1 DEF ValueInv, AllSound, ValuesStay
  <2>2. CASE bad = {} /\ bad # Rank
    <3>1. ~ Live(o)
      BY <1>1 DEF Make
    <3>2. AllSound' /\ OthersKeep(o) /\ Val(table', objs'[o]) = Data(len)
      BY <1>1, <2>2, MakeValue
    <3> QED
      BY <3>1, <3>2 DEF Constructs
  <2> QED
    BY <2>1, <2>2
<1>2. CASE Scatter(o)
  <2>1. PICK k \in Kinds, len \in Lens : Make(o, k, len, {}, FALSE, NoSizes)
    BY <1>2 DEF Scatter
  <2> QED
    BY <1>1, <2>1, LensFacts
<1>3. CASE Map(o, s)
  <2> DEFINE z == IF objs[s].is_sizevec_valid THEN objs[s].sizevec ELSE NoSizes
  <2>1. PICK bad \in Failing(table, objs[s].dvid) :
          Make(o, objs[s].kind, Lengths(table, objs[s].dvid), bad, objs[s].is_sizevec_valid, z)
    BY <1>3 DEF Map
  <2>2. /\ objs[s].kind \in Kinds /\ objs[s].is_sizevec_valid \in BOOLEAN /\ z \in Lens
        /\ Lengths(table, objs[s].dvid) \in Lens
    BY <1>3, SizesTypes, UsableKind, LensFacts, NamedLengths DEF ValueInv, Map, Usable, Objects
  <2>3. bad \in {{}, Rank}
    BY <1>3, FailsNowhere DEF Map, Usable
  <2>4. objs[s].kind = "dvector" /\ objs[s].is_sizevec_valid =>
          Stale \/ z = Lengths(table, objs[s].dvid)
    BY <1>3, CacheSays DEF Map, Vector
  <2> HIDE DEF z
  <2> QED
    BY <1>1, <2>1, <2>2, <2>3, <2>4
<1>4. CASE MapPartitions(o, s)
  <2>1. PICK len \in Lens, bad \in Failing(table, objs[s].dvid) :
          Make(o, objs[s].kind, len, bad, FALSE, NoSizes)
    BY <1>4 DEF MapPartitions
  <2>2. objs[s].kind \in Kinds
    BY <1>4, UsableKind DEF ValueInv, MapPartitions, Usable
  <2>3. bad \in {{}, Rank}
    BY <1>4, FailsNowhere DEF MapPartitions, Usable
  <2> QED
    BY <1>1, <2>1, <2>2, <2>3, LensFacts
<1>5. CASE head(o, s) \/ tail(o, s)
  <2>1. PICK trunc \in Layout : Truncate(o, s, trunc)
    BY <1>5, HeadTail DEF ValueInv
  <2>2. Sizeable(s)
    BY <1>5 DEF head, tail
  <2> QED
    BY <2>1, <2>2, TruncateValue DEF ValuesStay, Constructs
<1> QED
  BY <1>2, <1>3, <1>4, <1>5

LEMMA AlignValue ==
  ASSUME ValueInv, NEW o \in Obj, Align(o) \/ AlignBlock(o)
  PROVE  AllSound' /\ process' # "terminated" /\ (Stale \/ ValuesStay \/ Realigns(o))
<1>1. PICK dst \in Lens : AlignAs(o, dst)
  BY BlockAligns DEF Align, ValueInv
<1>2. Sizeable(o)
  BY <1>1 DEF AlignAs
<1>3. ~ Stale => sizes(o) = Lengths(table, objs[o].dvid)
  BY <1>2, SizesKnown
<1> QED
  BY <1>1, <1>3, AlignAsValue DEF ValuesStay, Realigns, Vector

LEMMA NextValue ==
  ASSUME ValueInv, ~ Faults, ~ WithViews, ~ SelfAssign, [Next]_vars
  PROVE  ValueInv' /\ (Stale \/ ValueStep)
<1> DEFINE Good == AllSound' /\ process' # "terminated" /\ (Stale \/ ValueStep)
<1>0. process # "terminated" /\ AllSound
  BY DEF ValueInv
<1>1. ASSUME NEW o \in Obj, NEW s \in Obj,
             Scatter(o) \/ Map(o, s) \/ MapPartitions(o, s) \/ head(o, s) \/ tail(o, s)
      PROVE  Good
  <2>1. process' = process
    BY <1>1 DEF Scatter, Map, MapPartitions, head, tail, Make, Truncate
  <2> QED
    BY <1>0, <1>1, <2>1, CallValue DEF ValueStep
<1>2. ASSUME NEW o \in Obj, Declare(o)
      PROVE  Good
  <2>1. process' = process /\ ~ Live(o)
    BY <1>2 DEF Declare, Rename
  <2> QED
    BY <1>0, <1>2, <2>1, DeclareValue DEF ValueStep, Constructs
<1>3. ASSUME NEW o \in Obj, Destroy(o)
      PROVE  Good
  <2>1. Live(o)
    BY <1>3 DEF Destroy
  <2> QED
    BY <1>3, <2>1, DestroyValue DEF ValueStep, Drops
<1>4. ASSUME NEW o \in Obj, Sizes(o) \/ Sort(o)
      PROVE  Good
  <2>1. process' = process
    BY <1>4 DEF Sizes, Rename, Sort
  <2>2. Sort(o) => Stale
    BY DEF Sort, Stale
  <2> QED
    BY <1>0, <1>4, <2>1, <2>2, SizesValue, SortValue DEF ValueStep, ValuesStay
<1>5. ASSUME NEW o \in Obj, InplaceFilter(o) \/ Clear(o)
      PROVE  Good
  <2>1. process' = process
    BY <1>5 DEF InplaceFilter, Clear
  <2> QED
    BY <1>0, <1>5, <2>1, InplaceValue DEF ValueStep, ValuesStay, Removes, Vector
<1>6. ASSUME NEW o \in Obj, MapvPartitions(o) \/ Align(o) \/ AlignBlock(o)
      PROVE  Good
  <2>1. CASE MapvPartitions(o)
    <3>1. process' = process
      BY <2>1 DEF MapvPartitions
    <3> QED
      BY <1>0, <2>1, <3>1, MapvValue DEF ValueStep
  <2>2. CASE Align(o) \/ AlignBlock(o)
    BY <2>2, AlignValue DEF ValueStep
  <2> QED
    BY <1>6, <2>1, <2>2
<1>7. ASSUME NEW o \in Obj, NEW s \in Obj, CopyCtor(o, s) \/ CopyAs(o, s) \/ CopyAssign(o, s)
      PROVE  Good
  <2>1. process' = process
    BY <1>7 DEF CopyCtor, CopyAs, CopyAssign, Duplicate, Rename, Make
  <2>2. Usable(s) /\ (CopyAssign(o, s) => o # s)
    BY <1>7 DEF CopyCtor, CopyAs, CopyAssign
  <2> QED
    BY <1>0, <1>7, <2>1, <2>2, CopyCtorValue, CopyAssignValue DEF ValueStep, Copies
<1>8. ASSUME NEW o \in Obj, NEW s \in Obj, MoveCtor(o, s) \/ MoveTo(o, s) \/ MoveAssign(o, s)
      PROVE  Good
  <2>1. process' = process
    BY <1>8 DEF MoveCtor, MoveTo, MoveAssign, Rename
  <2> QED
    BY <1>0, <1>8, <2>1, MoveValue DEF ValueStep, Moves
<1>9. \A o \in Obj, s \in Obj : ~ ViewAs(o, s)
  BY DEF ViewAs
<1>10. UNCHANGED vars => Good
  BY <1>0 DEF vars, AllSound, ValueStep, ValuesStay
<1>11. SizesInv'
  BY NextSizes DEF ValueInv
<1>12. Good
  <2> HIDE DEF Good
  <2> QED
    BY <1>1, <1>2, <1>3, <1>4, <1>5, <1>6, <1>7, <1>8, <1>9, <1>10 DEF Next
<1> QED
  BY <1>11, <1>12 DEF ValueInv

LEMMA InitValue == Init => ValueInv
<1>1. Init => AllSound
  BY DEF Init, AllSound, Sound, Backed, Fresh, Nothing, Object
<1> QED
  BY <1>1, InitSizes DEF Init, ValueInv

(* While nothing throws, nothing is viewed and no object is assigned to    *)
(* itself, no destructor throws (and ends the program): what an owner is   *)
(* to delete is there, on every rank, through every copy, move, change in  *)
(* place (whatever it does to the sizes), alignment and sort.              *)
THEOREM NoTermination ==
  ASSUME ~ Faults, ~ WithViews, ~ SelfAssign
  PROVE  Spec => []DestructorsSafe
<1>1. ValueInv /\ [Next]_vars => ValueInv'
  BY NextValue
<1>2. ValueInv => DestructorsSafe
  BY DEF ValueInv, DestructorsSafe
<1> QED
  BY <1>1, <1>2, InitValue, PTL DEF Spec

(* And, unless the program sorts, or resizes in mapv_partitions what has   *)
(* its sizes cached, sizes() answers with what the ranks hold, from the    *)
(* cache or not.                                                           *)
THEOREM CachesFresh ==
  ASSUME ~ Faults, ~ WithViews, ~ SelfAssign, ~ WithSort, ~ SizedToo
  PROVE  Spec => []CacheFresh
<1>0. ~ Stale
  BY DEF Stale
<1>1. ValueInv /\ [Next]_vars => ValueInv'
  BY NextValue
<1>2. ValueInv => CacheFresh
  BY <1>0, CacheSays, OwnData DEF CacheFresh, Vector, Usable
<1> QED
  BY <1>1, <1>2, InitValue, PTL DEF Spec

(* The steps above are those of DistValues.                                *)
LEMMA ValsThere ==
  ASSUME NEW o \in Obj
  PROVE  /\ Values!Scoped(o) <=> Live(o)
         /\ Values!HasData(o) <=> Usable(o) /\ objs[o].dvid # 0
<1>1. Values!Scoped(o) <=> Live(o)
  BY DEF Values!Scoped, Values!Out, Live
<1>2. Values!HasData(o) <=> Usable(o) /\ objs[o].dvid # 0
  BY DEF Values!HasData, Usable, Live
<1> QED
  BY <1>1, <1>2

LEMMA ValsBecome ==
  ASSUME NEW o \in Obj, OthersKeep(o), NEW v, Val(table', objs'[o]) = v
  PROVE  Values!Becomes(o, v)
BY DEF Values!Becomes, OthersKeep, Val, Data, Live

LEMMA ValuesSame ==
  ASSUME ValuesStay
  PROVE  UNCHANGED [o \in Obj |->
           IF ~ Live(o) THEN [is |-> "out of scope"]
           ELSE IF objs[o].moved THEN [is |-> "moved from"]
           ELSE IF objs[o].dvid = 0 THEN [is |-> "empty"]
           ELSE [is |-> "data", len |-> Lengths(table, objs[o].dvid)]]
BY DEF ValuesStay, Val, Data, Live

LEMMA StepRefines ==
  ASSUME ValueStep, ~ ValuesStay
  PROVE  Values!Next
<1>1. ASSUME NEW o \in Obj, Constructs(o)
      PROVE  Values!Construct(o)
  <2>1. ~ Values!Scoped(o)
    BY <1>1, ValsThere DEF Constructs
  <2>2. PICK v \in {[is |-> "empty"]} \cup {Data(len) : len \in Lens} : Val(table', objs'[o]) = v
    BY <1>1 DEF Constructs
  <2>3. Values!Becomes(o, v)
    BY <1>1, <2>2, ValsBecome DEF Constructs
  <2> QED
    BY <2>1, <2>3 DEF Values!Construct, Values!Empty, Values!Data, Values!Lens, Values!Rank,
      Data, Lens, Rank
<1>2. ASSUME NEW o \in Obj, Removes(o)
      PROVE  Values!Remove(o)
  <2>1. Values!HasData(o) /\ Live(o) /\ ~ objs[o].moved /\ objs[o].dvid # 0
    BY <1>2, ValsThere DEF Removes, Usable
  <2>2. PICK len \in Lens : /\ \A r \in Rank : len[r] <= Lengths(table, objs[o].dvid)[r]
                            /\ Val(table', objs'[o]) = Data(len)
    BY <1>2 DEF Removes
  <2>3. Values!Becomes(o, Data(len))
    BY <1>2, <2>2, ValsBecome DEF Removes
  <2> QED
    BY <2>1, <2>2, <2>3 DEF Values!Remove, Values!Data, Values!Lens, Values!Rank, Data, Lens, Rank
<1>3. ASSUME NEW o \in Obj, Realigns(o)
      PROVE  Values!Realign(o)
  <2>1. Values!HasData(o) /\ Live(o) /\ ~ objs[o].moved /\ objs[o].dvid # 0
    BY <1>3, ValsThere DEF Realigns, Usable
  <2>2. PICK len \in Lens : /\ Total(len) = Total(Lengths(table, objs[o].dvid))
                            /\ Val(table', objs'[o]) = Data(len)
    BY <1>3 DEF Realigns
  <2>3. Values!Becomes(o, Data(len))
    BY <1>3, <2>2, ValsBecome DEF Realigns
  <2>4. \A z : Values!Total(z) = Total(z)
    BY Zenon DEF Values!Total, Values!SumFunction, Values!SumFunctionOnSet,
      Values!FoldFunctionOnSet, Values!MapThenFoldSet,
      Total, SumFunction, SumFunctionOnSet, FoldFunctionOnSet, MapThenFoldSet
  <2> QED
    BY <2>1, <2>2, <2>3, <2>4 DEF Values!Realign, Values!Data, Values!Lens, Values!Rank,
      Data, Lens, Rank
<1>4. ASSUME NEW o \in Obj, Drops(o)
      PROVE  Values!Drop(o)
  BY <1>4, ValsThere, ValsBecome DEF Drops, Values!Drop, Values!Out
<1>5. ASSUME NEW o \in Obj, NEW s \in Obj, Copies(o, s)
      PROVE  Values!Copy(o, s)
  <2>1. Live(s) /\ ~ objs[s].moved
    BY <1>5 DEF Copies, Usable
  <2>2. PICK v : v = Val(table, objs[s])
    OBVIOUS
  <2>3. Values!Becomes(o, v)
    BY <1>5, <2>2, ValsBecome DEF Copies
  <2> DEFINE shown == [p \in Obj |->
               IF ~ Live(p) THEN [is |-> "out of scope"]
               ELSE IF objs[p].moved THEN [is |-> "moved from"]
               ELSE IF objs[p].dvid = 0 THEN [is |-> "empty"]
               ELSE [is |-> "data", len |-> Lengths(table, objs[p].dvid)]]
  <2>4. shown[s] = v
    BY <2>1, <2>2 DEF Val, Data, Live
  <2>5. shown[s] \notin {Values!Out, Values!Moved}
    BY <2>1 DEF Values!Out, Values!Moved
  <2>6. shown' = [shown EXCEPT ![o] = shown[s]]
    BY <2>3, <2>4 DEF Values!Becomes
  <2> QED
    BY <2>5, <2>6 DEF Values!Copy, Values!Becomes
<1>6. ASSUME NEW o \in Obj, NEW s \in Obj, Moves(o, s)
      PROVE  Values!Move(o, s)
  <2>1. Live(s) /\ ~ objs[s].moved
    BY <1>6 DEF Moves, Usable
  <2> QED
    BY <1>6, <2>1 DEF Moves, Values!Move, Values!Out, Values!Moved, Val, Data, Live
<1>7. ASSUME NEW o \in Obj, Rewrites(o)
      PROVE  Values!Edit(o)
  <2>1. Values!HasData(o) /\ o \in Resized
    BY <1>7, ValsThere DEF Rewrites
  <2>2. PICK len \in Lens : Val(table', objs'[o]) = Data(len)
    BY <1>7 DEF Rewrites
  <2>3. Values!Becomes(o, Data(len))
    BY <1>7, <2>2, ValsBecome DEF Rewrites
  <2> QED
    BY <2>1, <2>2, <2>3 DEF Values!Edit, Values!Data, Values!Lens, Values!Rank, Data, Lens, Rank
<1> QED
  BY <1>1, <1>2, <1>3, <1>4, <1>5, <1>6, <1>7 DEF ValueStep, Values!Next

LEMMA InitRefines == Init => Values!Init
BY DEF Init, Values!Init, Values!Out, Nothing, Object, Live

(* And objects behave like values that live on their own: whatever the     *)
(* program does with one object, in place or into another, no other        *)
(* changes, and a copy is one.  As for CachesFresh, it neither sorts nor   *)
(* resizes what has its sizes cached: aligning by a stale cache would lose *)
(* elements.                                                               *)
THEOREM LikeValues ==
  ASSUME ~ Faults, ~ WithViews, ~ SelfAssign, ~ WithSort, ~ SizedToo
  PROVE  Spec => BehavesAsValues
<1> DEFINE shown == [o \in Obj |->
             IF ~ Live(o) THEN [is |-> "out of scope"]
             ELSE IF objs[o].moved THEN [is |-> "moved from"]
             ELSE IF objs[o].dvid = 0 THEN [is |-> "empty"]
             ELSE [is |-> "data", len |-> Lengths(table, objs[o].dvid)]]
<1>1. ValueInv /\ [Next]_vars => ValueInv' /\ [Values!Next]_shown
  BY NextValue, StepRefines, ValuesSame DEF Stale
<1> QED
  BY <1>1, InitValue, InitRefines, PTL DEF Spec, BehavesAsValues, Values!Spec
=============================================================================
